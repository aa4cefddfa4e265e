----------------------------- MODULE FileMapper -----------------------------
(***************************************************************************)
(* A remote file that is read piece by piece into memory of its size       *)
(* (backend/utils/file_mapper, smb_client::read), while others may write   *)
(* to it or cut it off.  The interval set of the code joins what touches,  *)
(* so it is the set of the positions in it.                                *)
(***************************************************************************)
EXTENDS Integers

CONSTANTS MinimumReadSize,          \* 16 K in the code
          FileSize                  \* when the file was opened

ASSUME MinimumReadSizeAssumption == MinimumReadSize \in Nat \ {0}

ASSUME FileSizeAssumption == FileSize \in Nat

VARIABLES marked,    \* map_: the chunks that count as mapped
          present,   \* history: the positions whose bytes a read has delivered
          asked,     \* the last call of map_chunk
          mapped,    \* what it returned, FALSE while it runs
          reading,   \* the read that it is in: its chunk, and curpos
          length,    \* of the file now
          shortest   \* history: the least that length has been

mapperVars == <<marked, present, asked, mapped, reading, length, shortest>>

Least(a, b) == IF a < b THEN a ELSE b
Greatest(a, b) == IF a < b THEN b ELSE a

chunk(offset, size) == offset..offset + size - 1

NoRead == [offset |-> 0, size |-> 0, curpos |-> -1]
Idle == reading = NoRead

(* file_mapper: the memory has the size that the file has now.             *)
MapperInit ==
    /\ marked = {} /\ present = {}
    /\ asked = [offset |-> 0, size |-> 0] /\ mapped = FALSE
    /\ reading = NoRead
    /\ length = FileSize /\ shortest = FileSize

in_bound(offset, size) == size + offset <= FileSize

minimum_read_size(offset, size) == Least(FileSize - offset, Greatest(MinimumReadSize, size))

FaultAnyOverlap(new_chunk) == new_chunk \cap marked # {}
contains(new_chunk) == new_chunk # {} /\ new_chunk \subseteq marked

map_chunk(offset, size) ==
    LET wanted == minimum_read_size(offset, size)
    IN /\ Idle
       /\ asked' = [offset |-> offset, size |-> size]
       /\ \/ /\ in_bound(offset, size) /\ ~contains(chunk(offset, wanted))
             /\ mapped' = FALSE
             /\ reading' = [offset |-> offset, size |-> wanted, curpos |-> 0]
          \/ /\ in_bound(offset, size) => contains(chunk(offset, wanted))
             /\ mapped' = in_bound(offset, size)
             /\ UNCHANGED reading
       /\ UNCHANGED <<marked, present, length, shortest>>

(* smbc_read delivers some of the bytes that the file has there.           *)
Delivers ==
    LET at == reading.offset + reading.curpos
    IN /\ ~Idle /\ reading.curpos < reading.size
       /\ \E bytesread \in 1..Least(reading.size - reading.curpos, length - at) :
              /\ present' = present \cup chunk(at, bytesread)
              /\ reading' = [reading EXCEPT !.curpos = @ + bytesread]
       /\ UNCHANGED <<marked, asked, mapped, length, shortest>>

(* There is nothing left to read, of the chunk or of the file.             *)
AtEnd == reading.curpos = reading.size \/ length <= reading.offset + reading.curpos

(* read returns curpos; the whole chunk is marked if that is not 0.        *)
Returns ==
    /\ ~Idle /\ AtEnd
    /\ mapped' = (reading.curpos > 0)
    /\ marked' = IF reading.curpos > 0 THEN marked \cup chunk(reading.offset, reading.size)
                 ELSE marked
    /\ reading' = NoRead
    /\ UNCHANGED <<present, asked, length, shortest>>

(* Fault: an error ends the loop like the end of the file.                 *)
ReturnsWhatItHas ==
    /\ ~Idle
    /\ mapped' = (reading.curpos > 0)
    /\ marked' = IF reading.curpos > 0 THEN marked \cup chunk(reading.offset, reading.size)
                 ELSE marked
    /\ reading' = NoRead
    /\ UNCHANGED <<present, asked, length, shortest>>

(* smbc_lseek or smbc_read fails: what was delivered is not marked.        *)
Fails ==
    /\ ~Idle
    /\ mapped' = FALSE
    /\ reading' = NoRead
    /\ UNCHANGED <<marked, present, asked, length, shortest>>

(* Somebody else writes to the file.  Bytes behind its old end are never   *)
(* asked for.                                                              *)
FileChanges ==
    /\ length' \in 0..FileSize
    /\ shortest' = Least(shortest, length')
    /\ UNCHANGED <<marked, present, asked, mapped, reading>>

MapperNext ==
    \/ \E offset \in 0..FileSize, size \in 0..FileSize + 1 : map_chunk(offset, size)
    \/ Delivers \/ Returns \/ Fails
    \/ FileChanges

MapperSpec == MapperInit /\ [][MapperNext]_mapperVars

-----------------------------------------------------------------------------
(* What the caller is told to be in memory has been read, as far as the    *)
(* file has reached all the time since it was opened: however a read is    *)
(* cut to pieces, whichever fail, and whatever was asked for before.       *)
MappedIsRead ==
    mapped => chunk(asked.offset, asked.size) \cap 0..shortest - 1 \subseteq present
=============================================================================
