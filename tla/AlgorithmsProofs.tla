-------------------------- MODULE AlgorithmsProofs --------------------------
(***************************************************************************)
(* Proofs about the loops of the code that no other process takes part in: *)
(* pieces of a file in memory (FileMapper) and its headers (PeHeaders),    *)
(* words for access masks (SecurityDescriptor), letters for bytes          *)
(* (Base64), texts of the registry (RegistryText), the libraries of        *)
(* actions (Plugins), the broker's own actions (LocalActions) and the      *)
(* envelopes of messages (Envelopes, ZmqMessage).                          *)
(***************************************************************************)
EXTENDS FileMapper, PeHeaders, SecurityDescriptor, Base64, RegistryText, Plugins, LocalActions,
        Envelopes, SequenceTheorems, TLAPS

(* Where a read that is under way has got to: it is one of the call that   *)
(* was made, and what it has passed was there.                             *)
ReadOK ==
    /\ in_bound(asked.offset, asked.size) /\ ~mapped
    /\ reading \in [offset : Nat, size : Nat, curpos : Nat]
    /\ reading.offset = asked.offset
    /\ reading.size = minimum_read_size(asked.offset, asked.size)
    /\ reading.curpos \in 0..reading.size
    /\ chunk(reading.offset, reading.curpos) \subseteq present

(* What is marked has been read, up to where the file has always reached.  *)
MapperInv ==
    /\ asked \in [offset : Nat, size : Nat]
    /\ mapped \in BOOLEAN
    /\ length \in 0..FileSize /\ shortest \in 0..length
    /\ marked \cap 0..shortest - 1 \subseteq present
    /\ Idle \/ ReadOK
    /\ mapped => chunk(asked.offset, asked.size) \subseteq marked

LEMMA ChunkIsWhole ==
    ASSUME NEW offset \in Nat, NEW size \in Nat, in_bound(offset, size)
    PROVE  /\ minimum_read_size(offset, size) \in Nat
           /\ chunk(offset, size) \subseteq chunk(offset, minimum_read_size(offset, size))
  <1> DEFINE wanted == minimum_read_size(offset, size)
  <1>1. FileSize \in Nat /\ size + offset <= FileSize
    BY FileSizeAssumption DEF in_bound
  <1>2. wanted \in Nat /\ size <= wanted
    BY <1>1, MinimumReadSizeAssumption DEF minimum_read_size, Least, Greatest
  <1> HIDE DEF wanted
  <1>3. chunk(offset, size) \subseteq chunk(offset, wanted)
    BY <1>2 DEF chunk
  <1> QED BY <1>2, <1>3 DEF wanted

LEMMA MapChunkInv ==
    ASSUME MapperInv, NEW offset \in Nat, NEW size \in Nat, map_chunk(offset, size)
    PROVE  MapperInv'
  <1> DEFINE wanted == minimum_read_size(offset, size)
  <1>1. /\ asked' = [offset |-> offset, size |-> size]
        /\ UNCHANGED <<marked, present, length, shortest>>
    BY DEF map_chunk
  <1>2. asked' \in [offset : Nat, size : Nat] /\ asked'.offset = offset /\ asked'.size = size
    BY <1>1
  <1>3. CASE /\ in_bound(offset, size) /\ mapped' = FALSE
             /\ reading' = [offset |-> offset, size |-> wanted, curpos |-> 0]
    <2>1. wanted \in Nat /\ 0 \in 0..wanted /\ chunk(offset, 0) = {}
      BY <1>3, ChunkIsWhole DEF chunk
    <2>2. ReadOK'
      BY <1>2, <1>3, <2>1 DEF ReadOK, in_bound, minimum_read_size
    <2> QED BY <1>1, <1>2, <1>3, <2>2 DEF MapperInv
  <1>4. CASE /\ in_bound(offset, size) => contains(chunk(offset, wanted))
             /\ mapped' = in_bound(offset, size) /\ UNCHANGED reading /\ Idle
    <2>1. mapped' => chunk(offset, size) \subseteq marked
      BY <1>4, ChunkIsWhole DEF contains
    <2>2. Idle' /\ mapped' \in BOOLEAN
      BY <1>4 DEF Idle, in_bound
    <2> QED BY <1>1, <1>2, <2>1, <2>2 DEF MapperInv
  <1> QED BY <1>3, <1>4 DEF map_chunk

LEMMA DeliversInv ==
    ASSUME MapperInv, Delivers
    PROVE  MapperInv'
  <1> DEFINE at == reading.offset + reading.curpos
  <1>1. /\ ReadOK /\ reading.offset \in Nat /\ reading.size \in Nat /\ reading.curpos \in Nat
        /\ UNCHANGED <<marked, asked, mapped, length, shortest>>
    <2>1. ReadOK /\ asked.offset \in Nat /\ asked.size \in Nat
      BY DEF Delivers, MapperInv
    <2> QED BY <2>1, ChunkIsWhole DEF ReadOK, Delivers
  <1>2. PICK bytesread \in 1..Least(reading.size - reading.curpos, length - at) :
            /\ present' = present \cup chunk(at, bytesread)
            /\ reading' = [reading EXCEPT !.curpos = @ + bytesread]
    BY DEF Delivers
  <1>3. reading.curpos + bytesread \in 0..reading.size
    BY <1>1, <1>2 DEF Least, ReadOK, MapperInv
  <1>4. chunk(reading.offset, reading.curpos + bytesread)
            \subseteq chunk(reading.offset, reading.curpos) \cup chunk(at, bytesread)
    BY <1>1, <1>3 DEF chunk
  <1>5. /\ reading'.offset = reading.offset /\ reading'.size = reading.size
        /\ reading'.curpos = reading.curpos + bytesread
    BY <1>1, <1>2, <1>3
  <1>6. ReadOK'
    BY <1>1, <1>2, <1>3, <1>4, <1>5 DEF ReadOK, in_bound, minimum_read_size
  <1> QED BY <1>1, <1>2, <1>6 DEF MapperInv

LEMMA ReturnsInv ==
    ASSUME MapperInv, Returns
    PROVE  MapperInv'
  <1> DEFINE got == chunk(reading.offset, reading.size)
  <1>1. /\ ReadOK /\ AtEnd /\ Idle'
        /\ UNCHANGED <<present, asked, length, shortest>>
        /\ asked.offset \in Nat /\ asked.size \in Nat
    BY DEF Returns, MapperInv, Idle
  <1>2. got \cap 0..shortest - 1 \subseteq chunk(reading.offset, reading.curpos)
    <2>1. shortest \in Int /\ length \in Int /\ shortest <= length
      BY DEF MapperInv
    <2>2. reading.curpos = reading.size \/ shortest <= reading.offset + reading.curpos
      BY <1>1, <2>1 DEF AtEnd, ReadOK
    <2> QED BY <1>1, <2>1, <2>2 DEF chunk, ReadOK
  <1>3. chunk(asked.offset, asked.size) \subseteq got
    BY <1>1, ChunkIsWhole DEF ReadOK
  <1>4. CASE reading.curpos > 0
    <2>1. mapped' = TRUE /\ marked' = marked \cup got
      BY <1>4 DEF Returns
    <2>2. marked' \cap 0..shortest - 1 \subseteq present
      BY <1>1, <1>2, <2>1 DEF ReadOK, MapperInv
    <2> QED BY <1>1, <1>3, <2>1, <2>2 DEF MapperInv
  <1>5. CASE ~(reading.curpos > 0)
    <2>1. (reading.curpos > 0) = FALSE
      BY <1>5
    <2>2. mapped' = FALSE /\ marked' = marked
      BY <2>1 DEF Returns
    <2> QED BY <1>1, <2>2 DEF MapperInv
  <1> QED BY <1>4, <1>5

LEMMA FailsInv ==
    ASSUME MapperInv, Fails
    PROVE  MapperInv'
  BY DEF MapperInv, Fails, Idle

LEMMA LeastOf ==
    ASSUME NEW a \in Nat, NEW b \in Nat
    PROVE  Least(a, b) \in 0..b /\ 0..Least(a, b) - 1 \subseteq 0..a - 1
  BY DEF Least

LEMMA FileChangesInv ==
    ASSUME MapperInv, FileChanges
    PROVE  MapperInv'
  <1>1. /\ length' \in 0..FileSize /\ shortest' = Least(shortest, length')
        /\ UNCHANGED <<marked, present, asked, mapped, reading>>
    BY DEF FileChanges
  <1>2. shortest \in Nat
    BY FileSizeAssumption DEF MapperInv
  <1>3. shortest' \in 0..length' /\ 0..shortest' - 1 \subseteq 0..shortest - 1
    <2>1. length' \in Nat
      BY <1>1, FileSizeAssumption
    <2> QED BY <1>1, <1>2, <2>1, LeastOf
  <1>4. (Idle \/ ReadOK)'
    BY <1>1 DEF MapperInv, Idle, ReadOK, in_bound, minimum_read_size
  <1> QED BY <1>1, <1>3, <1>4 DEF MapperInv

LEMMA MapperInvariance == MapperSpec => []MapperInv
  <1>1. ASSUME MapperInit PROVE MapperInv
    <2>1. /\ asked \in [offset : Nat, size : Nat] /\ mapped = FALSE /\ Idle
          /\ marked = {} /\ length = FileSize /\ shortest = FileSize
      BY <1>1 DEF MapperInit, Idle
    <2>2. length \in 0..FileSize /\ shortest \in 0..length
      BY <2>1, FileSizeAssumption
    <2>3. marked \cap 0..shortest - 1 \subseteq present
      BY <2>1
    <2> QED BY <2>1, <2>2, <2>3 DEF MapperInv
  <1>2. MapperInv /\ [MapperNext]_mapperVars => MapperInv'
    <2> SUFFICES ASSUME MapperInv, [MapperNext]_mapperVars PROVE MapperInv'
      OBVIOUS
    <2>1. ASSUME NEW offset \in 0..FileSize, NEW size \in 0..FileSize + 1, map_chunk(offset, size)
          PROVE  MapperInv'
      <3>1. offset \in Nat /\ size \in Nat
        BY FileSizeAssumption
      <3> QED BY <2>1, <3>1, MapChunkInv
    <2>2. CASE UNCHANGED mapperVars
      <3>1. (Idle \/ ReadOK)'
        BY <2>2 DEF mapperVars, MapperInv, Idle, ReadOK, in_bound, minimum_read_size
      <3> QED BY <2>2, <3>1 DEF mapperVars, MapperInv
    <2> QED BY <2>1, <2>2, DeliversInv, ReturnsInv, FailsInv, FileChangesInv DEF MapperNext
  <1> QED BY <1>1, <1>2, PTL DEF MapperSpec

(* file_mapper::map_chunk, smb_client::read: whatever was asked for before,*)
(* however a read is cut to pieces, whichever of them fail, and whatever   *)
(* becomes of the file meanwhile, what the caller is told to be in memory  *)
(* has been read.                                                          *)
THEOREM MappedHasBeenRead == MapperSpec => []MappedIsRead
  <1>1. MapperInv => MappedIsRead
    BY DEF MapperInv, MappedIsRead
  <1> QED BY <1>1, MapperInvariance, PTL

-----------------------------------------------------------------------------
(* The plugins of a worker.                                                *)

PluginsInv ==
    /\ entries \in Seq(Entry)
    /\ libraries = {k \in 1..Len(entries) : exports(entries[k])}
    /\ DOMAIN registered = {entries[k].action : k \in libraries}
    /\ \A n \in DOMAIN registered :
          /\ registered[n].code \in Exporting(n)
          /\ \A j \in Exporting(n) : j <= registered[n].code
          /\ registered[n].text \in libraries

(* The entries up to k stay when one more is read.                         *)
LEMMA OneMoreEntry ==
    ASSUME entries \in Seq(Entry), NEW entry \in Entry, entries' = Append(entries, entry)
    PROVE  /\ entries' \in Seq(Entry) /\ Len(entries') = Len(entries) + 1
           /\ 1..Len(entries') = 1..Len(entries) \cup {Len(entries')}
           /\ Len(entries') \notin 1..Len(entries)
           /\ \A k \in 1..Len(entries) : entries'[k] = entries[k] /\ k < Len(entries')
           /\ entries'[Len(entries')] = entry
  <1>1. Len(entries) \in Nat
    OBVIOUS
  <1>2. /\ entries' \in Seq(Entry) /\ Len(entries') = Len(entries) + 1
        /\ \A k \in 1..Len(entries) : entries'[k] = entries[k]
        /\ entries'[Len(entries) + 1] = entry
    BY AppendProperties
  <1> QED BY <1>1, <1>2

LEMMA LoadsInv ==
    ASSUME PluginsInv, NEW entry \in Entry, Loads(entry)
    PROVE  PluginsInv'
  <1> DEFINE k == Len(entries')
             name == entry.action
  <1>1. /\ entries' \in Seq(Entry) /\ k \in Nat
        /\ 1..k = 1..Len(entries) \cup {k} /\ k \notin 1..Len(entries)
        /\ \A j \in 1..Len(entries) : entries'[j] = entries[j] /\ j < k
        /\ entries'[k] = entry
    BY OneMoreEntry DEF PluginsInv, Loads
  <1> HIDE DEF k
  <1>2. \A n : Exporting(n)' = Exporting(n) \cup (IF exports(entry) /\ name = n THEN {k} ELSE {})
    BY <1>1 DEF Exporting, exports, opened, k
  <1>3. /\ libraries = {j \in 1..Len(entries) : exports(entries[j])}
        /\ DOMAIN registered = {entries[j].action : j \in libraries}
    BY DEF PluginsInv
  <1>4. \A n \in DOMAIN registered :
           /\ registered[n].code \in Exporting(n) /\ registered[n].text \in libraries
           /\ \A j \in Exporting(n) : j <= registered[n].code
    BY DEF PluginsInv
  <1>5. {j \in 1..k : exports(entries'[j])} = libraries \cup IF exports(entry) THEN {k} ELSE {}
    BY <1>1, <1>3 DEF exports, opened
  <1>6. CASE ~exports(entry) /\ UNCHANGED <<registered, libraries>>
    <2>1. libraries' = {j \in 1..k : exports(entries'[j])} /\ \A n : Exporting(n)' = Exporting(n)
      BY <1>2, <1>5, <1>6
    <2>2. DOMAIN registered' = {entries'[j].action : j \in libraries'}
      BY <1>1, <1>3, <1>6
    <2> QED BY <1>1, <1>4, <1>6, <2>1, <2>2 DEF PluginsInv, k
  <1>7. CASE /\ exports(entry) /\ registered' = register1(registered, name, k)
             /\ libraries' = libraries \cup {k}
    <2>1. DOMAIN registered' = DOMAIN registered \cup {name}
      BY <1>7 DEF register1
    <2>2. \A n \in DOMAIN registered \ {name} : registered'[n] = registered[n]
      BY <1>7 DEF register1
    <2>3. registered'[name].code = k /\ registered'[name].text \in libraries'
      BY <1>4, <1>7 DEF register1
    <2>4. k \in Exporting(name)' /\ \A j \in Exporting(name)' : j <= k
      BY <1>1, <1>2, <1>7 DEF Exporting, k
    <2>5. \A n : n # name => Exporting(n)' = Exporting(n)
      BY <1>2
    <2>6. \A n \in DOMAIN registered' :
             /\ registered'[n].code \in Exporting(n)' /\ registered'[n].text \in libraries'
             /\ \A j \in Exporting(n)' : j <= registered'[n].code
      BY <1>4, <1>7, <2>1, <2>2, <2>3, <2>4, <2>5
    <2>7. libraries' = {j \in 1..k : exports(entries'[j])}
      BY <1>5, <1>7
    <2>8. DOMAIN registered' = {entries'[j].action : j \in libraries'}
      BY <1>1, <1>3, <1>7, <2>1
    <2> QED BY <1>1, <2>6, <2>7, <2>8 DEF PluginsInv, k
  <1> QED BY <1>6, <1>7 DEF Loads, k

(* action_manager::load, Dispatcher: in a directory of any entries, after  *)
(* each turn of the loop, every action that a library exported so far is   *)
(* found in the last that did, and the libraries that hold its name and    *)
(* its code have not been closed.                                          *)
THEOREM ActionsAreAlwaysFound == PluginsSpec => []ActionsAreFound
  <1>1. ASSUME PluginsInit PROVE PluginsInv
    <2>1. /\ entries \in Seq(Entry) /\ 1..Len(entries) = {} /\ libraries = {}
          /\ DOMAIN registered = {}
      BY <1>1 DEF PluginsInit
    <2> QED BY <2>1 DEF PluginsInv
  <1>2. PluginsInv /\ [PluginsNext]_pluginVars => PluginsInv'
    <2>1. PluginsInv /\ PluginsNext => PluginsInv'
      BY LoadsInv DEF PluginsNext
    <2>2. PluginsInv /\ UNCHANGED pluginVars => PluginsInv'
      BY DEF pluginVars, PluginsInv, Exporting
    <2> QED BY <2>1, <2>2
  <1>3. PluginsInv => ActionsAreFound
    <2> SUFFICES ASSUME PluginsInv, NEW name \in ActionName
                 PROVE  LET k == find(registered, name)
                        IN IF Exporting(name) = {} THEN k = 0
                           ELSE /\ k \in Exporting(name) /\ \A j \in Exporting(name) : j <= k
                                /\ {k, registered[name].text} \subseteq libraries
      BY DEF ActionsAreFound
    <2>1. \A k \in Exporting(name) : k \in libraries /\ name \in DOMAIN registered
      BY DEF PluginsInv, Exporting
    <2>2. CASE name \in DOMAIN registered
      <3>1. /\ find(registered, name) = registered[name].code
            /\ registered[name].code \in Exporting(name)
            /\ registered[name].text \in libraries
            /\ \A j \in Exporting(name) : j <= registered[name].code
        BY <2>2 DEF find, PluginsInv
      <3> QED BY <2>1, <3>1
    <2>3. CASE name \notin DOMAIN registered
      BY <2>1, <2>3 DEF find
    <2> QED BY <2>2, <2>3
  <1> QED BY <1>1, <1>2, <1>3, PTL DEF PluginsSpec

-----------------------------------------------------------------------------
(* The actions that the broker runs itself.                                *)

Code == {"OK", "REMOTE_AND_USERNAME_ARE_MANDATORY", "FAILED_ADDING_NEW_SESSION",
         "SESSION_NOT_FOUND", "BAD_PARAMETER"}

Answer == [code : Code, session : Id \cup {NoSession}]

BatchTypes ==
    /\ sessions \subseteq session /\ given \subseteq Id
    /\ session_id \in given \cup {NoSession} /\ sess \in {NoSession, session_id}
    /\ known \in Seq(Action) /\ msgs \in Seq(Answer) /\ Len(msgs) <= Len(known)

(* Whoever was started is there, has expired or was replaced.              *)
StartedOK(k, n) ==
    Answered(k, "start_session") =>
        /\ msgs[k].session # session_id
        /\ \/ [id |-> msgs[k].session, remote |-> known[k].remote] \in sessions
           \/ msgs[k].session \in expired
           \/ \E j \in k + 1..n : Replaces(j, known[k].remote)

ClosedOK(k) == Answered(k, "close_session") => \A s \in sessions : s.id # session_id

(* Whoever was there and is not any more has a reason.                     *)
GoneOK(n) ==
    \A s \in before \ sessions :
        \/ s.id \in expired
        \/ \E k \in 1..n : Replaces(k, s.remote) \/ (Answered(k, "close_session") /\ s.id = session_id)

OnePerRemoteOK == \A s, t \in sessions : s.remote = t.remote => s = t

BatchInv ==
    /\ BatchTypes
    /\ \A s \in sessions : s.id \in given
    /\ \A k \in 1..Len(msgs) : StartedOK(k, Len(msgs)) /\ ClosedOK(k)
    /\ OnePerRemoteOK
    /\ GoneOK(Len(msgs))

(* An answer more: the older ones and their actions stay.                  *)
LEMMA OneMoreAnswer ==
    ASSUME BatchTypes, Len(msgs) < Len(known), NEW a \in Answer, msgs' = Append(msgs, a)
    PROVE  /\ msgs' \in Seq(Answer) /\ Len(msgs') = Len(msgs) + 1 /\ Len(msgs') <= Len(known)
           /\ 1..Len(msgs') = 1..Len(msgs) \cup {Len(msgs')}
           /\ Len(msgs') \notin 1..Len(msgs)
           /\ \A k \in 1..Len(msgs) : /\ msgs'[k] = msgs[k]
                                      /\ k + 1..Len(msgs') = k + 1..Len(msgs) \cup {Len(msgs')}
           /\ msgs'[Len(msgs')] = a
  <1>1. Len(msgs) \in Nat /\ Len(known) \in Nat
    BY DEF BatchTypes
  <1>2. /\ msgs' \in Seq(Answer) /\ Len(msgs') = Len(msgs) + 1
        /\ \A k \in 1..Len(msgs) : msgs'[k] = msgs[k]
        /\ msgs'[Len(msgs) + 1] = a
    BY AppendProperties DEF BatchTypes
  <1> QED BY <1>1, <1>2

(* What an answered action must have done to the cache.                    *)
LEMMA AnsweredInv ==
    ASSUME BatchInv, Len(msgs) < Len(known), NEW a \in Answer, msgs' = Append(msgs, a),
           UNCHANGED <<session_id, known, sess, before, expired>>,
           sessions' \subseteq session, given \subseteq given', given' \subseteq Id,
           \A s \in sessions' : s.id \in given',
           OnePerRemoteOK',
           NEW n, n = Len(msgs) + 1,
           \A s \in sessions \ sessions' :
               Replaces(n, s.remote) \/ (Answered(n, "close_session")' /\ s.id = session_id),
           Answered(n, "start_session")' =>
               /\ a.session # session_id
               /\ [id |-> a.session, remote |-> known[n].remote] \in sessions',
           Answered(n, "close_session")' => \A s \in sessions' : s.id # session_id,
           \A s \in sessions' \ sessions : s.id # session_id
    PROVE  BatchInv'
  <1>1. /\ msgs' \in Seq(Answer) /\ Len(msgs') = n /\ n <= Len(known)
        /\ 1..n = 1..Len(msgs) \cup {n} /\ n \notin 1..Len(msgs)
        /\ \A k \in 1..Len(msgs) : msgs'[k] = msgs[k] /\ k + 1..n = k + 1..Len(msgs) \cup {n}
        /\ msgs'[n] = a
    BY OneMoreAnswer DEF BatchInv
  <1>2. BatchTypes'
    BY <1>1 DEF BatchInv, BatchTypes
  <1>3. \A k \in 1..Len(msgs) : \A name : Answered(k, name)' <=> Answered(k, name)
    BY <1>1 DEF Answered
  <1>4. \A k, r : Replaces(k, r)' <=> Replaces(k, r)
    BY DEF Replaces
  <1>5. ASSUME NEW k \in 1..Len(msgs)
        PROVE  StartedOK(k, n)' /\ ClosedOK(k)'
    <2>1. StartedOK(k, Len(msgs)) /\ ClosedOK(k)
      BY DEF BatchInv
    <2>2. ClosedOK(k)'
      BY <1>3, <2>1 DEF ClosedOK
    <2>3. ASSUME Answered(k, "start_session")'
          PROVE  /\ msgs'[k].session # session_id
                 /\ \/ [id |-> msgs'[k].session, remote |-> known[k].remote] \in sessions'
                    \/ msgs'[k].session \in expired
                    \/ \E j \in k + 1..n : Replaces(j, known[k].remote)
      <3> DEFINE s == [id |-> msgs[k].session, remote |-> known[k].remote]
      <3>1. /\ msgs[k].session # session_id /\ msgs'[k] = msgs[k]
            /\ \/ s \in sessions
               \/ msgs[k].session \in expired
               \/ \E j \in k + 1..Len(msgs) : Replaces(j, known[k].remote)
        BY <1>1, <1>3, <2>1, <2>3 DEF StartedOK
      <3>2. s.id = msgs[k].session /\ s.remote = known[k].remote
        OBVIOUS
      <3>3. s \in sessions \ sessions' => Replaces(n, known[k].remote)
        BY <3>1, <3>2
      <3>4. n \in k + 1..n /\ k + 1..Len(msgs) \subseteq k + 1..n
        BY <1>1
      <3> QED BY <3>1, <3>3, <3>4
    <2> QED BY <2>2, <2>3 DEF StartedOK, Replaces
  <1>6. StartedOK(n, n)' /\ ClosedOK(n)'
    BY <1>1 DEF StartedOK, ClosedOK
  <1>7. GoneOK(n)'
    <2> SUFFICES ASSUME NEW s \in before \ sessions', s.id \notin expired
                 PROVE  \E k \in 1..n : \/ Replaces(k, s.remote)
                                        \/ Answered(k, "close_session")' /\ s.id = session_id
      BY <1>4 DEF GoneOK, Replaces
    <2>1. CASE s \in sessions
      BY <1>1, <2>1
    <2>2. CASE s \notin sessions
      <3>1. PICK k \in 1..Len(msgs) : \/ Replaces(k, s.remote)
                                      \/ Answered(k, "close_session") /\ s.id = session_id
        BY <2>2 DEF BatchInv, GoneOK
      <3> QED BY <1>1, <1>3, <3>1
    <2> QED BY <2>1, <2>2
  <1> QED BY <1>1, <1>2, <1>5, <1>6, <1>7 DEF BatchInv

(* An action that leaves the cache alone.                                  *)
LEMMA OnlyAnsweredInv ==
    ASSUME BatchInv, Len(msgs) < Len(known), NEW a \in Answer, msgs' = Append(msgs, a),
           UNCHANGED <<sessions, given, session_id, known, sess, before, expired>>,
           known[Len(msgs) + 1].name = "get_cdcm_info" \/ a.code # "OK"
    PROVE  BatchInv'
  <1>0. PICK n : n = Len(msgs) + 1
    OBVIOUS
  <1>1. msgs'[n] = a
    BY <1>0, OneMoreAnswer DEF BatchInv
  <1>2. ~Answered(n, "start_session")' /\ ~Answered(n, "close_session")'
    BY <1>0, <1>1 DEF Answered
  <1>3. /\ sessions' \subseteq session /\ given \subseteq given' /\ given' \subseteq Id
        /\ \A s \in sessions' : s.id \in given'
        /\ sessions \ sessions' = {} /\ sessions' \ sessions = {}
    BY DEF BatchInv, BatchTypes
  <1>4. OnePerRemoteOK'
    BY DEF BatchInv, OnePerRemoteOK
  <1> QED BY <1>2, <1>3, <1>4, AnsweredInv, <1>0

LEMMA StartSessionInv ==
    ASSUME BatchInv, Len(msgs) < Len(known), NEW a, a = known[Len(msgs) + 1],
           a.name = "start_session", start_session(a),
           UNCHANGED <<session_id, known, sess, before, expired>>
    PROVE  BatchInv'
  <1>0. PICK n : n = Len(msgs) + 1
    OBVIOUS
  <1>1. /\ a \in Action /\ a.remote \in Remote
        /\ OfOthers(a.remote) \subseteq sessions
        /\ \A s \in sessions \ OfOthers(a.remote) : s.remote = a.remote
        /\ \A s \in OfOthers(a.remote) : s.remote # a.remote
    <2>1. n \in 1..Len(known) /\ known \in Seq(Action)
      BY <1>0 DEF BatchInv, BatchTypes
    <2>2. a \in Action
      BY <1>0, <2>1
    <2> QED BY <2>2, ActionAssumption DEF OfOthers
  <1>2. a.complete => \A s \in sessions \ OfOthers(a.remote) : Replaces(n, s.remote)
    BY <1>0, <1>1 DEF Replaces
  <1>3. n \in Nat /\ \A b \in Answer : msgs' = Append(msgs, b) => msgs'[n] = b
    BY <1>0, OneMoreAnswer DEF BatchInv, BatchTypes
  <1>4. CASE Answers("REMOTE_AND_USERNAME_ARE_MANDATORY", NoSession) /\ UNCHANGED <<sessions, given>>
    BY <1>4, OnlyAnsweredInv DEF Answers, Answer, Code
  <1>5. ASSUME a.complete, sessions' = OfOthers(a.remote), UNCHANGED given,
               Answers("FAILED_ADDING_NEW_SESSION", NoSession)
        PROVE  BatchInv'
    <2> DEFINE b == [code |-> "FAILED_ADDING_NEW_SESSION", session |-> NoSession]
    <2>1. b \in Answer /\ msgs' = Append(msgs, b)
      BY <1>5 DEF Answers, Answer, Code
    <2>2. ~Answered(n, "start_session")' /\ ~Answered(n, "close_session")'
      BY <1>0, <1>3, <2>1 DEF Answered
    <2>3. /\ sessions' \subseteq session /\ given \subseteq given' /\ given' \subseteq Id
          /\ \A s \in sessions' : s.id \in given'
          /\ sessions' \ sessions = {}
      BY <1>1, <1>5 DEF BatchInv, BatchTypes
    <2>4. OnePerRemoteOK'
      BY <1>1, <1>5 DEF BatchInv, OnePerRemoteOK
    <2> QED BY <1>2, <1>5, <2>1, <2>2, <2>3, <2>4, AnsweredInv, <1>0
  <1>6. ASSUME a.complete, NEW new \in Id \ given, given' = given \cup {new},
               sessions' = OfOthers(a.remote) \cup {[id |-> new, remote |-> a.remote]},
               Answers("OK", new)
        PROVE  BatchInv'
    <2> DEFINE b == [code |-> "OK", session |-> new]
               s0 == [id |-> new, remote |-> a.remote]
    <2>1. b \in Answer /\ msgs' = Append(msgs, b) /\ b.session = new
      BY <1>6 DEF Answers, Answer, Code
    <2>2. s0 \in session /\ s0.id = new /\ s0.remote = a.remote
      BY <1>1 DEF session
    <2>3. new # session_id
      BY NoSessionAssumption DEF BatchInv, BatchTypes
    <2>4. /\ sessions' \subseteq session /\ given \subseteq given' /\ given' \subseteq Id
          /\ \A s \in sessions' : s.id \in given'
          /\ \A s \in sessions' \ sessions : s.id # session_id
          /\ s0 \in sessions'
      BY <1>1, <1>6, <2>2, <2>3 DEF BatchInv, BatchTypes
    <2>5. OnePerRemoteOK'
      BY <1>1, <1>6, <2>2 DEF BatchInv, OnePerRemoteOK
    <2>6. ~Answered(n, "close_session")'
      BY <1>0 DEF Answered
    <2>7. \A s \in sessions \ sessions' : Replaces(n, s.remote)
      BY <1>2, <1>6
    <2>8. [id |-> b.session, remote |-> known[n].remote] \in sessions'
      BY <1>0, <2>1, <2>4
    <2> HIDE DEF b, s0
    <2> QED BY <2>1, <2>3, <2>4, <2>5, <2>6, <2>7, <2>8, AnsweredInv, <1>0
  <1> QED BY <1>4, <1>5, <1>6 DEF start_session

LEMMA CloseSessionInv ==
    ASSUME BatchInv, Len(msgs) < Len(known),
           known[Len(msgs) + 1].name = "close_session", close_session,
           UNCHANGED <<session_id, known, sess, before, expired>>
    PROVE  BatchInv'
  <1>0. PICK n : n = Len(msgs) + 1
    OBVIOUS
  <1>1. CASE Answers("SESSION_NOT_FOUND", NoSession) /\ UNCHANGED sessions
    BY <1>1, OnlyAnsweredInv DEF close_session, Answers, Answer, Code
  <1>2. CASE sess # NoSession /\ sessions' = {s \in sessions : s.id # sess} /\ Answers("OK", NoSession)
    <2> DEFINE b == [code |-> "OK", session |-> NoSession]
    <2>1. /\ b \in Answer /\ msgs' = Append(msgs, b) /\ b.code = "OK"
      BY <1>2 DEF Answers, Answer, Code
    <2>2. msgs'[n] = b
      BY <1>0, <2>1, OneMoreAnswer DEF BatchInv
    <2>3. Answered(n, "close_session")' /\ ~Answered(n, "start_session")'
      BY <1>0, <2>1, <2>2 DEF Answered
    <2>4. sess = session_id /\ given' = given
      BY <1>2 DEF BatchInv, BatchTypes, close_session
    <2>5. /\ sessions' \subseteq session /\ given \subseteq given' /\ given' \subseteq Id
          /\ \A s \in sessions' : s.id \in given' /\ s.id # session_id
          /\ \A s \in sessions \ sessions' : s.id = session_id
          /\ sessions' \ sessions = {}
      BY <1>2, <2>4 DEF BatchInv, BatchTypes
    <2>6. OnePerRemoteOK'
      BY <1>2 DEF BatchInv, OnePerRemoteOK
    <2> HIDE DEF b
    <2> QED BY <2>1, <2>3, <2>5, <2>6, AnsweredInv, <1>0
  <1> QED BY <1>1, <1>2 DEF close_session

LEMMA DoActInv ==
    ASSUME BatchInv, do_act
    PROVE  BatchInv'
  <1>1. /\ Len(msgs) < Len(known)
        /\ UNCHANGED <<session_id, known, sess, before, expired>>
    BY DEF do_act
  <1>2. CASE known[Len(msgs) + 1].name = "get_cdcm_info" /\ get_cdcm_info(known[Len(msgs) + 1])
    <2>1. PICK a \in Answer : msgs' = Append(msgs, a)
      BY <1>2 DEF get_cdcm_info, Answers, Answer, Code
    <2> QED BY <1>1, <1>2, <2>1, OnlyAnsweredInv DEF get_cdcm_info
  <1> QED BY <1>1, <1>2, StartSessionInv, CloseSessionInv DEF do_act

LEMMA ExpiresInv ==
    ASSUME BatchInv, NEW s \in sessions, Expires(s)
    PROVE  BatchInv'
  <1>1. /\ sessions' = sessions \ {s} /\ expired' = expired \cup {s.id}
        /\ UNCHANGED <<given, session_id, known, sess, msgs, before>>
    BY DEF Expires
  <1>2. BatchTypes' /\ OnePerRemoteOK'
    BY <1>1 DEF BatchInv, BatchTypes, OnePerRemoteOK
  <1>3. /\ \A k, name : Answered(k, name)' <=> Answered(k, name)
        /\ \A k, r : Replaces(k, r)' <=> Replaces(k, r)
    BY <1>1 DEF Answered, Replaces
  <1>4. ASSUME NEW k \in 1..Len(msgs)
        PROVE  StartedOK(k, Len(msgs))' /\ ClosedOK(k)'
    <2>1. StartedOK(k, Len(msgs)) /\ ClosedOK(k)
      BY DEF BatchInv
    <2>2. ClosedOK(k)'
      BY <1>1, <1>3, <2>1 DEF ClosedOK
    <2>3. s = [id |-> msgs[k].session, remote |-> known[k].remote] => msgs[k].session \in expired'
      BY <1>1
    <2>4. StartedOK(k, Len(msgs))'
      BY <1>1, <1>3, <2>1, <2>3 DEF StartedOK
    <2> QED BY <2>2, <2>4
  <1>5. GoneOK(Len(msgs))'
    BY <1>1, <1>3 DEF BatchInv, GoneOK
  <1>6. \A t \in sessions' : t.id \in given'
    BY <1>1 DEF BatchInv
  <1> QED BY <1>1, <1>2, <1>4, <1>5, <1>6 DEF BatchInv

(* Parsing: what is known only becomes more.                               *)
LEMMA ParseInv ==
    ASSUME BatchInv, NEW a \in Action, Parse(a)
    PROVE  BatchInv'
  <1>1. UNCHANGED <<sessions, given, session_id, sess, msgs, before, expired>>
    BY DEF Parse
  <1>2. /\ known' \in Seq(Action) /\ Len(msgs) <= Len(known')
        /\ \A k \in 1..Len(msgs) : known'[k] = known[k]
    <2>1. known \in Seq(Action) /\ Len(msgs) <= Len(known) /\ Len(msgs) \in Nat /\ Len(known) \in Nat
      BY DEF BatchInv, BatchTypes
    <2>2. CASE known' = Append(known, a)
      <3>1. /\ known' \in Seq(Action) /\ Len(known') = Len(known) + 1
            /\ \A k \in 1..Len(known) : known'[k] = known[k]
        BY <2>1, <2>2, AppendProperties
      <3> QED BY <2>1, <3>1
    <2>3. CASE UNCHANGED known
      BY <2>1, <2>3
    <2> QED BY <2>2, <2>3 DEF Parse
  <1>3. BatchTypes'
    BY <1>1, <1>2 DEF BatchInv, BatchTypes
  <1>4. \A k \in 1..Len(msgs) : /\ \A name : Answered(k, name)' <=> Answered(k, name)
                                /\ \A r : Replaces(k, r)' <=> Replaces(k, r)
    BY <1>1, <1>2 DEF Answered, Replaces
  <1>5. Len(msgs) \in Nat
    BY DEF BatchInv, BatchTypes
  <1>6. \A k \in 1..Len(msgs) : StartedOK(k, Len(msgs))' /\ ClosedOK(k)'
    <2> TAKE k \in 1..Len(msgs)
    <2>1. StartedOK(k, Len(msgs)) /\ ClosedOK(k) /\ k + 1..Len(msgs) \subseteq 1..Len(msgs)
      BY <1>5 DEF BatchInv
    <2>2. ClosedOK(k)'
      BY <1>1, <1>4, <2>1 DEF ClosedOK
    <2>3. StartedOK(k, Len(msgs))'
      BY <1>1, <1>2, <1>4, <2>1 DEF StartedOK
    <2> QED BY <2>2, <2>3
  <1>7. GoneOK(Len(msgs))'
    BY <1>1, <1>4 DEF BatchInv, GoneOK
  <1>8. OnePerRemoteOK' /\ \A s \in sessions' : s.id \in given'
    BY <1>1 DEF BatchInv, OnePerRemoteOK
  <1> QED BY <1>1, <1>3, <1>6, <1>7, <1>8 DEF BatchInv

LEMMA ReceivesInv ==
    ASSUME BatchInv, NEW id \in given \cup {NoSession}, Receives(id)
    PROVE  BatchInv'
  <1>1. /\ UNCHANGED <<sessions, given>> /\ session_id' = id /\ sess' = NoSession
        /\ known' = <<>> /\ msgs' = <<>> /\ before' = sessions
    BY DEF Receives
  <1>2. BatchTypes' /\ 1..Len(msgs') = {}
    BY <1>1 DEF BatchInv, BatchTypes
  <1>3. OnePerRemoteOK' /\ (\A s \in sessions' : s.id \in given') /\ before' \ sessions' = {}
    BY <1>1 DEF BatchInv, OnePerRemoteOK
  <1> QED BY <1>1, <1>2, <1>3 DEF BatchInv, GoneOK

LEMMA SameAnswersInv ==
    ASSUME BatchInv, sess' \in {NoSession, session_id},
           UNCHANGED <<sessions, given, session_id, known, msgs, before, expired>>
    PROVE  BatchInv'
  <1>1. BatchTypes' /\ OnePerRemoteOK' /\ \A s \in sessions' : s.id \in given'
    BY DEF BatchInv, BatchTypes, OnePerRemoteOK
  <1>2. /\ \A k, name : Answered(k, name)' <=> Answered(k, name)
        /\ \A k, r : Replaces(k, r)' <=> Replaces(k, r)
    BY DEF Answered, Replaces
  <1>3. \A k \in 1..Len(msgs) : StartedOK(k, Len(msgs))' /\ ClosedOK(k)'
    BY <1>2 DEF BatchInv, StartedOK, ClosedOK
  <1>4. GoneOK(Len(msgs))'
    BY <1>2 DEF BatchInv, GoneOK
  <1> QED BY <1>1, <1>3, <1>4 DEF BatchInv

LEMMA BatchInvariance == BatchSpec => []BatchInv
  <1>1. ASSUME BatchInit PROVE BatchInv
    <2>1. BatchTypes /\ 1..Len(msgs) = {} /\ sessions = {} /\ before = {}
      BY <1>1 DEF BatchInit, BatchTypes
    <2> QED BY <2>1 DEF BatchInv, OnePerRemoteOK, GoneOK
  <1>2. BatchInv /\ [BatchNext]_batchVars => BatchInv'
    <2> SUFFICES ASSUME BatchInv, [BatchNext]_batchVars PROVE BatchInv'
      OBVIOUS
    <2>1. CASE GetSession
      BY <2>1, SameAnswersInv DEF GetSession
    <2>2. CASE Ends \/ UNCHANGED batchVars
      <3>1. sess' \in {NoSession, session_id}
        BY <2>2 DEF BatchInv, BatchTypes, Ends, batchVars
      <3> QED BY <2>2, <3>1, SameAnswersInv DEF Ends, batchVars
    <2> QED BY <2>1, <2>2, ReceivesInv, ParseInv, DoActInv, ExpiresInv DEF BatchNext
  <1> QED BY <1>1, <1>2, PTL DEF BatchSpec

(* client_process, do_act: while the actions of a message are run one      *)
(* after the other and sessions expire, the cache never contradicts what   *)
(* has been answered.                                                      *)
THEOREM AnswersAgreeWithTheCache == BatchSpec => []AnswersTellTheCache
  <1>1. BatchInv => AnswersTellTheCache
    BY DEF BatchInv, AnswersTellTheCache, StartedOK, ClosedOK, GoneOK, OnePerRemoteOK
  <1> QED BY <1>1, BatchInvariance, PTL

-----------------------------------------------------------------------------
(* Identities as text.                                                     *)

Bytes == 0..255
NoZero == Nat \ {0}

LEMMA HexDigits ==
    ASSUME NEW v \in 0..15
    PROVE  /\ hex_char(v) \in 48..57 \cup 65..70
           /\ hex_to_bin(hex_char(v)) = v
  <1>1. CASE v < 10
    <2>1. hex_char(v) = 48 + v /\ 48 + v \in 48..57
      BY <1>1 DEF hex_char
    <2>2. \A c \in 48..57 : hex_to_bin(c) = c - 48
      BY DEF hex_to_bin
    <2> QED BY <2>1, <2>2
  <1>2. CASE ~(v < 10)
    <2>1. hex_char(v) = 55 + v /\ 55 + v \in 65..70
      BY <1>2 DEF hex_char
    <2>2. \A c \in 65..70 : hex_to_bin(c) = c - 55
      BY DEF hex_to_bin
    <2> QED BY <2>1, <2>2
  <1> QED BY <1>1, <1>2

LEMMA Halves ==
    ASSUME NEW v \in Bytes
    PROVE  /\ v \div 16 \in 0..15 /\ v % 16 \in 0..15
           /\ ((v \div 16) * 16 + (v % 16)) % 256 = v
  BY DEF Bytes

(* A frame with one more element in front.                                 *)
InFrontOf(x, s) == <<x>> \o s

LEMMA InFront ==
    ASSUME NEW S, NEW x \in S, NEW s \in Seq(S)
    PROVE  /\ InFrontOf(x, s) \in Seq(S) /\ Len(InFrontOf(x, s)) = Len(s) + 1
           /\ InFrontOf(x, s)[1] = x
           /\ \A k \in 1..Len(s) : InFrontOf(x, s)[k + 1] = s[k]
  <1>1. <<x>> \in Seq(S) /\ Len(<<x>>) = 1 /\ <<x>>[1] = x
    OBVIOUS
  <1>2. Len(s) \in Nat
    OBVIOUS
  <1>3. /\ <<x>> \o s \in Seq(S) /\ Len(<<x>> \o s) = 1 + Len(s)
        /\ \A i \in 1..Len(<<x>>) + Len(s) :
              (<<x>> \o s)[i] = IF i <= Len(<<x>>) THEN <<x>>[i] ELSE s[i - Len(<<x>>)]
    BY <1>1, ConcatProperties
  <1>4. ASSUME NEW k \in 1..Len(s)
        PROVE  (<<x>> \o s)[k + 1] = s[k]
    <2>1. k + 1 \in 1..1 + Len(s) /\ ~(k + 1 <= 1) /\ (k + 1) - 1 = k
      BY <1>2
    <2> QED BY <1>1, <1>3, <2>1
  <1>5. 1 \in 1..1 + Len(s)
    BY <1>2
  <1>6. (<<x>> \o s)[1] = x
    BY <1>1, <1>3, <1>5
  <1> QED BY <1>2, <1>3, <1>4, <1>6 DEF InFrontOf

LEMMA IsInFront ==
    ASSUME NEW S, NEW x \in S, NEW s \in Seq(S), NEW t \in Seq(S),
           Len(t) = Len(s) + 1, t[1] = x, \A k \in 1..Len(s) : t[k + 1] = s[k]
    PROVE  t = InFrontOf(x, s)
  <1> DEFINE f == InFrontOf(x, s)
  <1>1. /\ f \in Seq(S) /\ Len(f) = Len(s) + 1 /\ f[1] = x
        /\ \A k \in 1..Len(s) : f[k + 1] = s[k]
    BY InFront
  <1> HIDE DEF f
  <1>2. Len(s) \in Nat
    BY LenProperties
  <1>3. \A k \in 1..Len(s) + 1 : k = 1 \/ (k - 1 \in 1..Len(s) /\ (k - 1) + 1 = k)
    BY <1>2
  <1>4. \A k \in 1..Len(s) + 1 : f[k] = t[k]
    <2>1. \A k \in 1..Len(s) : f[k + 1] = t[k + 1]
      BY <1>1
    <2> QED BY <1>1, <1>3, <2>1
  <1>5. f = t
    BY <1>1, <1>4, SeqEqual
  <1> QED BY <1>5 DEF f

(* The text that recv puts for the identity of a ROUTER socket has no zero *)
(* in it, so that C strings keep it, and send gives the identity back, for *)
(* every 16 bytes that follow its zero.                                    *)
THEOREM IdentityComesBack ==
    ASSUME NEW d \in Seq(Bytes), Len(d) = uuid_str_len, d[1] = 0
    PROVE  /\ encode_uuid(d) \in Seq(NoZero) /\ Len(encode_uuid(d)) = 33
           /\ encode_uuid(d)[1] = At
           /\ decode_uuid(encode_uuid(d)) = d
  <1> DEFINE digit(k) == IF k % 2 = 1 THEN d[(k \div 2) + 2] \div 16 ELSE d[(k \div 2) + 1] % 16
             digits == [k \in 1..32 |-> hex_char(digit(k))]
             e == encode_uuid(d)
  <1>1. \A b \in 1..17 : d[b] \in Bytes
    <2>1. Len(d) = 17
      BY DEF uuid_str_len
    <2> QED BY <2>1, ElementOfSeq
  <1>2. \A k \in 1..32 : digit(k) \in 0..15
    <2> SUFFICES ASSUME NEW k \in 1..32 PROVE digit(k) \in 0..15
      OBVIOUS
    <2>1. CASE k % 2 = 1
      <3>1. (k \div 2) + 2 \in 1..17
        BY <2>1
      <3> QED BY <1>1, <2>1, <3>1, Halves
    <2>2. CASE k % 2 # 1
      <3>1. (k \div 2) + 1 \in 1..17
        BY <2>2
      <3> QED BY <1>1, <2>2, <3>1, Halves, SMTT(60)
    <2> QED BY <2>1, <2>2
  <1>3. \A b \in 1..16 : /\ digit(2 * b - 1) = d[b + 1] \div 16
                         /\ digit(2 * b) = d[b + 1] % 16
    <2> SUFFICES ASSUME NEW b \in 1..16
                 PROVE  digit(2 * b - 1) = d[b + 1] \div 16 /\ digit(2 * b) = d[b + 1] % 16
      OBVIOUS
    <2>1. (2 * b - 1) % 2 = 1 /\ (2 * b - 1) \div 2 = b - 1 /\ (2 * b) % 2 = 0 /\ (2 * b) \div 2 = b
      OBVIOUS
    <2>2. b - 1 + 2 = b + 1
      OBVIOUS
    <2> QED BY <2>1, <2>2
  <1> HIDE DEF digit
  <1>4. \A k \in 1..32 : hex_char(digit(k)) \in NoZero
    <2>1. 48..57 \cup 65..70 \subseteq NoZero
      BY DEF NoZero
    <2>2. \A k \in 1..32 : hex_char(digit(k)) \in 48..57 \cup 65..70
      BY <1>2, HexDigits
    <2> QED BY <2>1, <2>2
  <1>5. digits \in Seq(NoZero) /\ Len(digits) = 32 /\ \A k \in 1..32 : digits[k] = hex_char(digit(k))
    BY <1>4
  <1> HIDE DEF digits
  <1>6. e = InFrontOf(At, digits)
    BY DEF encode_uuid, digits, digit, InFrontOf
  <1> HIDE DEF e
  <1>7. At \in NoZero
    BY DEF At, NoZero
  <1>8. /\ e \in Seq(NoZero) /\ Len(e) = 33 /\ e[1] = At
        /\ \A k \in 1..32 : e[k + 1] = hex_char(digit(k))
    <2>1. /\ e \in Seq(NoZero) /\ Len(e) = Len(digits) + 1 /\ e[1] = At
          /\ \A k \in 1..Len(digits) : e[k + 1] = digits[k]
      <3>1. digits \in Seq(NoZero)
        BY <1>5
      <3> DEFINE f == InFrontOf(At, digits)
      <3>2. /\ f \in Seq(NoZero) /\ Len(f) = Len(digits) + 1 /\ f[1] = At
            /\ \A k \in 1..Len(digits) : f[k + 1] = digits[k]
        BY <3>1, <1>7, InFront
      <3> HIDE DEF f
      <3>3. e = f
        BY <1>6 DEF f
      <3> QED BY <3>2, <3>3
    <2>2. 32 + 1 = 33
      OBVIOUS
    <2> QED BY <1>5, <2>1, <2>2
  <1>9. \A b \in 1..16 : (hex_to_bin(e[2 * b]) * 16 + hex_to_bin(e[(2 * b) + 1])) % 256 = d[b + 1]
    <2> SUFFICES ASSUME NEW b \in 1..16
                 PROVE  (hex_to_bin(e[2 * b]) * 16 + hex_to_bin(e[(2 * b) + 1])) % 256 = d[b + 1]
      OBVIOUS
    <2>1. /\ 2 * b - 1 \in 1..32 /\ 2 * b \in 1..32 /\ (2 * b - 1) + 1 = 2 * b
          /\ b + 1 \in 1..17
      OBVIOUS
    <2>2. e[2 * b] = hex_char(digit(2 * b - 1)) /\ e[2 * b + 1] = hex_char(digit(2 * b))
      BY <1>8, <2>1
    <2>3. hex_to_bin(e[2 * b]) = digit(2 * b - 1) /\ hex_to_bin(e[2 * b + 1]) = digit(2 * b)
      BY <1>2, <2>1, <2>2, HexDigits
    <2>4. /\ hex_to_bin(e[2 * b]) = d[b + 1] \div 16
          /\ hex_to_bin(e[2 * b + 1]) = d[b + 1] % 16
      BY <1>3, <2>3
    <2> QED BY <1>1, <2>1, <2>4, Halves, SMTT(60)
  <1>10. decode_uuid(e) = <<0>> \o [b \in 1..16 |-> d[b + 1]]
    BY <1>9 DEF decode_uuid
  <1>11. <<0>> \o [b \in 1..16 |-> d[b + 1]] = d
    <2> DEFINE rest == [b \in 1..16 |-> d[b + 1]]
    <2>1. rest \in Seq(Bytes) /\ Len(rest) = 16 /\ \A b \in 1..16 : rest[b] = d[b + 1]
      BY <1>1
    <2>2. 0 \in Bytes
      BY DEF Bytes
    <2> HIDE DEF rest
    <2>3. /\ InFrontOf(0, rest) \in Seq(Bytes) /\ Len(InFrontOf(0, rest)) = Len(rest) + 1
          /\ InFrontOf(0, rest)[1] = 0
          /\ \A b \in 1..Len(rest) : InFrontOf(0, rest)[b + 1] = rest[b]
      <3>1. rest \in Seq(Bytes)
        BY <2>1
      <3> QED BY <3>1, <2>2, InFront
    <2>4. \A k \in 1..17 : InFrontOf(0, rest)[k] = d[k]
      <3>1. \A b \in 1..16 : InFrontOf(0, rest)[b + 1] = d[b + 1]
        BY <2>1, <2>3
      <3>2. \A k \in 1..17 : k = 1 \/ (k - 1 \in 1..16 /\ (k - 1) + 1 = k)
        OBVIOUS
      <3> QED BY <2>3, <3>1, <3>2
    <2>5. Len(InFrontOf(0, rest)) = 17 /\ Len(d) = 17
      BY <2>1, <2>3 DEF uuid_str_len
    <2>6. InFrontOf(0, rest) = d
      BY <2>3, <2>4, <2>5, SeqEqual
    <2> QED BY <2>6 DEF rest, InFrontOf
  <1> QED BY <1>8, <1>10, <1>11 DEF e

-----------------------------------------------------------------------------
(* Frames through the sockets and in C strings.                            *)

Frame == Seq(Bytes)
Message == Seq(Frame)

(* What recv and send make of one frame.                                   *)
In(f) == IF Len(f) = uuid_str_len /\ f[1] = 0 THEN encode_uuid(f) ELSE f
Out(f) == IF Len(f) = 33 /\ f[1] = At THEN decode_uuid(f) ELSE f

(* A frame that is the same everywhere on its way.                         *)
Plain(f) == f \in Frame /\ (\A k \in DOMAIN f : f[k] # 0) /\ ~(Len(f) = 33 /\ f[1] = At)

LEMMA TextOfFrame ==
    ASSUME NEW f, \A k \in DOMAIN f : f[k] # 0
    PROVE  c_str(f) = f
  BY DEF c_str

LEMMA PlainStays ==
    ASSUME NEW f, Plain(f)
    PROVE  f \in Frame /\ c_str(f) = f /\ In(f) = f /\ Out(f) = f
  <1>1. f \in Frame /\ \A k \in DOMAIN f : f[k] # 0
    BY DEF Plain
  <1>2. c_str(f) = f
    BY <1>1, TextOfFrame
  <1>3. ~(Len(f) = uuid_str_len /\ f[1] = 0)
    <2> SUFFICES ASSUME Len(f) = 17 PROVE f[1] # 0
      BY DEF uuid_str_len
    <2>1. 1 \in DOMAIN f
      BY <1>1, LenProperties DEF Frame
    <2> QED BY <1>1, <2>1
  <1> QED BY <1>1, <1>2, <1>3 DEF In, Out, Plain

LEMMA EncodedIsFrame ==
    ASSUME NEW d \in Frame, Len(d) = uuid_str_len
    PROVE  encode_uuid(d) \in Frame
  <1> DEFINE digit(k) == IF k % 2 = 1 THEN d[(k \div 2) + 2] \div 16 ELSE d[(k \div 2) + 1] % 16
             digits == [k \in 1..32 |-> hex_char(digit(k))]
  <1>1. \A b \in 1..17 : d[b] \in Bytes
    BY ElementOfSeq DEF Frame, uuid_str_len
  <1>2. \A k \in 1..32 : digit(k) \in 0..15
    <2> SUFFICES ASSUME NEW k \in 1..32 PROVE digit(k) \in 0..15
      OBVIOUS
    <2>1. CASE k % 2 = 1
      <3>1. (k \div 2) + 2 \in 1..17
        BY <2>1
      <3> QED BY <1>1, <2>1, <3>1, Halves
    <2>2. CASE k % 2 # 1
      <3>1. (k \div 2) + 1 \in 1..17
        BY <2>2
      <3> QED BY <1>1, <2>2, <3>1, Halves
    <2> QED BY <2>1, <2>2
  <1> HIDE DEF digit
  <1>3. 48..57 \cup 65..70 \subseteq Bytes /\ At \in Bytes
    BY DEF Bytes, At
  <1>4. \A k \in 1..32 : hex_char(digit(k)) \in Bytes
    BY <1>2, <1>3, HexDigits
  <1>5. digits \in Seq(Bytes)
    BY <1>4
  <1> HIDE DEF digits
  <1>6. encode_uuid(d) = InFrontOf(At, digits)
    BY DEF encode_uuid, digits, digit, InFrontOf
  <1>7. InFrontOf(At, digits) \in Seq(Bytes)
    BY <1>3, <1>5, InFront
  <1> QED BY <1>6, <1>7 DEF Frame

LEMMA DecodedIsFrame ==
    ASSUME NEW f
    PROVE  decode_uuid(f) \in Frame
  <1> DEFINE byte(b) == (hex_to_bin(f[2 * b]) * 16 + hex_to_bin(f[(2 * b) + 1])) % 256
             rest == [b \in 1..16 |-> byte(b)]
  <1>1. ASSUME NEW c PROVE hex_to_bin(c) \in Int
    <2>1. CASE c \in 48..57
      BY <2>1 DEF hex_to_bin
    <2>2. CASE c \in 65..70
      BY <2>2 DEF hex_to_bin
    <2>3. CASE c \in 97..102
      BY <2>3 DEF hex_to_bin
    <2>4. CASE c \notin 48..57 /\ c \notin 65..70 /\ c \notin 97..102
      BY <2>4 DEF hex_to_bin
    <2> QED BY <2>1, <2>2, <2>3, <2>4
  <1>2. ASSUME NEW b \in 1..16 PROVE byte(b) \in Bytes
    <2>1. /\ hex_to_bin(f[2 * b]) \in Int
          /\ hex_to_bin(f[(2 * b) + 1]) \in Int
      BY <1>1
    <2>2. \A v, w \in Int : (v * 16 + w) % 256 \in Bytes
      BY DEF Bytes
    <2> QED BY <2>1, <2>2
  <1> HIDE DEF byte
  <1>3. rest \in Seq(Bytes)
    BY <1>2
  <1> HIDE DEF rest
  <1>4. decode_uuid(f) = InFrontOf(0, rest)
    BY DEF decode_uuid, rest, byte, InFrontOf
  <1>5. InFrontOf(0, rest) \in Seq(Bytes)
    <2>1. 0 \in Bytes
      BY DEF Bytes
    <2> QED BY <1>3, <2>1, InFront
  <1> QED BY <1>4, <1>5 DEF Frame

LEMMA FramesStayFrames ==
    ASSUME NEW f \in Frame
    PROVE  In(f) \in Frame /\ Out(f) \in Frame
  BY EncodedIsFrame, DecodedIsFrame DEF In, Out

(* An identity goes out as it came in, and is told to nobody as empty.     *)
LEMMA IdentityIsCarried ==
    ASSUME NEW id \in Frame, ByClient(id) \/ ByRouter(id)
    PROVE  /\ In(id) \in Frame /\ In(id) # Empty /\ c_str(In(id)) = In(id)
           /\ In(In(id)) = In(id) /\ Out(In(id)) = id
  <1>1. CASE ByClient(id)
    <2>1. Plain(id)
      BY <1>1 DEF ByClient, Plain
    <2> QED BY <1>1, <2>1, PlainStays DEF ByClient
  <1>2. CASE ByRouter(id)
    <2> DEFINE t == encode_uuid(id)
    <2>1. Len(id) = uuid_str_len /\ id[1] = 0 /\ id \in Seq(Bytes)
      BY <1>2 DEF ByRouter, Frame
    <2>2. In(id) = t
      BY <2>1 DEF In
    <2>3. t \in Seq(NoZero) /\ Len(t) = 33 /\ t[1] = At /\ decode_uuid(t) = id
      BY <2>1, IdentityComesBack
    <2>4. t \in Frame
      BY <2>1, EncodedIsFrame
    <2> HIDE DEF t
    <2>5. \A k \in DOMAIN t : t[k] # 0
      <3>1. DOMAIN t = 1..Len(t)
        BY <2>3, LenProperties
      <3>2. \A k \in 1..Len(t) : t[k] \in NoZero
        BY <2>3, ElementOfSeq
      <3> QED BY <3>1, <3>2 DEF NoZero
    <2>6. c_str(t) = t
      BY <2>5, TextOfFrame
    <2>7. t # Empty /\ Len(t) # uuid_str_len
      <3>1. Len(<<>>) = 0 /\ 33 # 0 /\ 33 # 17
        OBVIOUS
      <3>2. t # <<>> /\ Len(t) # 17
        BY ONLY <2>3, <3>1, Zenon
      <3> QED BY <3>2 DEF Empty, uuid_str_len
    <2>8. In(t) = t /\ Out(t) = id
      BY <2>3, <2>7 DEF In, Out
    <2> QED BY <2>2, <2>4, <2>6, <2>7, <2>8
  <1> QED BY <1>1, <1>2

-----------------------------------------------------------------------------
(* Messages, frame by frame from the front.                                *)

LEMMA FramesInFront ==
    ASSUME NEW x \in Frame, NEW s \in Message
    PROVE  /\ InFrontOf(x, s) \in Message /\ InFrontOf(x, s) # <<>>
           /\ InFrontOf(x, s)[1] = x /\ Head(InFrontOf(x, s)) = x
           /\ Tail(InFrontOf(x, s)) = s
           /\ front(InFrontOf(x, s)) = x /\ pop_front(InFrontOf(x, s)) = s
  <1> DEFINE m == InFrontOf(x, s)
  <1>1. /\ m \in Seq(Frame) /\ Len(m) = Len(s) + 1 /\ m[1] = x
        /\ \A k \in 1..Len(s) : m[k + 1] = s[k]
    <2>1. x \in Frame /\ s \in Seq(Frame)
      BY DEF Message
    <2> QED BY <2>1, InFront
  <1> HIDE DEF m
  <1>2. Len(s) \in Nat
    BY LenProperties DEF Message
  <1>3. m # <<>>
    BY <1>1, <1>2
  <1>4. /\ Tail(m) \in Seq(Frame) /\ Len(Tail(m)) = Len(s)
        /\ \A k \in 1..Len(s) : Tail(m)[k] = m[k + 1]
    BY <1>1, <1>2, <1>3, HeadTailProperties
  <1>5. Tail(m) = s
    BY <1>1, <1>4, SeqEqual DEF Message
  <1>6. Head(m) = x
    BY <1>1, <1>3, HeadTailProperties
  <1>7. m \in Message /\ front(m) = x /\ pop_front(m) = s
    BY <1>1, <1>3, <1>5 DEF Message, front, pop_front
  <1> QED BY <1>1, <1>3, <1>5, <1>6, <1>7 DEF m

LEMMA ReceivedInFront ==
    ASSUME NEW x \in Frame, NEW s \in Message
    PROVE  /\ recv(s) \in Message /\ recv(InFrontOf(x, s)) = InFrontOf(In(x), recv(s))
           /\ send(s) \in Message /\ send(InFrontOf(x, s)) = InFrontOf(Out(x), send(s))
  <1> DEFINE m == InFrontOf(x, s)
             rs == [k \in 1..Len(s) |-> In(s[k])]
             ss == [k \in 1..Len(s) |-> Out(s[k])]
             rm == [k \in 1..Len(s) + 1 |-> In(m[k])]
             sm == [k \in 1..Len(s) + 1 |-> Out(m[k])]
  <1>1. x \in Frame /\ s \in Seq(Frame)
    BY DEF Message
  <1>2. /\ m \in Seq(Frame) /\ Len(m) = Len(s) + 1 /\ m[1] = x
        /\ \A k \in 1..Len(s) : m[k + 1] = s[k]
    BY <1>1, InFront
  <1> HIDE DEF m
  <1>3. Len(s) \in Nat /\ DOMAIN s = 1..Len(s) /\ DOMAIN m = 1..Len(s) + 1
    BY <1>1, <1>2, LenProperties
  <1>4. recv(s) = rs /\ send(s) = ss /\ recv(m) = rm /\ send(m) = sm
    BY <1>3 DEF recv, send, In, Out
  <1>5. /\ \A k \in 1..Len(s) : In(s[k]) \in Frame /\ Out(s[k]) \in Frame
        /\ \A k \in 1..Len(s) + 1 : In(m[k]) \in Frame /\ Out(m[k]) \in Frame
    <2>1. /\ \A k \in 1..Len(s) : s[k] \in Frame
          /\ \A k \in 1..Len(s) + 1 : m[k] \in Frame
      BY <1>1, <1>2, ElementOfSeq
    <2> QED BY <2>1, FramesStayFrames
  <1>6. /\ rs \in Seq(Frame) /\ Len(rs) = Len(s) /\ \A k \in 1..Len(s) : rs[k] = In(s[k])
        /\ ss \in Seq(Frame) /\ Len(ss) = Len(s) /\ \A k \in 1..Len(s) : ss[k] = Out(s[k])
    BY <1>3, <1>5
  <1>7. /\ rm \in Seq(Frame) /\ Len(rm) = Len(s) + 1 /\ \A k \in 1..Len(s) + 1 : rm[k] = In(m[k])
        /\ sm \in Seq(Frame) /\ Len(sm) = Len(s) + 1 /\ \A k \in 1..Len(s) + 1 : sm[k] = Out(m[k])
    BY <1>3, <1>5
  <1> HIDE DEF rs, ss, rm, sm
  <1>8. /\ \A k \in 1..Len(s) : k + 1 \in 1..Len(s) + 1
        /\ \A k \in 1..Len(s) + 1 : k = 1 \/ (k - 1 \in 1..Len(s) /\ (k - 1) + 1 = k)
        /\ 1 \in 1..Len(s) + 1
    BY <1>3
  <1>9. rm = InFrontOf(In(x), rs)
    <2>1. In(x) \in Frame
      BY FramesStayFrames
    <2>2. rm[1] = In(x)
      BY <1>2, <1>7, <1>8
    <2>3. \A k \in 1..Len(s) : rm[k + 1] = rs[k]
      <3>1. \A k \in 1..Len(s) : rm[k + 1] = In(m[k + 1])
        BY <1>7, <1>8
      <3> QED BY <1>2, <1>6, <3>1
    <2>4. rs \in Seq(Frame) /\ rm \in Seq(Frame) /\ Len(rm) = Len(rs) + 1 /\ Len(rs) = Len(s)
      BY <1>6, <1>7
    <2> QED BY <2>1, <2>2, <2>3, <2>4, IsInFront
  <1>10. sm = InFrontOf(Out(x), ss)
    <2>1. Out(x) \in Frame
      BY FramesStayFrames
    <2>2. sm[1] = Out(x)
      BY <1>2, <1>7, <1>8
    <2>3. \A k \in 1..Len(s) : sm[k + 1] = ss[k]
      <3>1. \A k \in 1..Len(s) : sm[k + 1] = Out(m[k + 1])
        BY <1>7, <1>8
      <3> QED BY <1>2, <1>6, <3>1
    <2>4. ss \in Seq(Frame) /\ sm \in Seq(Frame) /\ Len(sm) = Len(ss) + 1 /\ Len(ss) = Len(s)
      BY <1>6, <1>7
    <2> QED BY <2>1, <2>2, <2>3, <2>4, IsInFront
  <1> QED BY <1>4, <1>6, <1>9, <1>10 DEF m, Message

LEMMA NothingIsReceived ==
    <<>> \in Message /\ recv(<<>>) = <<>> /\ send(<<>>) = <<>>
  <1>1. <<>> \in Message
    BY DEF Message
  <1>2. DOMAIN <<>> = {}
    OBVIOUS
  <1>3. [k \in {} |-> In(<<>>[k])] = <<>> /\ [k \in {} |-> Out(<<>>[k])] = <<>>
    OBVIOUS
  <1> QED BY <1>1, <1>2, <1>3 DEF recv, send, In, Out

(* What the code does with frames of a message, in terms of its front.     *)
LEMMA OneFrame ==
    ASSUME NEW x \in Frame
    PROVE  /\ body(InFrontOf(x, <<>>)) = x
           /\ body_set(<<>>, x) = InFrontOf(c_str(x), <<>>)
           /\ <<x>> = InFrontOf(x, <<>>)
  <1>1. <<x>> = InFrontOf(x, <<>>)
    BY DEF InFrontOf
  <1>2. body(<<x>>) = x
    BY DEF body
  <1>3. body_set(<<>>, x) = InFrontOf(c_str(x), <<>>)
    <2>1. <<>> \o <<c_str(x)>> = <<c_str(x)>>
      OBVIOUS
    <2>2. <<c_str(x)>> \o <<>> = <<c_str(x)>>
      OBVIOUS
    <2> QED BY <2>1, <2>2 DEF body_set, InFrontOf
  <1> QED BY <1>1, <1>2, <1>3

LEMMA FourFrames ==
    ASSUME NEW x1 \in Frame, NEW x2 \in Frame, NEW x3 \in Frame, NEW x4 \in Frame
    PROVE  <<x1, x2, x3, x4>> = InFrontOf(x1, InFrontOf(x2, InFrontOf(x3, InFrontOf(x4, <<>>))))
  <1>1. InFrontOf(x4, <<>>) = <<x4>>
    BY DEF InFrontOf
  <1>2. InFrontOf(x3, <<x4>>) = <<x3, x4>>
    <2>1. /\ <<x3, x4>> \in Seq(Frame) /\ <<x4>> \in Seq(Frame)
          /\ Len(<<x3, x4>>) = 2 /\ Len(<<x4>>) = 1 /\ 1 + 1 = 2
      OBVIOUS
    <2>2. <<x3, x4>>[1] = x3 /\ <<x3, x4>>[2] = <<x4>>[1]
      OBVIOUS
    <2>3. \A k \in 1..1 : k = 1
      OBVIOUS
    <2>4. \A k \in 1..1 : <<x3, x4>>[k + 1] = <<x4>>[k]
      BY <2>2, <2>3
    <2> QED BY <2>1, <2>2, <2>4, IsInFront
  <1>3. InFrontOf(x2, <<x3, x4>>) = <<x2, x3, x4>>
    <2>1. /\ <<x2, x3, x4>> \in Seq(Frame) /\ <<x3, x4>> \in Seq(Frame)
          /\ Len(<<x2, x3, x4>>) = 3 /\ Len(<<x3, x4>>) = 2 /\ 2 + 1 = 3
      OBVIOUS
    <2>2. <<x2, x3, x4>>[1] = x2 /\ <<x2, x3, x4>>[2] = <<x3, x4>>[1] /\ <<x2, x3, x4>>[3] = <<x3, x4>>[2]
      OBVIOUS
    <2>3. \A k \in 1..2 : k = 1 \/ k = 2
      OBVIOUS
    <2>4. \A k \in 1..2 : <<x2, x3, x4>>[k + 1] = <<x3, x4>>[k]
      BY <2>2, <2>3
    <2> QED BY <2>1, <2>2, <2>4, IsInFront
  <1>4. InFrontOf(x1, <<x2, x3, x4>>) = <<x1, x2, x3, x4>>
    <2>1. /\ <<x1, x2, x3, x4>> \in Seq(Frame) /\ <<x2, x3, x4>> \in Seq(Frame)
          /\ Len(<<x1, x2, x3, x4>>) = 4 /\ Len(<<x2, x3, x4>>) = 3 /\ 3 + 1 = 4
      OBVIOUS
    <2>2. <<x1, x2, x3, x4>>[1] = x1 /\ <<x1, x2, x3, x4>>[2] = <<x2, x3, x4>>[1] /\ <<x1, x2, x3, x4>>[3] = <<x2, x3, x4>>[2] /\ <<x1, x2, x3, x4>>[4] = <<x2, x3, x4>>[3]
      OBVIOUS
    <2>3. \A k \in 1..3 : k = 1 \/ k = 2 \/ k = 3
      OBVIOUS
    <2>4. \A k \in 1..3 : <<x1, x2, x3, x4>>[k + 1] = <<x2, x3, x4>>[k]
      BY <2>2, <2>3
    <2> QED BY <2>1, <2>2, <2>4, IsInFront
  <1> QED BY <1>1, <1>2, <1>3, <1>4

LEMMA FrameInFront ==
    ASSUME NEW x \in Frame, NEW m \in Seq(Frame)
    PROVE  /\ InFrontOf(x, m) \in Seq(Frame) /\ Len(InFrontOf(x, m)) = Len(m) + 1
           /\ InFrontOf(x, m)[1] = x
           /\ \A k \in 1..Len(m) : InFrontOf(x, m)[k + 1] = m[k]
  <1>1. InFrontOf(x, m) \in Seq(Frame)
    BY ONLY x \in Frame, m \in Seq(Frame), InFront
  <1>2. Len(InFrontOf(x, m)) = Len(m) + 1
    BY ONLY x \in Frame, m \in Seq(Frame), InFront
  <1>3. \A k \in 1..Len(m) : InFrontOf(x, m)[k + 1] = m[k]
    BY ONLY x \in Frame, m \in Seq(Frame), InFront
  <1>4. InFrontOf(x, m)[1] = x
    BY ONLY x \in Frame, m \in Seq(Frame), InFront
  <1> QED BY ONLY <1>1, <1>2, <1>3, <1>4

Third(m) == m[3]
Behind(m) == SubSeq(m, 4, Len(m))

LEMMA BehindThree ==
    ASSUME NEW x1 \in Frame, NEW x2 \in Frame, NEW x3 \in Frame, NEW s \in Message
    PROVE  /\ Third(InFrontOf(x1, InFrontOf(x2, InFrontOf(x3, s)))) = x3
           /\ Behind(InFrontOf(x1, InFrontOf(x2, InFrontOf(x3, s)))) = s
  <1> DEFINE m3 == InFrontOf(x3, s)
             m2 == InFrontOf(x2, m3)
             m1 == InFrontOf(x1, m2)
             rest == SubSeq(m1, 4, Len(m1))
  <1>1. s \in Seq(Frame) /\ Len(s) \in Nat
    BY LenProperties DEF Message
  <1>2. /\ m3 \in Seq(Frame) /\ Len(m3) = Len(s) + 1 /\ m3[1] = x3
        /\ \A k \in 1..Len(s) : m3[k + 1] = s[k]
    BY <1>1, FrameInFront
  <1> HIDE DEF m3
  <1>3. /\ m2 \in Seq(Frame) /\ Len(m2) = Len(m3) + 1
        /\ \A k \in 1..Len(m3) : m2[k + 1] = m3[k]
    <2>1. m3 \in Seq(Frame)
      BY <1>2
    <2> QED BY <2>1, FrameInFront
  <1> HIDE DEF m2
  <1>4. /\ m1 \in Seq(Frame) /\ Len(m1) = Len(m2) + 1
        /\ \A k \in 1..Len(m2) : m1[k + 1] = m2[k]
    <2>1. m2 \in Seq(Frame)
      BY <1>3
    <2> QED BY <2>1, FrameInFront
  <1> HIDE DEF m1
  <1>5. Len(m1) = Len(s) + 3
    BY <1>1, <1>2, <1>3, <1>4
  <1>6. \A k \in 1..Len(s) + 1 : m1[k + 2] = m3[k]
    <2> SUFFICES ASSUME NEW k \in 1..Len(s) + 1 PROVE m1[k + 2] = m3[k]
      OBVIOUS
    <2>1. k \in 1..Len(m3) /\ k + 1 \in 1..Len(m2) /\ (k + 1) + 1 = k + 2
      BY <1>1, <1>2, <1>3
    <2> QED BY <1>3, <1>4, <2>1
  <1>7. m1[3] = x3
    <2>1. 1 \in 1..Len(s) + 1 /\ 1 + 2 = 3
      BY <1>1
    <2> QED BY <1>2, <1>6, <2>1
  <1>8. \A k \in 1..Len(s) : m1[k + 3] = s[k]
    <2> SUFFICES ASSUME NEW k \in 1..Len(s) PROVE m1[k + 3] = s[k]
      OBVIOUS
    <2>1. k + 1 \in 1..Len(s) + 1 /\ (k + 1) + 2 = k + 3
      BY <1>1
    <2> QED BY <1>2, <1>6, <2>1
  <1>9. /\ rest \in Seq(Frame) /\ Len(rest) = Len(s)
        /\ \A k \in 1..Len(s) : rest[k] = m1[k + 3]
    <2>1. 4 \in 1..Len(m1) + 1 /\ Len(m1) \in Nat
      BY <1>1, <1>5
    <2>2. /\ rest \in Seq(Frame)
          /\ Len(rest) = IF 4 <= Len(m1) THEN Len(m1) - 4 + 1 ELSE 0
          /\ \A k \in 1..Len(m1) - 4 + 1 : rest[k] = m1[4 + k - 1]
      BY <1>4, <2>1, SubSeqProperties
    <2> HIDE DEF rest
    <2>3. Len(rest) = Len(s)
      BY <1>1, <1>5, <2>2
    <2>4. \A k \in 1..Len(s) : k \in 1..Len(m1) - 4 + 1 /\ 4 + k - 1 = k + 3
      BY <1>1, <1>5
    <2> QED BY <2>2, <2>3, <2>4
  <1> HIDE DEF rest
  <1>10. rest = s
    BY <1>1, <1>8, <1>9, SeqEqual
  <1> QED BY <1>7, <1>10 DEF m1, m2, m3, rest, Third, Behind

LEMMA ProtocolFrames ==
    \A f \in {Empty, MDPC_CLIENT, MDPW_WORKER, MDPW_REQUEST, MDPW_REPLY} : Plain(f)
  <1>1. Plain(Empty)
    BY DEF Plain, Empty, Frame
  <1>2. MDPC_CLIENT \in Frame /\ Len(MDPC_CLIENT) = 6
    BY DEF MDPC_CLIENT, Frame, Bytes
  <1>3. \A k \in DOMAIN MDPC_CLIENT : MDPC_CLIENT[k] # 0
    BY DEF MDPC_CLIENT
  <1>4. MDPW_WORKER \in Frame /\ Len(MDPW_WORKER) = 6
    BY DEF MDPW_WORKER, Frame, Bytes
  <1>5. \A k \in DOMAIN MDPW_WORKER : MDPW_WORKER[k] # 0
    BY DEF MDPW_WORKER
  <1>6. /\ MDPW_REQUEST \in Frame /\ Len(MDPW_REQUEST) = 1
        /\ MDPW_REPLY \in Frame /\ Len(MDPW_REPLY) = 1
    BY DEF MDPW_REQUEST, MDPW_REPLY, Frame, Bytes
  <1>7. /\ \A k \in DOMAIN MDPW_REQUEST : MDPW_REQUEST[k] # 0
        /\ \A k \in DOMAIN MDPW_REPLY : MDPW_REPLY[k] # 0
    BY DEF MDPW_REQUEST, MDPW_REPLY
  <1> QED BY <1>1, <1>2, <1>3, <1>4, <1>5, <1>6, <1>7 DEF Plain

LEMMA Wrapping ==
    ASSUME NEW a \in Frame, c_str(a) = a, NEW s \in Message
    PROVE  /\ wrap(s, a, Empty) = InFrontOf(a, InFrontOf(Empty, s))
           /\ unwrap(InFrontOf(a, InFrontOf(Empty, s))) = [addr |-> a, msg |-> s]
           /\ push_front(s, a) = InFrontOf(a, s)
  <1>1. Empty \in Frame /\ c_str(Empty) = Empty
    BY ProtocolFrames, PlainStays
  <1>2. \A f \in Frame : \A m : push_front(m, f) = InFrontOf(c_str(f), m)
    BY DEF push_front, InFrontOf
  <1>3. wrap(s, a, Empty) = InFrontOf(a, InFrontOf(Empty, s))
    BY <1>1, <1>2 DEF wrap
  <1> DEFINE rest == InFrontOf(Empty, s)
  <1>4. rest \in Message /\ rest # <<>> /\ rest[1] = Empty /\ Tail(rest) = s
    BY <1>1, FramesInFront
  <1> HIDE DEF rest
  <1>5. front(InFrontOf(a, rest)) = a /\ pop_front(InFrontOf(a, rest)) = rest
    BY <1>4, FramesInFront
  <1>6. unwrap(InFrontOf(a, rest)) = [addr |-> a, msg |-> s]
    BY <1>1, <1>4, <1>5 DEF unwrap
  <1> QED BY <1>2, <1>3, <1>6 DEF rest

(* A message whose third frame is the protocol's, at the broker.           *)
LEMMA Handled ==
    ASSUME NEW x1 \in Frame, c_str(In(x1)) = In(x1), NEW x2 \in Frame,
           NEW x3, Plain(x3), NEW s \in Message
    PROVE  handle_message(InFrontOf(x1, InFrontOf(x2, InFrontOf(x3, s))))
             = [sender |-> In(x1), header |-> x3, msg |-> recv(s)]
  <1> DEFINE m3 == InFrontOf(x3, s)
             m2 == InFrontOf(x2, m3)
             r3 == InFrontOf(x3, recv(s))
             r2 == InFrontOf(In(x2), r3)
             r1 == InFrontOf(In(x1), r2)
  <1>1. x3 \in Frame /\ c_str(x3) = x3 /\ In(x3) = x3
    BY PlainStays
  <1>2. In(x1) \in Frame /\ In(x2) \in Frame
    BY FramesStayFrames
  <1>3. recv(s) \in Message /\ m3 \in Message /\ recv(m3) = r3
    BY <1>1, ReceivedInFront, FramesInFront
  <1>4. r3 \in Message /\ front(r3) = x3 /\ pop_front(r3) = recv(s)
    BY <1>1, <1>3, FramesInFront
  <1> HIDE DEF m3, r3
  <1>5. m2 \in Message /\ recv(m2) = r2
    BY <1>3, ReceivedInFront, FramesInFront
  <1>6. r2 \in Message /\ pop_front(r2) = r3
    BY <1>2, <1>4, FramesInFront
  <1> HIDE DEF m2, r2
  <1>7. recv(InFrontOf(x1, m2)) = r1
    BY <1>5, ReceivedInFront
  <1>8. front(r1) = In(x1) /\ pop_front(r1) = r2
    BY <1>2, <1>6, FramesInFront
  <1> HIDE DEF r1
  <1>9. handle_message(InFrontOf(x1, m2)) = [sender |-> In(x1), header |-> x3, msg |-> recv(s)]
    BY <1>1, <1>4, <1>6, <1>7, <1>8 DEF handle_message
  <1> QED BY <1>9 DEF m2, m3

-----------------------------------------------------------------------------
(* What the broker makes of a client's request.                            *)
LEMMA RequestIsRead ==
    ASSUME NEW identity \in Frame, ByClient(identity) \/ ByRouter(identity),
           NEW client \in Frame, NEW b, Plain(b)
    PROVE  handle_message(Request(identity, client, b))
             = [sender |-> In(identity), header |-> MDPC_CLIENT,
                msg |-> InFrontOf(In(client), InFrontOf(b, <<>>))]
  <1> DEFINE B == InFrontOf(b, <<>>)
             rest == InFrontOf(client, B)
  <1>1. /\ Empty \in Frame /\ MDPC_CLIENT \in Frame /\ Plain(MDPC_CLIENT)
        /\ b \in Frame /\ In(b) = b /\ c_str(In(identity)) = In(identity)
    BY ProtocolFrames, PlainStays, IdentityIsCarried
  <1>2. <<Empty, MDPC_CLIENT, client, b>> = InFrontOf(Empty, InFrontOf(MDPC_CLIENT, rest))
    BY <1>1, FourFrames
  <1>3. B \in Message /\ recv(B) = B
    BY <1>1, NothingIsReceived, FramesInFront, ReceivedInFront
  <1> HIDE DEF B
  <1>4. rest \in Message /\ recv(rest) = InFrontOf(In(client), B)
    BY <1>3, FramesInFront, ReceivedInFront
  <1> HIDE DEF rest
  <1>5. Request(identity, client, b)
          = InFrontOf(identity, InFrontOf(Empty, InFrontOf(MDPC_CLIENT, rest)))
    <2>1. Request(identity, client, b) = InFrontOf(identity, <<Empty, MDPC_CLIENT, client, b>>)
      BY DEF Request, from, InFrontOf
    <2> QED BY <1>2, <2>1
  <1>6. handle_message(InFrontOf(identity, InFrontOf(Empty, InFrontOf(MDPC_CLIENT, rest))))
          = [sender |-> In(identity), header |-> MDPC_CLIENT, msg |-> recv(rest)]
    BY <1>1, <1>4, Handled
  <1> QED BY <1>4, <1>5, <1>6 DEF B

(* The answer of a worker goes back to the client the request came from,   *)
(* with the frames the client expects: for every identity that a client    *)
(* chose or a ROUTER socket made up, every frame that the client puts in   *)
(* front of the body, and every body and worker's identity that is a text  *)
(* without zeros and does not look like the text of a socket's identity.   *)
THEOREM AnswersFindTheirClient ==
    ASSUME NEW identity \in Frame, NEW client \in Frame,
           NEW b, Plain(b), NEW worker, Plain(worker)
    PROVE  AnswerGoesBack(identity, client, b, worker)
  <1> SUFFICES ASSUME ByClient(identity) \/ ByRouter(identity)
               PROVE  AnswerGoesBack(identity, client, b, worker)
    BY DEF AnswerGoesBack
  <1> DEFINE t == In(identity)
             B == InFrontOf(b, <<>>)
             got == handle_message(Request(identity, client, b))
             out == routed(worker_send(worker, MDPW_REQUEST, for_workers(got.sender, b)))
             job == take_request(out.frames)
             back == handle_message(from(worker, answer(body(job.request.msg), job.request.addr)))
             last == routed(worker_reply(back.msg))
  <1>1. /\ t \in Frame /\ t # Empty /\ c_str(t) = t /\ In(t) = t /\ Out(t) = identity
    BY IdentityIsCarried
  <1> HIDE DEF t
  <1>2. \A f \in {Empty, MDPC_CLIENT, MDPW_WORKER, MDPW_REQUEST, MDPW_REPLY, b, worker} :
           f \in Frame /\ c_str(f) = f /\ In(f) = f /\ Out(f) = f
    BY ProtocolFrames, PlainStays
  <1>3. B \in Message /\ recv(B) = B /\ send(B) = B /\ body(B) = b /\ body_set(<<>>, b) = B /\ <<c_str(b)>> = B
    <2>1. <<>> \in Message /\ recv(<<>>) = <<>> /\ send(<<>>) = <<>>
      BY NothingIsReceived
    <2>2. B \in Message
      BY <1>2, <2>1, FramesInFront
    <2>3. recv(B) = B /\ send(B) = B
      BY <1>2, <2>1, ReceivedInFront
    <2> QED BY <1>2, <2>2, <2>3, OneFrame
  <1> HIDE DEF B
  (* The broker gets the request. *)
  <1>4. got.sender = t /\ got.header = MDPC_CLIENT
    <2>1. got = [sender |-> t, header |-> MDPC_CLIENT, msg |-> InFrontOf(In(client), InFrontOf(b, <<>>))]
      BY RequestIsRead DEF t
    <2> HIDE DEF got
    <2> QED BY <2>1
  <1> HIDE DEF got
  (* It sends the worker what is in it, and the worker takes it. *)
  <1> DEFINE quest == InFrontOf(t, InFrontOf(Empty, B))
             sent == InFrontOf(identity, InFrontOf(Empty, B))
             s3 == InFrontOf(MDPW_REQUEST, sent)
             s2 == InFrontOf(MDPW_WORKER, s3)
             s1 == InFrontOf(Empty, s2)
  <1>5. quest \in Message /\ sent \in Message /\ send(quest) = sent /\ recv(sent) = quest
    <2>1. /\ InFrontOf(Empty, B) \in Message
          /\ recv(InFrontOf(Empty, B)) = InFrontOf(Empty, B)
          /\ send(InFrontOf(Empty, B)) = InFrontOf(Empty, B)
      BY <1>2, <1>3, FramesInFront, ReceivedInFront
    <2> QED BY <1>1, <2>1, FramesInFront, ReceivedInFront DEF t
  <1>6. for_workers(got.sender, b) = quest /\ unwrap(quest) = [addr |-> t, msg |-> B]
    BY <1>1, <1>3, <1>4, Wrapping DEF for_workers
  <1> HIDE DEF quest, sent
  <1>7. /\ s3 \in Message /\ s2 \in Message /\ s1 \in Message
        /\ out.to = worker /\ out.frames = s1
    <2> DEFINE q3 == InFrontOf(MDPW_REQUEST, quest)
               q2 == InFrontOf(MDPW_WORKER, q3)
               q1 == InFrontOf(Empty, q2)
               q0 == InFrontOf(worker, q1)
    <2>1. /\ q3 \in Message /\ send(q3) = s3 /\ s3 \in Message
          /\ push_front(quest, MDPW_REQUEST) = q3
      BY <1>2, <1>5, FramesInFront, ReceivedInFront, Wrapping
    <2> HIDE DEF q3, s3
    <2>2. /\ q2 \in Message /\ send(q2) = s2 /\ s2 \in Message
          /\ push_front(q3, MDPW_WORKER) = q2
      BY <1>2, <2>1, FramesInFront, ReceivedInFront, Wrapping
    <2> HIDE DEF q2, s2
    <2>3. /\ q1 \in Message /\ send(q1) = s1 /\ s1 \in Message
          /\ wrap(q2, worker, Empty) = InFrontOf(worker, q1)
      BY <1>2, <2>2, FramesInFront, ReceivedInFront, Wrapping
    <2> HIDE DEF q1, s1
    <2>4. send(q0) = InFrontOf(worker, s1)
      BY <1>2, <2>3, ReceivedInFront
    <2>5. worker_send(worker, MDPW_REQUEST, quest) = InFrontOf(worker, s1)
      BY <2>1, <2>2, <2>3, <2>4 DEF worker_send
    <2>6. /\ Head(InFrontOf(worker, s1)) = worker
          /\ Tail(InFrontOf(worker, s1)) = s1
      BY <1>2, <2>3, FramesInFront
    <2>7. out = [to |-> worker, frames |-> s1]
      BY <1>6, <2>5, <2>6 DEF routed
    <2> HIDE DEF out
    <2> QED BY <2>1, <2>2, <2>3, <2>7
  <1> HIDE DEF out
  <1>8. job.command = MDPW_REQUEST /\ job.request = [addr |-> t, msg |-> B]
    <2> DEFINE q3 == InFrontOf(MDPW_REQUEST, quest)
               q2 == InFrontOf(MDPW_WORKER, q3)
               q1 == InFrontOf(Empty, q2)
    <2>1. q3 \in Message /\ recv(s3) = q3
      BY <1>2, <1>5, FramesInFront, ReceivedInFront
    <2>2. q2 \in Message /\ recv(s2) = q2
      <3> HIDE DEF q3, s3
      <3> QED BY <1>2, <1>7, <2>1, FramesInFront, ReceivedInFront
    <2>3. q1 \in Message /\ recv(s1) = q1
      <3> HIDE DEF q2, s2
      <3> QED BY <1>2, <1>7, <2>2, FramesInFront, ReceivedInFront
    <2>4. q1[3] = MDPW_REQUEST /\ SubSeq(q1, 4, Len(q1)) = quest
      <3>1. Empty \in Frame /\ MDPW_WORKER \in Frame /\ MDPW_REQUEST \in Frame
        BY <1>2
      <3>2. Third(q1) = MDPW_REQUEST /\ Behind(q1) = quest
        BY <1>5, <3>1, BehindThree
      <3> QED BY <3>2 DEF Third, Behind
    <2> HIDE DEF q1, s1
    <2>5. job = [command |-> MDPW_REQUEST, request |-> [addr |-> t, msg |-> B]]
      BY <1>2, <1>6, <1>7, <2>3, <2>4 DEF take_request
    <2> HIDE DEF job
    <2> QED BY <2>5
  <1> HIDE DEF job, s1, s2, s3
  (* The worker answers, and the broker gets the answer. *)
  <1> DEFINE a3 == InFrontOf(MDPW_REPLY, sent)
             a2 == InFrontOf(MDPW_WORKER, a3)
             a1 == InFrontOf(Empty, a2)
  <1>9. a3 \in Message /\ a2 \in Message /\ a1 \in Message /\ answer(b, t) = a1
    <2> DEFINE q3 == InFrontOf(MDPW_REPLY, quest)
               q2 == InFrontOf(MDPW_WORKER, q3)
               q1 == InFrontOf(Empty, q2)
    <2>1. wrap(<<c_str(b)>>, t, Empty) = quest
      BY <1>1, <1>3, Wrapping DEF quest
    <2>2. /\ q3 \in Message /\ send(q3) = a3 /\ a3 \in Message
          /\ push_front(quest, MDPW_REPLY) = q3
      BY <1>2, <1>5, FramesInFront, ReceivedInFront, Wrapping
    <2> HIDE DEF q3, a3
    <2>3. /\ q2 \in Message /\ send(q2) = a2 /\ a2 \in Message
          /\ push_front(q3, MDPW_WORKER) = q2
      BY <1>2, <2>2, FramesInFront, ReceivedInFront, Wrapping
    <2> HIDE DEF q2, a2
    <2>4. /\ q1 \in Message /\ send(q1) = a1 /\ a1 \in Message
          /\ push_front(q2, Empty) = q1
      BY <1>2, <2>3, FramesInFront, ReceivedInFront, Wrapping
    <2> QED BY <2>1, <2>2, <2>3, <2>4 DEF answer, send_to_broker
  <1>10. /\ back.sender = worker /\ back.header = MDPW_WORKER
         /\ back.msg = InFrontOf(MDPW_REPLY, quest)
    <2>1. body(job.request.msg) = b /\ job.request.addr = t
      BY <1>3, <1>8
    <2>2. from(worker, answer(body(job.request.msg), job.request.addr)) = InFrontOf(worker, a1)
      <3> HIDE DEF a1
      <3> QED BY <1>9, <2>1 DEF from, InFrontOf
    <2>3. recv(a3) = InFrontOf(MDPW_REPLY, quest)
      BY <1>2, <1>5, ReceivedInFront
    <2>4. c_str(In(worker)) = In(worker) /\ In(worker) = worker /\ Plain(MDPW_WORKER)
      BY <1>2, ProtocolFrames
    <2> HIDE DEF a3
    <2>5. handle_message(InFrontOf(worker, a1)) = [sender |-> worker, header |-> MDPW_WORKER, msg |-> recv(a3)]
      <3>1. worker \in Frame /\ Empty \in Frame /\ c_str(In(worker)) = In(worker) /\ Plain(MDPW_WORKER)
        BY <1>2, <2>4
      <3>2. handle_message(InFrontOf(worker, a1)) = [sender |-> In(worker), header |-> MDPW_WORKER, msg |-> recv(a3)]
        BY ONLY <1>9, <3>1, Handled
      <3> QED BY <2>4, <3>2
    <2> HIDE DEF a1, job
    <2>6. back = [sender |-> worker, header |-> MDPW_WORKER, msg |-> InFrontOf(MDPW_REPLY, quest)]
      BY <2>2, <2>3, <2>5
    <2> HIDE DEF back
    <2> QED BY <2>6
  <1>11. front(back.msg) = MDPW_REPLY /\ pop_front(back.msg) = quest
    <2> HIDE DEF back
    <2> QED BY <1>2, <1>5, <1>10, FramesInFront
  <1> HIDE DEF back
  (* The client gets it. *)
  <1>12. last.to = identity /\ last.frames = <<Empty, MDPC_CLIENT, Empty, b>>
    <2> DEFINE c3 == InFrontOf(Empty, B)
               c2 == InFrontOf(MDPC_CLIENT, c3)
               c1 == InFrontOf(Empty, c2)
    <2>1. c3 \in Message /\ send(c3) = c3
      BY <1>2, <1>3, FramesInFront, ReceivedInFront
    <2>2. wrap(B, MDPC_CLIENT, Empty) = c2
      BY <1>2, <1>3, Wrapping
    <2>3. <<Empty, MDPC_CLIENT, Empty, b>> = c1
      BY <1>2, FourFrames DEF B
    <2> HIDE DEF c3
    <2>4. c2 \in Message /\ send(c2) = c2
      BY <1>2, <2>1, FramesInFront, ReceivedInFront
    <2> HIDE DEF c2
    <2>5. c1 \in Message /\ send(c1) = c1 /\ wrap(c2, t, Empty) = InFrontOf(t, c1)
      BY <1>1, <1>2, <2>4, FramesInFront, ReceivedInFront, Wrapping
    <2> HIDE DEF c1
    <2>6. send(InFrontOf(t, c1)) = InFrontOf(identity, c1)
      BY <1>1, <2>5, ReceivedInFront
    <2>7. worker_reply(back.msg) = InFrontOf(identity, c1)
      BY <1>1, <1>6, <1>11, <2>2, <2>5, <2>6 DEF worker_reply
    <2>8. Head(InFrontOf(identity, c1)) = identity /\ Tail(InFrontOf(identity, c1)) = c1
      BY <2>5, FramesInFront
    <2>9. last = [to |-> identity, frames |-> c1]
      BY <2>7, <2>8 DEF routed
    <2> HIDE DEF last
    <2> QED BY <2>3, <2>9
  <1> QED
    BY <1>4, <1>7, <1>8, <1>10, <1>11, <1>12, SMTT(60) DEF AnswerGoesBack, got, out, job, back

(* What the broker sends to the client whose name it has, and the frame of *)
(* whose request it has.                                                   *)
LEMMA LocalAnswerIsSent ==
    ASSUME NEW identity \in Frame, ByClient(identity) \/ ByRouter(identity),
           NEW client \in Frame, ByClient(client) \/ ByRouter(client),
           NEW b, Plain(b)
    PROVE  /\ send_local_to_client(b, In(identity), In(client)) # <<>>
           /\ routed(send_local_to_client(b, In(identity), In(client)))
                = [to |-> identity, frames |-> <<Empty, MDPC_CLIENT, client, b>>]
  <1> DEFINE t == In(identity)
             c == In(client)
             B == InFrontOf(b, <<>>)
  <1>1. /\ t \in Frame /\ t # Empty /\ c_str(t) = t /\ Out(t) = identity
        /\ c \in Frame /\ c # Empty /\ c_str(c) = c /\ Out(c) = client
    BY IdentityIsCarried
  <1>2. \A f \in {Empty, MDPC_CLIENT, b} : f \in Frame /\ c_str(f) = f /\ Out(f) = f
    BY ProtocolFrames, PlainStays
  <1>3. B \in Message /\ send(B) = B /\ body_set(<<>>, b) = B
    BY <1>2, NothingIsReceived, FramesInFront, ReceivedInFront, OneFrame
  <1>4. <<Empty, MDPC_CLIENT, client, b>>
          = InFrontOf(Empty, InFrontOf(MDPC_CLIENT, InFrontOf(client, B)))
    BY <1>2, FourFrames
  <1> HIDE DEF t, c, B
  <1> DEFINE l3 == InFrontOf(c, B)
             l2 == InFrontOf(MDPC_CLIENT, l3)
             l1 == InFrontOf(Empty, l2)
             k3 == InFrontOf(client, B)
             k2 == InFrontOf(MDPC_CLIENT, k3)
             k1 == InFrontOf(Empty, k2)
  <1>5. l3 \in Message /\ send(l3) = k3 /\ k3 \in Message /\ push_front(B, c) = l3
    BY <1>1, <1>3, FramesInFront, ReceivedInFront, Wrapping
  <1> HIDE DEF l3, k3
  <1>6. l2 \in Message /\ send(l2) = k2 /\ k2 \in Message /\ push_front(l3, MDPC_CLIENT) = l2
    BY <1>2, <1>5, FramesInFront, ReceivedInFront, Wrapping
  <1> HIDE DEF l2, k2
  <1>7. l1 \in Message /\ send(l1) = k1 /\ k1 \in Message /\ wrap(l2, t, Empty) = InFrontOf(t, l1)
    BY <1>1, <1>2, <1>6, FramesInFront, ReceivedInFront, Wrapping
  <1> HIDE DEF l1, k1
  <1>8. send(InFrontOf(t, l1)) = InFrontOf(identity, k1)
    BY <1>1, <1>7, ReceivedInFront
  <1>9. wrap(B, MDPC_CLIENT, c) = l2
    BY <1>5, <1>6 DEF wrap
  <1>10. send_local_to_client(b, t, c) = InFrontOf(identity, k1)
    BY <1>1, <1>3, <1>7, <1>8, <1>9 DEF send_local_to_client
  <1>11. /\ InFrontOf(identity, k1) # <<>>
         /\ Head(InFrontOf(identity, k1)) = identity /\ Tail(InFrontOf(identity, k1)) = k1
    BY <1>7, FramesInFront
  <1>12. k1 = <<Empty, MDPC_CLIENT, client, b>>
    BY <1>4 DEF k1, k2, k3
  <1> QED BY <1>10, <1>11, <1>12 DEF routed, t, c

(* The answer of an action that the broker carries out itself goes back to *)
(* the client that asked, with the frame that the client put in front of   *)
(* the body, when that frame is not empty and is one that sockets and C    *)
(* strings bring through.                                                  *)
THEOREM LocalAnswersFindTheirClient ==
    ASSUME NEW identity \in Frame,
           NEW client \in Frame, ByClient(client) \/ ByRouter(client),
           NEW b, Plain(b)
    PROVE  LocalAnswerGoesBack(identity, client, b)
  <1> SUFFICES ASSUME ByClient(identity) \/ ByRouter(identity)
               PROVE  LocalAnswerGoesBack(identity, client, b)
    BY DEF LocalAnswerGoesBack
  <1> DEFINE B == InFrontOf(b, <<>>)
             got == handle_message(Request(identity, client, b))
             last == routed(send_local_to_client(b, got.sender, unwrap(got.msg).addr))
  <1>1. In(client) \in Frame /\ c_str(In(client)) = In(client)
    BY IdentityIsCarried
  <1>2. got = [sender |-> In(identity), header |-> MDPC_CLIENT, msg |-> InFrontOf(In(client), B)]
    BY RequestIsRead
  <1>3. B \in Message
    BY PlainStays, NothingIsReceived, FramesInFront
  <1> HIDE DEF B, got
  <1>4. front(InFrontOf(In(client), B)) = In(client)
    BY <1>1, <1>3, FramesInFront
  <1>5. unwrap(InFrontOf(In(client), B)).addr = In(client)
    BY <1>1, <1>4 DEF unwrap
  <1>6. got.sender = In(identity) /\ unwrap(got.msg).addr = In(client)
    BY <1>2, <1>5
  <1>7. last = [to |-> identity, frames |-> <<Empty, MDPC_CLIENT, client, b>>]
    BY <1>6, LocalAnswerIsSent
  <1> HIDE DEF last
  <1>8. last.to = identity /\ last.frames = <<Empty, MDPC_CLIENT, client, b>>
    BY <1>7
  <1> QED BY <1>8 DEF LocalAnswerGoesBack, got, last

-----------------------------------------------------------------------------
(* Many requests on their way: each frame is one of a request that was     *)
(* made, as far on the chain that the theorems above are about as it is.   *)

Got(r) == handle_message(Request(r.id, r.service, r.text))
Sent(r, w) == routed(worker_send(w, MDPW_REQUEST, for_workers(Got(r).sender, r.text)))
Job(r, w) == take_request(Sent(r, w).frames)
Back(r, w) ==
    from(w, answer(body(Job(r, w).request.msg), Job(r, w).request.addr))

FramesInv ==
    /\ posted \subseteq [id : Client, service : Service, text : Text]
    /\ \A f \in external : \E r \in posted : f = Request(r.id, r.service, r.text)
    /\ \A m \in requests : \E r \in posted : m = for_workers(Got(r).sender, r.text)
    /\ \A m \in internal : \E r \in posted, w \in Worker : m = Sent(r, w)
    /\ \A j \in jobs : \E r \in posted, w \in Worker :
          j = [worker |-> w, reply_to |-> Job(r, w).request.addr,
               text |-> body(Job(r, w).request.msg)]
    /\ \A f \in replies : \E r \in posted, w \in Worker : f = Back(r, w)
    /\ AnswersGoBack

LEMMA RequestsAreSound ==
    ASSUME NEW r \in [id : Client, service : Service, text : Text]
    PROVE  /\ r.id \in Frame /\ (ByClient(r.id) \/ ByRouter(r.id))
           /\ r.service \in Frame
           /\ r.service = Empty \/ ByClient(r.service) \/ ByRouter(r.service)
           /\ r.text \in Frame /\ ByClient(r.text) /\ Plain(r.text)
  <1>1. r.id \in Client /\ r.service \in Service /\ r.text \in Text
    OBVIOUS
  <1> QED BY <1>1, IdentityAssumption, ServiceAssumption, TextAssumption
          DEF Frame, Bytes, ByClient, Plain

LEMMA WorkersAreSound ==
    ASSUME NEW w \in Worker
    PROVE  Plain(w)
  BY TextAssumption DEF Frame, Bytes, ByClient, Plain

(* The message of a client, unwrapped once and twice.                      *)
LEMMA RequestIsUnwrapped ==
    ASSUME NEW r \in [id : Client, service : Service, text : Text]
    PROVE  /\ Got(r).sender = In(r.id) /\ Got(r).header = MDPC_CLIENT
           /\ body(Got(r).msg) = r.text
           /\ unwrap(Got(r).msg).addr = In(r.service)
           /\ unwrap(unwrap(Got(r).msg).msg).addr = In(r.text)
  <1> DEFINE B == InFrontOf(r.text, <<>>)
             c == In(r.service)
             m == InFrontOf(c, B)
  <1>1. Got(r) = [sender |-> In(r.id), header |-> MDPC_CLIENT, msg |-> m]
    BY RequestsAreSound, RequestIsRead DEF Got
  <1>2. /\ r.text \in Frame /\ r.text # Empty /\ c_str(r.text) = r.text /\ In(r.text) = r.text
    BY RequestsAreSound, PlainStays DEF ByClient
  <1>3. c \in Frame /\ c_str(c) = c
    <2>1. CASE r.service = Empty
      BY <2>1, ProtocolFrames, PlainStays
    <2>2. CASE r.service # Empty
      BY <2>2, RequestsAreSound, IdentityIsCarried
    <2> QED BY <2>1, <2>2
  <1>4. /\ B \in Message /\ B # <<>> /\ B[1] = r.text /\ front(B) = r.text
        /\ B = <<r.text>>
    BY <1>2, NothingIsReceived, FramesInFront, OneFrame
  <1>5. body(m) = r.text
    <2>1. B \in Seq(Frame) /\ Len(B) = 1 /\ 1 \in 1..1
      BY <1>4 DEF Message
    <2> HIDE DEF B, c
    <2>2. Len(m) = Len(B) + 1 /\ \A k \in 1..Len(B) : m[k + 1] = B[k]
      <3>1. c \in Frame /\ B \in Seq(Frame)
        BY <1>3, <2>1
      <3> QED BY ONLY <3>1, InFront DEF m
    <2>3. Len(m) = 2 /\ m[2] = r.text
      BY <1>4, <2>1, <2>2
    <2> HIDE DEF m
    <2> QED BY <2>3 DEF body
  <1> HIDE DEF B, c
  <1>6. front(m) = c /\ pop_front(m) = B
    BY <1>3, <1>4, FramesInFront
  <1> HIDE DEF m
  <1>7. unwrap(m) = [addr |-> c, msg |-> B]
    BY <1>2, <1>3, <1>4, <1>6 DEF unwrap
  <1>8. unwrap(B).addr = r.text
    BY <1>2, <1>4 DEF unwrap
  <1> QED BY <1>1, <1>2, <1>5, <1>7, <1>8 DEF c

(* What the broker answers itself.                                         *)
LEMMA LocalAnswersGoBack ==
    ASSUME NEW r \in [id : Client, service : Service, text : Text],
           NEW broken \in BOOLEAN, NEW known_actions \in BOOLEAN,
           NEW a \in LocalAnswers(Got(r), broken, known_actions)
    PROVE  /\ routed(a).to = r.id
           /\ \E f \in {Empty, r.service, r.text} :
                 routed(a).frames = <<Empty, MDPC_CLIENT, f, r.text>>
  <1>1. PICK f \in {r.service, r.text} : a = send_local_to_client(r.text, In(r.id), In(f))
    BY RequestIsUnwrapped DEF LocalAnswers
  <1>2. a # <<>>
    BY DEF LocalAnswers
  <1>3. f # Empty
    <2>1. In(Empty) = Empty
      BY ProtocolFrames, PlainStays
    <2> QED BY <1>1, <1>2, <2>1 DEF send_local_to_client
  <1>4. f \in Frame /\ (ByClient(f) \/ ByRouter(f))
    BY <1>3, RequestsAreSound
  <1>5. routed(a) = [to |-> r.id, frames |-> <<Empty, MDPC_CLIENT, f, r.text>>]
    BY <1>1, <1>4, RequestsAreSound, LocalAnswerIsSent, SMTT(60)
  <1> DEFINE m == routed(a)
  <1> HIDE DEF m
  <1>6. m.to = r.id /\ m.frames = <<Empty, MDPC_CLIENT, f, r.text>>
    BY <1>5 DEF m
  <1> QED BY <1>6 DEF m

(* The chain of one request, link by link.                                 *)
LEMMA ChainHolds ==
    ASSUME NEW r \in [id : Client, service : Service, text : Text], NEW w \in Worker
    PROVE  /\ Sent(r, w).to = w
           /\ handle_message(Back(r, w)).header = MDPW_WORKER
           /\ LET last == routed(worker_reply(handle_message(Back(r, w)).msg))
              IN last.to = r.id /\ last.frames = <<Empty, MDPC_CLIENT, Empty, r.text>>
  <1>1. AnswerGoesBack(r.id, r.service, r.text, w)
    BY RequestsAreSound, WorkersAreSound, AnswersFindTheirClient
  <1>2. ByClient(r.id) \/ ByRouter(r.id)
    BY RequestsAreSound
  <1> QED BY <1>1, <1>2 DEF AnswerGoesBack, Sent, Job, Back, Got

LEMMA FramesStep ==
    ASSUME FramesInv, [FramesNext]_frames_vars
    PROVE  FramesInv'
  <1> DEFINE R == [id : Client, service : Service, text : Text]
  <1>1. ASSUME NEW id \in Client, NEW service \in Service, NEW text \in Text,
               ClientSends(id, service, text)
        PROVE  FramesInv'
    <2> DEFINE r0 == [id |-> id, service |-> service, text |-> text]
    <2>1. /\ r0 \in R /\ posted \subseteq posted' /\ r0 \in posted' /\ posted' = posted \cup {r0}
          /\ Request(id, service, text) = Request(r0.id, r0.service, r0.text)
      BY <1>1 DEF ClientSends
    <2> HIDE DEF r0
    <2>2. \A f \in external' : \E r \in posted' : f = Request(r.id, r.service, r.text)
      BY <1>1, <2>1 DEF ClientSends, FramesInv
    <2>3. UNCHANGED <<requests, internal, jobs, replies>> /\ delivered' = {}
      BY <1>1 DEF ClientSends
    <2> QED BY <2>1, <2>2, <2>3 DEF FramesInv, AnswersGoBack
  <1>2. ASSUME NEW f \in external, BrokerReads(f)
        PROVE  FramesInv'
    <2>1. PICK r \in posted : f = Request(r.id, r.service, r.text)
      BY DEF FramesInv
    <2>2. r \in R /\ handle_message(f) = Got(r)
      BY <2>1 DEF FramesInv, Got
    <2>3. /\ external' \subseteq external /\ UNCHANGED <<internal, jobs, replies, posted>>
      BY <1>2 DEF BrokerReads
    <2>4. \A m \in requests' : \E q \in posted : m = for_workers(Got(q).sender, q.text)
      <3>1. requests' = requests \cup {for_workers(Got(r).sender, r.text)} \/ requests' = requests
        BY <1>2, <2>2, RequestIsUnwrapped DEF BrokerReads
      <3> QED BY <3>1 DEF FramesInv
    <2>5. AnswersGoBack'
      <3>1. PICK broken \in BOOLEAN, known_actions \in BOOLEAN :
                delivered' = {routed(m) : m \in LocalAnswers(Got(r), broken, known_actions)}
        BY <1>2, <2>2 DEF BrokerReads
      <3>2. ASSUME NEW m \in delivered'
            PROVE  \E q \in posted : /\ m.to = q.id
                                     /\ \E g \in {Empty, q.service, q.text} :
                                           m.frames = <<Empty, MDPC_CLIENT, g, q.text>>
        <4>1. PICK a \in LocalAnswers(Got(r), broken, known_actions) : m = routed(a)
          BY <3>1
        <4> QED BY <2>2, <4>1, LocalAnswersGoBack
      <3> QED BY <2>3, <3>2 DEF AnswersGoBack
    <2> QED BY <2>3, <2>4, <2>5 DEF FramesInv
  <1>3. ASSUME NEW msg \in requests, NEW w \in Worker, Dispatches(msg, w)
        PROVE  FramesInv'
    <2>1. PICK r \in posted : msg = for_workers(Got(r).sender, r.text)
      BY DEF FramesInv
    <2>2. /\ requests' \subseteq requests /\ internal' = internal \cup {Sent(r, w)}
          /\ delivered' = {} /\ UNCHANGED <<external, jobs, replies, posted>>
      BY <1>3, <2>1 DEF Dispatches, Sent
    <2> QED BY <2>2 DEF FramesInv, AnswersGoBack
  <1>4. ASSUME NEW m \in internal, WorkerReads(m)
        PROVE  FramesInv'
    <2>1. PICK r \in posted, w \in Worker : m = Sent(r, w)
      BY DEF FramesInv
    <2>2. r \in R
      BY DEF FramesInv
    <2>3. m.to = w /\ take_request(m.frames) = Job(r, w)
      BY <2>1, <2>2, ChainHolds DEF Job
    <2>4. /\ internal' \subseteq internal /\ delivered' = {}
          /\ jobs' = jobs \cup {[worker |-> w, reply_to |-> Job(r, w).request.addr,
                                 text |-> body(Job(r, w).request.msg)]}
          /\ UNCHANGED <<external, requests, replies, posted>>
      BY <1>4, <2>3 DEF WorkerReads
    <2> QED BY <2>4 DEF FramesInv, AnswersGoBack
  <1>5. ASSUME NEW j \in jobs, WorkerAnswers(j)
        PROVE  FramesInv'
    <2>1. PICK r \in posted, w \in Worker :
              j = [worker |-> w, reply_to |-> Job(r, w).request.addr,
                   text |-> body(Job(r, w).request.msg)]
      BY DEF FramesInv
    <2>2. from(j.worker, answer(j.text, j.reply_to)) = Back(r, w)
      BY <2>1 DEF Back
    <2>3. /\ replies' = replies \cup {Back(r, w)} /\ jobs' \subseteq jobs
          /\ delivered' = {} /\ UNCHANGED <<external, requests, internal, posted>>
      BY <1>5, <2>2 DEF WorkerAnswers
    <2> QED BY <2>3 DEF FramesInv, AnswersGoBack
  <1>6. ASSUME NEW f \in replies, BrokerReturns(f)
        PROVE  FramesInv'
    <2>1. PICK r \in posted, w \in Worker : f = Back(r, w)
      BY DEF FramesInv
    <2>2. r \in R
      BY DEF FramesInv
    <2> DEFINE last == routed(worker_reply(handle_message(f).msg))
    <2>3. last.to = r.id /\ last.frames = <<Empty, MDPC_CLIENT, Empty, r.text>>
      BY <2>1, <2>2, ChainHolds
    <2>4. /\ replies' \subseteq replies /\ delivered' \subseteq {last}
          /\ UNCHANGED <<external, requests, internal, jobs, posted>>
      BY <1>6 DEF BrokerReturns
    <2> HIDE DEF last
    <2>5. AnswersGoBack'
      BY <2>3, <2>4 DEF AnswersGoBack
    <2> QED BY <2>4, <2>5 DEF FramesInv
  <1>7. CASE UNCHANGED frames_vars
    BY <1>7 DEF frames_vars, FramesInv, AnswersGoBack
  <1> QED BY <1>1, <1>2, <1>3, <1>4, <1>5, <1>6, <1>7 DEF FramesNext

(* client_process, worker_process, message_worker::recv: however many      *)
(* clients ask at the same time, and however their frames overtake one     *)
(* another, each answer is given to the client whose request it is for.    *)
THEOREM EnvelopesAreKept == FramesSpec => []AnswersGoBack
  <1>1. FramesInit => FramesInv
    BY DEF FramesInit, FramesInv, AnswersGoBack
  <1>2. FramesInv /\ [FramesNext]_frames_vars => FramesInv'
    BY FramesStep
  <1>3. FramesInv => AnswersGoBack
    BY DEF FramesInv
  <1> QED BY <1>1, <1>2, <1>3, PTL DEF FramesSpec

-----------------------------------------------------------------------------
(* The headers of an executable.                                           *)

Held(offset, size) == piece(offset, size) \in in_memory

(* What parse has mapped when it is where it is.                           *)
HeldOK ==
    /\ parsing = "e_magic" => Held(0, 64)
    /\ parsing = "signature" => Held(e_lfanew, 4)
    /\ parsing \in {"coff_hdr", "type", "optional_hdr", "directories"} => Held(coff_hdr, 20)
    /\ parsing = "type" => Held(optional_hdr, 2)
    /\ parsing = "optional_hdr" => Held(optional_hdr, OptionalHeaderSize(image))
    /\ parsing \in {"directories", "parsed"} => Held(directories_ptr, 8 * num_directories)
    /\ parsing = "parsed" => Held(sections_ptr, 40 * num_sections)

ComesFrom(l) ==
    Apart(l.sections) /\ l.rva # 0 =>
        \A i \in 1..Len(l.sections) :
            LET s == l.sections[i]
                k == l.rva - s.virtual_address
            IN k \in 0..BytesInFile(s) - 1 => l.ofs = s.pointer_to_raw_data + k

HeadersTypes ==
    /\ e_lfanew \in Nat /\ num_directories \in Nat /\ num_sections \in Nat /\ sections_ptr \in Nat
    /\ \A m \in in_memory : m.offset \in Nat /\ m.size \in Nat /\ m.offset + m.size <= Size

HeadersInv ==
    /\ HeadersTypes
    /\ HeldOK
    /\ InMemory(accessed)
    /\ ComesFrom(looked_up)

(* What has been mapped may be looked at, the whole or a part of it.       *)
LEMMA PartIsInMemory ==
    ASSUME HeadersTypes, NEW o \in Nat, NEW s \in Nat, Held(o, s),
           NEW p \in Nat, NEW q \in Nat, o <= p, p + q <= o + s
    PROVE  InMemory(piece(p, q))
  BY DEF HeadersTypes, Held, InMemory, piece

(* One step of parse: whether the piece is mapped or not, what was mapped  *)
(* before stays.                                                           *)
LEMMA MapsMore ==
    ASSUME HeadersTypes, InMemory(accessed)', NEW o \in Nat, NEW s \in Nat,
           NEW next, NEW error, Maps(o, s, next, error),
           e_lfanew' \in Nat, num_directories' \in Nat, num_sections' \in Nat, sections_ptr' \in Nat,
           UNCHANGED looked_up, ComesFrom(looked_up)
    PROVE  /\ HeadersTypes' /\ ComesFrom(looked_up)'
           /\ in_memory \subseteq in_memory'
           /\ parsing' = error \/ (parsing' = next /\ piece(o, s) \in in_memory')
  <1>1. /\ in_memory' \subseteq in_memory \cup {piece(o, s)}
        /\ piece(o, s) \in in_memory' \ in_memory => o + s <= Size
        /\ in_memory \subseteq in_memory'
    BY DEF Maps
  <1>2. HeadersTypes'
    BY <1>1 DEF HeadersTypes, piece
  <1> QED BY <1>1, <1>2 DEF Maps, ComesFrom

LEMMA StopsInv ==
    ASSUME HeadersInv, NEW error, Stops(error), InMemory(accessed)',
           error \in {"unreadable", "NOT_A_PE_FILE", "INVALID_SIGNATURE", "UNSUPPORTED_IMAGE",
                      "TOO_MANY_DIRECTORIES", "TOO_MANY_SECTIONS"},
           e_lfanew' \in Nat, num_directories' \in Nat, num_sections' \in Nat, sections_ptr' \in Nat,
           UNCHANGED looked_up
    PROVE  HeadersInv'
  <1>1. HeldOK'
    BY DEF Stops, HeldOK
  <1> QED BY <1>1 DEF HeadersInv, HeadersTypes, Stops, ComesFrom

LEMMA OffsetComesFrom ==
    ASSUME HeadersInv, NEW secs \in [1..num_sections -> Section], NEW addr \in Nat,
           pe_rva2ofs(secs, addr)
    PROVE  /\ ComesFrom(looked_up)'
           /\ \E visited \in 0..num_sections : accessed' = piece(sections_ptr, 40 * visited)
  <1> DEFINE n == num_sections
  <1>1. n \in Nat /\ Len(secs) = n
    BY DEF HeadersInv, HeadersTypes, pe_rva2ofs
  <1>2. \A i \in 1..n : /\ secs[i].virtual_address \in Nat
                        /\ section_size(secs[i]) \in Nat
                        /\ secs[i].size_of_raw_data \in Nat
                        /\ secs[i].pointer_to_raw_data \in Nat
    BY HeadersAssumption DEF section_size
  <1> DEFINE Right(ofs) ==
               addr # 0 => \/ \E i \in 1..n : Around(secs[i], addr) /\ ofs = InFile(secs[i], addr)
                           \/ \A i \in 1..n : ~Around(secs[i], addr)
  <1>3. PICK visited \in 0..n : \E ofs : Converts(secs, addr, ofs, visited) /\ Right(ofs)
    <2>1. CASE (addr = 0 \/ n = 0) /\ Converts(secs, addr, 0, 0)
      BY <1>1, <2>1
    <2>2. ASSUME NEW i \in 1..n, Around(secs[i], addr),
                 Converts(secs, addr, InFile(secs[i], addr), i)
          PROVE  \E visited \in 0..n : \E ofs : Converts(secs, addr, ofs, visited) /\ Right(ofs)
      <3>1. i \in 0..n /\ Right(InFile(secs[i], addr))
        BY <2>2
      <3> HIDE DEF Right
      <3> QED BY <2>2, <3>1
    <2>3. ASSUME NEW ofs, \A i \in 1..n : ~Around(secs[i], addr), Converts(secs, addr, ofs, n)
          PROVE  \E visited \in 0..n : \E o : Converts(secs, addr, o, visited) /\ Right(o)
      <3>1. n \in 0..n /\ Right(ofs)
        BY <1>1, <2>3
      <3> HIDE DEF Right
      <3> QED BY <2>3, <3>1
    <2> HIDE DEF Right
    <2> QED BY <2>1, <2>2, <2>3 DEF pe_rva2ofs
  <1>8. PICK ofs : Converts(secs, addr, ofs, visited) /\ Right(ofs)
    BY <1>3
  <1>4. looked_up' = [sections |-> secs, rva |-> addr, ofs |-> ofs]
    BY <1>8 DEF Converts
  <1>5. ASSUME Apart(secs), addr # 0, NEW i \in 1..n,
               addr - secs[i].virtual_address \in 0..BytesInFile(secs[i]) - 1
        PROVE  ofs = secs[i].pointer_to_raw_data + (addr - secs[i].virtual_address)
    <2>1. Around(secs[i], addr)
      BY <1>2, <1>5 DEF Around, BytesInFile
    <2>2. PICK j \in 1..n : Around(secs[j], addr) /\ ofs = InFile(secs[j], addr)
      BY <1>8, <1>5, <2>1
    <2>3. ~(i < j)
      BY <1>1, <1>2, <1>5, <2>1, <2>2, SMTT(30) DEF Apart, Around
    <2>4. ~(j < i)
      BY <1>1, <1>2, <1>5, <2>1, <2>2, SMTT(30) DEF Apart, Around
    <2>5. j = i
      BY <2>3, <2>4
    <2> QED BY <1>2, <2>2, <2>5 DEF InFile
  <1>6. ComesFrom([sections |-> secs, rva |-> addr, ofs |-> ofs])
    BY <1>1, <1>5 DEF ComesFrom
  <1>7. ComesFrom(looked_up)'
    BY <1>4, <1>6 DEF ComesFrom
  <1> QED BY <1>3, <1>8, <1>7 DEF Converts, LooksAt

(* The next piece of parse, when what it is at is in memory.               *)
LEMMA ParsingInv ==
    ASSUME HeadersInv,
           MapDosHeader \/ ReadDosHeader \/ ReadSignature \/ ReadCoffHeader \/ ReadType
           \/ ReadOptionalHeader \/ ReadSections
    PROVE  HeadersInv'
  <1> USE HeadersAssumption
  <1>1. /\ HeadersTypes /\ ComesFrom(looked_up)
        /\ coff_hdr \in Nat /\ optional_hdr \in Nat /\ directories_ptr \in Nat
        /\ \A x : OptionalHeaderSize(x) \in Nat
    BY DEF HeadersInv, HeadersTypes, coff_hdr, optional_hdr, directories_ptr, OptionalHeaderSize
  <1>2. \A o, s \in Nat : Held(o, s) => InMemory(piece(o, s))
    BY <1>1, PartIsInMemory
  <1>3. in_memory \subseteq in_memory' =>
            \A p : InMemory(p) => InMemory(p)'
    BY DEF InMemory
  <1>4. \A o, s : in_memory \subseteq in_memory' /\ Held(o, s) => piece(o, s) \in in_memory'
    BY DEF Held
  <1>5. CASE MapDosHeader
    <2>1. /\ Maps(0, 64, "e_magic", "unreadable")
          /\ UNCHANGED <<accessed, e_lfanew, image, num_directories, num_sections, sections_ptr, looked_up>>
      BY <1>5 DEF MapDosHeader
    <2>2. in_memory \subseteq in_memory'
      BY <2>1 DEF Maps
    <2>3. InMemory(accessed)'
      BY <1>3, <2>1, <2>2 DEF HeadersInv
    <2>4. /\ HeadersTypes' /\ ComesFrom(looked_up)'
          /\ parsing' = "unreadable" \/ (parsing' = "e_magic" /\ piece(0, 64) \in in_memory')
      BY <1>1, <2>1, <2>3, MapsMore DEF HeadersTypes
    <2> QED BY <2>3, <2>4 DEF HeadersInv, HeldOK, Held
  <1>6. CASE ReadDosHeader
    <2>1. /\ parsing = "e_magic" /\ accessed' = piece(0, 64) /\ InMemory(piece(0, 64))
          /\ UNCHANGED <<image, num_directories, num_sections, sections_ptr, looked_up>>
      BY <1>2, <1>6 DEF ReadDosHeader, LooksAt, HeadersInv, HeldOK
    <2>2. CASE Stops("NOT_A_PE_FILE") /\ UNCHANGED e_lfanew
      <3>1. InMemory(accessed)'
        BY <2>1, <2>2 DEF Stops, InMemory
      <3> QED BY <1>1, <2>1, <2>2, <3>1, StopsInv DEF HeadersTypes
    <2>3. CASE e_lfanew' \in Lfanew /\ Maps(e_lfanew', 4, "signature", "INVALID_LFANEW")
      <3>1. in_memory \subseteq in_memory' /\ e_lfanew' \in Nat
        BY <2>3 DEF Maps
      <3>2. InMemory(accessed)'
        BY <1>3, <2>1, <3>1
      <3>3. /\ HeadersTypes' /\ ComesFrom(looked_up)'
            /\ parsing' = "INVALID_LFANEW" \/ (parsing' = "signature" /\ piece(e_lfanew', 4) \in in_memory')
        BY <1>1, <2>1, <2>3, <3>1, <3>2, MapsMore DEF HeadersTypes
      <3> QED BY <3>2, <3>3 DEF HeadersInv, HeldOK, Held
    <2> QED BY <1>6, <2>2, <2>3 DEF ReadDosHeader
  <1>7. CASE ReadSignature
    <2>1. /\ accessed' = piece(e_lfanew, 4) /\ InMemory(piece(e_lfanew, 4))
          /\ UNCHANGED <<e_lfanew, image, num_directories, num_sections, sections_ptr, looked_up>>
      BY <1>1, <1>2, <1>7 DEF ReadSignature, LooksAt, HeadersInv, HeldOK, HeadersTypes
    <2>2. CASE Stops("INVALID_SIGNATURE")
      <3>1. InMemory(accessed)'
        BY <2>1, <2>2 DEF Stops, InMemory
      <3> QED BY <1>1, <2>1, <2>2, <3>1, StopsInv DEF HeadersTypes
    <2>3. CASE Maps(coff_hdr, 20, "coff_hdr", "MISSING_COFF_HEADER")
      <3>1. InMemory(accessed)'
        BY <1>3, <2>1, <2>3 DEF Maps
      <3>2. /\ HeadersTypes' /\ ComesFrom(looked_up)'
            /\ \/ parsing' = "MISSING_COFF_HEADER"
               \/ parsing' = "coff_hdr" /\ piece(coff_hdr, 20) \in in_memory'
        BY <1>1, <2>1, <2>3, <3>1, MapsMore DEF HeadersTypes
      <3>3. coff_hdr' = coff_hdr
        BY <2>1 DEF coff_hdr
      <3> QED BY <3>1, <3>2, <3>3 DEF HeadersInv, HeldOK, Held
    <2> QED BY <1>7, <2>2, <2>3 DEF ReadSignature
  <1>8. CASE ReadCoffHeader
    <2>1. /\ accessed' = piece(coff_hdr, 20) /\ Held(coff_hdr, 20) /\ InMemory(piece(coff_hdr, 20))
          /\ num_sections' \in Nat
          /\ Maps(optional_hdr, 2, "type", "MISSING_OPTIONAL_HEADER")
          /\ UNCHANGED <<e_lfanew, image, num_directories, sections_ptr, looked_up>>
      BY <1>1, <1>2, <1>8 DEF ReadCoffHeader, LooksAt, HeadersInv, HeldOK
    <2>2. in_memory \subseteq in_memory' /\ InMemory(accessed)'
      BY <1>3, <2>1 DEF Maps
    <2>3. /\ HeadersTypes' /\ ComesFrom(looked_up)'
          /\ \/ parsing' = "MISSING_OPTIONAL_HEADER"
             \/ parsing' = "type" /\ piece(optional_hdr, 2) \in in_memory'
      BY <1>1, <2>1, <2>2, MapsMore DEF HeadersTypes
    <2>4. coff_hdr' = coff_hdr /\ optional_hdr' = optional_hdr /\ piece(coff_hdr, 20) \in in_memory'
      BY <1>4, <2>1, <2>2 DEF coff_hdr, optional_hdr
    <2> QED BY <2>2, <2>3, <2>4 DEF HeadersInv, HeldOK, Held
  <1>9. CASE ReadType
    <2>1. /\ accessed' = piece(optional_hdr, 2) /\ InMemory(piece(optional_hdr, 2))
          /\ Held(coff_hdr, 20)
          /\ UNCHANGED <<e_lfanew, num_directories, num_sections, sections_ptr, looked_up>>
      BY <1>1, <1>2, <1>9 DEF ReadType, LooksAt, HeadersInv, HeldOK
    <2>2. CASE Stops("UNSUPPORTED_IMAGE")
      <3>1. InMemory(accessed)'
        BY <2>1, <2>2 DEF Stops, InMemory
      <3> QED BY <1>1, <2>1, <2>2, <3>1, StopsInv DEF HeadersTypes
    <2>3. CASE Maps(optional_hdr, OptionalHeaderSize(image'), "optional_hdr", "MISSING_OPTIONAL_HEADER")
      <3>1. in_memory \subseteq in_memory' /\ InMemory(accessed)'
        BY <1>3, <2>1, <2>3 DEF Maps
      <3>2. /\ HeadersTypes' /\ ComesFrom(looked_up)'
            /\ \/ parsing' = "MISSING_OPTIONAL_HEADER"
               \/ parsing' = "optional_hdr"
                  /\ piece(optional_hdr, OptionalHeaderSize(image')) \in in_memory'
        BY <1>1, <2>1, <2>3, <3>1, MapsMore DEF HeadersTypes
      <3>3. /\ coff_hdr' = coff_hdr /\ optional_hdr' = optional_hdr
            /\ piece(coff_hdr, 20) \in in_memory'
        BY <1>4, <2>1, <3>1 DEF coff_hdr, optional_hdr
      <3>4. OptionalHeaderSize(image)' = OptionalHeaderSize(image')
        BY DEF OptionalHeaderSize
      <3> QED BY <3>1, <3>2, <3>3, <3>4 DEF HeadersInv, HeldOK, Held
    <2> QED BY <1>9, <2>2, <2>3 DEF ReadType
  <1>10. CASE ReadOptionalHeader
    <2>1. /\ accessed' = piece(optional_hdr, OptionalHeaderSize(image))
          /\ InMemory(piece(optional_hdr, OptionalHeaderSize(image)))
          /\ Held(coff_hdr, 20) /\ num_directories' \in Nat
          /\ UNCHANGED <<e_lfanew, image, num_sections, sections_ptr, looked_up>>
      BY <1>1, <1>2, <1>10 DEF ReadOptionalHeader, LooksAt, HeadersInv, HeldOK
    <2>2. CASE Stops("TOO_MANY_DIRECTORIES") \/ Stops("TOO_MANY_SECTIONS")
      <3>1. InMemory(accessed)'
        BY <2>1, <2>2 DEF Stops, InMemory
      <3> QED BY <1>1, <2>1, <2>2, <3>1, StopsInv DEF HeadersTypes
    <2>3. CASE Maps(directories_ptr, 8 * num_directories', "directories", "ALLOCATION_FAILURE")
      <3>1. in_memory \subseteq in_memory' /\ InMemory(accessed)'
        BY <1>3, <2>1, <2>3 DEF Maps
      <3>2. 8 * num_directories' \in Nat
        <4>1. \A x \in Nat : 8 * x \in Nat
          OBVIOUS
        <4> QED BY <2>1, <4>1, Zenon
      <3>3. /\ HeadersTypes' /\ ComesFrom(looked_up)'
            /\ \/ parsing' = "ALLOCATION_FAILURE"
               \/ parsing' = "directories" /\ piece(directories_ptr, 8 * num_directories') \in in_memory'
        BY <1>1, <2>1, <2>3, <3>1, <3>2, MapsMore DEF HeadersTypes
      <3>4. /\ coff_hdr' = coff_hdr /\ directories_ptr' = directories_ptr
            /\ piece(coff_hdr, 20) \in in_memory'
        BY <1>4, <2>1, <3>1 DEF coff_hdr, optional_hdr, directories_ptr, OptionalHeaderSize
      <3> QED BY <3>1, <3>3, <3>4 DEF HeadersInv, HeldOK, Held
    <2> QED BY <1>10, <2>2, <2>3 DEF ReadOptionalHeader
  <1>11. CASE ReadSections
    <2>1. /\ accessed' = piece(coff_hdr, 20) /\ InMemory(piece(coff_hdr, 20))
          /\ Held(directories_ptr, 8 * num_directories)
          /\ UNCHANGED <<e_lfanew, image, num_directories, num_sections, looked_up>>
      BY <1>1, <1>2, <1>11 DEF ReadSections, LooksAt, HeadersInv, HeldOK
    <2>2. /\ sections_ptr' \in Nat
          /\ Maps(sections_ptr', 40 * num_sections, "parsed", "ALLOCATION_FAILURE")
      BY <1>1, <1>11 DEF ReadSections
    <2>3. in_memory \subseteq in_memory' /\ InMemory(accessed)'
      BY <1>3, <2>1, <2>2 DEF Maps
    <2>4. 40 * num_sections \in Nat
      BY <1>1 DEF HeadersTypes
    <2>5. /\ HeadersTypes' /\ ComesFrom(looked_up)'
          /\ \/ parsing' = "ALLOCATION_FAILURE"
             \/ parsing' = "parsed" /\ piece(sections_ptr', 40 * num_sections) \in in_memory'
      BY <1>1, <2>1, <2>2, <2>3, <2>4, MapsMore DEF HeadersTypes
    <2>6. /\ directories_ptr' = directories_ptr
          /\ piece(directories_ptr, 8 * num_directories) \in in_memory'
      BY <1>4, <2>1, <2>3 DEF coff_hdr, optional_hdr, directories_ptr, OptionalHeaderSize
    <2> QED BY <2>1, <2>3, <2>5, <2>6 DEF HeadersInv, HeldOK, Held
  <1> QED BY <1>5, <1>6, <1>7, <1>8, <1>9, <1>10, <1>11

(* What is looked up after it: a directory that there is, and headers of   *)
(* no more sections than there are.                                        *)
LEMMA LookingUpInv ==
    ASSUME HeadersInv, parsing = "parsed",
           UNCHANGED <<parsing, in_memory, e_lfanew, image, num_directories, num_sections, sections_ptr>>,
           InMemory(accessed'), ComesFrom(looked_up)'
    PROVE  HeadersInv'
  <1>1. /\ coff_hdr' = coff_hdr /\ optional_hdr' = optional_hdr
        /\ directories_ptr' = directories_ptr
    BY DEF coff_hdr, optional_hdr, directories_ptr, OptionalHeaderSize
  <1>2. HeldOK'
    BY <1>1 DEF HeadersInv, HeldOK, Held
  <1>3. InMemory(accessed)'
    BY DEF InMemory
  <1> QED BY <1>2, <1>3 DEF HeadersInv, HeadersTypes

LEMMA LookUpInv ==
    ASSUME HeadersInv,
           \/ pe_directory_by_entry(IMAGE_DIRECTORY_ENTRY_RESOURCE)
           \/ \E secs \in [1..num_sections -> Section], addr \in Address : pe_rva2ofs(secs, addr)
    PROVE  HeadersInv'
  <1>1. /\ e_lfanew \in Nat /\ num_directories \in Nat /\ num_sections \in Nat
        /\ sections_ptr \in Nat /\ directories_ptr \in Nat /\ HeadersTypes /\ ComesFrom(looked_up)
    BY DEF HeadersInv, HeadersTypes, coff_hdr, optional_hdr, directories_ptr, OptionalHeaderSize
  <1>2. CASE pe_directory_by_entry(IMAGE_DIRECTORY_ENTRY_RESOURCE)
    <2>1. /\ parsing = "parsed" /\ num_directories > 2
          /\ accessed' = piece(directories_ptr + 16, 8)
          /\ UNCHANGED <<parsing, in_memory, e_lfanew, image, num_directories, num_sections,
                         sections_ptr, looked_up>>
      BY <1>1, <1>2 DEF pe_directory_by_entry, NoDirectory, IMAGE_DIRECTORY_ENTRY_RESOURCE, LooksAt
    <2>2. Held(directories_ptr, 8 * num_directories)
      BY <2>1 DEF HeadersInv, HeldOK
    <2>3. /\ 8 * num_directories \in Nat /\ directories_ptr + 16 \in Nat
          /\ directories_ptr <= directories_ptr + 16
          /\ (directories_ptr + 16) + 8 <= directories_ptr + 8 * num_directories
      BY <1>1, <2>1
    <2>4. InMemory(piece(directories_ptr + 16, 8))
      BY <1>1, <2>2, <2>3, PartIsInMemory
    <2>5. ComesFrom(looked_up)'
      BY <1>1, <2>1 DEF ComesFrom
    <2> QED BY <2>1, <2>4, <2>5, LookingUpInv
  <1>3. ASSUME NEW secs \in [1..num_sections -> Section], NEW addr \in Address,
               pe_rva2ofs(secs, addr)
        PROVE  HeadersInv'
    <2>1. addr \in Nat
      BY HeadersAssumption
    <2>2. PICK visited \in 0..num_sections : accessed' = piece(sections_ptr, 40 * visited)
      BY <1>3, <2>1, OffsetComesFrom
    <2>3. ComesFrom(looked_up)'
      BY <1>3, <2>1, OffsetComesFrom
    <2>4. /\ parsing = "parsed"
          /\ UNCHANGED <<parsing, in_memory, e_lfanew, image, num_directories, num_sections, sections_ptr>>
      BY <1>3 DEF pe_rva2ofs
    <2>5. Held(sections_ptr, 40 * num_sections)
      BY <2>4 DEF HeadersInv, HeldOK
    <2>6. /\ 40 * visited \in Nat /\ 40 * num_sections \in Nat
          /\ sections_ptr + 40 * visited <= sections_ptr + 40 * num_sections
          /\ sections_ptr <= sections_ptr
      BY <1>1
    <2>7. InMemory(piece(sections_ptr, 40 * visited))
      BY <1>1, <2>5, <2>6, PartIsInMemory
    <2> QED BY <2>2, <2>3, <2>4, <2>7, LookingUpInv
  <1> QED BY <1>2, <1>3

LEMMA HeadersInvariance == HeadersSpec => []HeadersInv
  <1>1. ASSUME HeadersInit PROVE HeadersInv
    <2>1. /\ in_memory = {} /\ parsing = "dos_hdr" /\ accessed = piece(0, 0) /\ accessed.size = 0
          /\ e_lfanew = 0 /\ num_directories = 0 /\ num_sections = 0 /\ sections_ptr = 0
          /\ looked_up.rva = 0
      BY <1>1 DEF HeadersInit, piece, Nothing
    <2> QED BY <2>1 DEF HeadersInv, HeadersTypes, HeldOK, InMemory, ComesFrom
  <1>2. HeadersInv /\ [HeadersNext]_headersVars => HeadersInv'
    <2> SUFFICES ASSUME HeadersInv, [HeadersNext]_headersVars PROVE HeadersInv'
      OBVIOUS
    <2>1. CASE UNCHANGED headersVars
      BY <2>1 DEF headersVars, HeadersInv, HeadersTypes, HeldOK, Held, InMemory, ComesFrom,
                  coff_hdr, optional_hdr, directories_ptr, OptionalHeaderSize
    <2> QED BY <2>1, ParsingInv, LookUpInv DEF HeadersNext
  <1> QED BY <1>1, <1>2, PTL DEF HeadersSpec

(* parse, pe_directory_by_entry, pe_rva2ofs: whatever a file says of its   *)
(* headers, also if they change while they are read, nothing that has not  *)
(* been mapped is looked at, and addresses come from where their section   *)
(* is in the file.                                                         *)
THEOREM HeadersAreMapped == HeadersSpec => []AddressesAreRight
  <1>1. HeadersInv => AddressesAreRight
    BY DEF HeadersInv, AddressesAreRight, ComesFrom
  <1> QED BY <1>1, HeadersInvariance, PTL

-----------------------------------------------------------------------------
(* Access masks (SecurityDescriptor).                                      *)

(* Of two rights that the code has words for, one includes the other or    *)
(* they have nothing in common.                                            *)
Nested(a, b) == a \subseteq b \/ b \subseteq a \/ a \cap b = {}

LEMMA FileRightsAreNested ==
    \A a, b \in {Full_Control, Modify, Read_And_Execute, Read, Write} \cup OneBit(0..8) : Nested(a, b)
  <1> DEFINE Wide == {Full_Control, Modify, Read_And_Execute, Read, Write}
  <1>1. \A a, b \in Wide : Nested(a, b)
    <2>1. /\ Modify \subseteq Full_Control /\ Read_And_Execute \subseteq Full_Control
          /\ Read \subseteq Full_Control /\ Write \subseteq Full_Control
      BY DEF Full_Control, Modify, Read_And_Execute, Read, Write
    <2>2. /\ Read_And_Execute \subseteq Modify /\ Read \subseteq Modify /\ Write \subseteq Modify
      BY DEF Modify, Read_And_Execute, Read, Write
    <2>3. /\ Read \subseteq Read_And_Execute /\ Write \cap Read_And_Execute = {}
          /\ Write \cap Read = {}
      BY DEF Read_And_Execute, Read, Write
    <2> QED BY <2>1, <2>2, <2>3, Zenon DEF Nested
  <1>2. \A a, b \in OneBit(0..8) : Nested(a, b)
    BY DEF OneBit, Nested
  <1>3. \A a \in Wide, b \in OneBit(0..8) : Nested(a, b) /\ Nested(b, a)
    BY DEF OneBit, Nested
  <1> QED BY <1>1, <1>2, <1>3

LEMMA RegistryRightsAreNested ==
    \A a, b \in {Reg_Full_Control, Reg_Read_And_Execute} \cup OneBit(0..5) : Nested(a, b)
  <1>1. Reg_Read_And_Execute \subseteq Reg_Full_Control
    BY DEF Reg_Full_Control, Reg_Read_And_Execute
  <1> QED BY <1>1 DEF OneBit, Nested

LEMMA ShareRightsAreNested ==
    \A a, b \in {SHARE_ALL_ACCESS, SHARE_READ_ONLY, {2}} : Nested(a, b)
  <1>1. SHARE_READ_ONLY \subseteq SHARE_ALL_ACCESS /\ {2} \subseteq SHARE_ALL_ACCESS
        /\ {2} \cap SHARE_READ_ONLY = {}
    BY DEF SHARE_ALL_ACCESS, SHARE_READ_ONLY, Full_Control
  <1> QED BY <1>1 DEF Nested

LEMMA RightsAreNested ==
    ASSUME NEW t \in entity_type
    PROVE  \A a, b \in perm_dir[t] : Nested(a, b)
  <1>1. /\ perm_dir["NTFS_FILE"] \subseteq
               {Full_Control, Modify, Read_And_Execute, Read, Write} \cup OneBit(0..8)
        /\ perm_dir["NTFS_DIR"] = {Full_Control, Modify, Read_And_Execute, Read, Write} \cup OneBit(0..8)
        /\ perm_dir["REGISTRY"] = {Reg_Full_Control, Reg_Read_And_Execute} \cup OneBit(0..5)
        /\ perm_dir["SHARE"] = {SHARE_ALL_ACCESS, SHARE_READ_ONLY, {2}}
    <2>1. OneBit(0..8 \ {6}) \subseteq OneBit(0..8)
      BY DEF OneBit
    <2> QED BY <2>1 DEF perm_dir, entity_type
  <1>2. t \in {"NTFS_FILE", "NTFS_DIR", "REGISTRY", "SHARE"}
    BY DEF entity_type
  <1>3. CASE t \in {"NTFS_FILE", "NTFS_DIR"}
    <2>1. perm_dir[t] \subseteq
              {Full_Control, Modify, Read_And_Execute, Read, Write} \cup OneBit(0..8)
      BY <1>1, <1>3
    <2> QED BY <2>1, FileRightsAreNested
  <1>4. CASE t = "REGISTRY"
    BY <1>1, <1>4, RegistryRightsAreNested
  <1>5. CASE t = "SHARE"
    BY <1>1, <1>5, ShareRightsAreNested
  <1> QED BY <1>2, <1>3, <1>4, <1>5

(* No right that the code has a word for is a generic one.                 *)
LEMMA RightsAreSpecific ==
    ASSUME NEW t \in entity_type, NEW e \in perm_dir[t]
    PROVE  e \subseteq 0..20 /\ e \cap GENERIC = {}
  <1>1. /\ Full_Control \subseteq 0..20 /\ Modify \subseteq 0..20 /\ Read_And_Execute \subseteq 0..20
        /\ Read \subseteq 0..20 /\ Write \subseteq 0..20 /\ Reg_Full_Control \subseteq 0..20
        /\ Reg_Read_And_Execute \subseteq 0..20 /\ SHARE_READ_ONLY \subseteq 0..20
        /\ SHARE_ALL_ACCESS \subseteq 0..20 /\ {2} \subseteq 0..20
    BY DEF Full_Control, Modify, Read_And_Execute, Read, Write, Reg_Full_Control,
           Reg_Read_And_Execute, SHARE_READ_ONLY, SHARE_ALL_ACCESS
  <1>2. \A b \in 0..20 : {b} \subseteq 0..20
    OBVIOUS
  <1>3. \A f \in OneBit(0..8) \cup OneBit(0..5) \cup OneBit(0..8 \ {6}) : f \subseteq 0..20
    BY DEF OneBit
  <1>4. e \in {Full_Control, Modify, Read_And_Execute, Read, Write, Reg_Full_Control,
               Reg_Read_And_Execute, SHARE_READ_ONLY, SHARE_ALL_ACCESS, {2}}
              \cup OneBit(0..8) \cup OneBit(0..5) \cup OneBit(0..8 \ {6})
    BY DEF perm_dir, entity_type
  <1>5. e \subseteq 0..20
    BY <1>1, <1>3, <1>4
  <1> QED BY <1>5 DEF GENERIC

(* A right of the mask is still to come, with all of its bits, or has been *)
(* said; bits that are gone have been said.                                *)
MaskInv ==
    /\ et \in entity_type /\ mask \subseteq 0..31
    /\ flags \subseteq mask /\ cont \subseteq perm_dir[et]
    /\ ~returned =>
           /\ flags \cap GENERIC = mask \cap GENERIC
           /\ \A e \in said : e \subseteq mask
           /\ \A b \in mask \ flags : IsSaid({b})
           /\ \A e \in perm_dir[et] : e \subseteq mask => IsSaid(e) \/ (e \in cont /\ e \subseteq flags)
    /\ returned => cont = {}
    /\ RightsAreTold

(* What leaves a right without its bits is a right that is said and that   *)
(* does not include it only if it comes before its own parts.              *)
LEMMA NextRight ==
    ASSUME MaskInv, NEW e \in First(cont), flags_vector(e)
    PROVE  MaskInv'
  <1>1. /\ e \in perm_dir[et] /\ e \in cont /\ et \in entity_type
        /\ \A r \in cont \ {e} : IsGreater(e, r)
    BY DEF First, MaskInv
  <1>2. /\ et' = et /\ mask' = mask /\ returned' = returned /\ cont' = cont \ {e}
        /\ cont' \subseteq perm_dir[et]
    BY DEF flags_vector, MaskInv
  <1>3. ~returned
    BY <1>1 DEF MaskInv
  <1>4. CASE ~returned /\ Includes(flags, e)
    <2>1. e \subseteq flags /\ said' = said \cup {e} /\ flags' = flags \ e
      BY <1>4 DEF flags_vector, Includes
    <2>2. /\ flags \subseteq mask /\ flags \cap GENERIC = mask \cap GENERIC
          /\ \A r \in said : r \subseteq mask
          /\ \A b \in mask \ flags : IsSaid({b})
          /\ \A r \in perm_dir[et] :
                 r \subseteq mask => IsSaid(r) \/ (r \in cont /\ r \subseteq flags)
      BY <1>4 DEF MaskInv
    <2>3. flags' \subseteq mask' /\ flags' \cap GENERIC = mask' \cap GENERIC
      BY <1>1, <1>2, <2>1, <2>2, RightsAreSpecific
    <2>4. \A r \in said' : r \subseteq mask'
      BY <1>2, <2>1, <2>2
    <2>5. \A r : IsSaid(r) => IsSaid(r)'
      BY <2>1 DEF IsSaid
    <2>6. \A r : r \subseteq e => IsSaid(r)'
      BY <2>1 DEF IsSaid
    <2>7. \A b \in mask' \ flags' : IsSaid({b})'
      BY <1>2, <2>1, <2>2, <2>5, <2>6
    <2>8. ASSUME NEW r \in perm_dir[et], r \subseteq mask
          PROVE  IsSaid(r)' \/ (r \in cont' /\ r \subseteq flags')
      <3>1. CASE IsSaid(r) \/ r \subseteq e
        BY <2>5, <2>6, <3>1
      <3>2. CASE r \in cont /\ r \subseteq flags /\ ~(r \subseteq e)
        <4>1. r \in cont' /\ IsGreater(e, r)
          BY <1>1, <1>2, <3>2
        <4>2. ~(e \subseteq r)
          BY <4>1 DEF IsGreater
        <4>3. r \cap e = {}
          BY <1>1, <3>2, <4>2, RightsAreNested DEF Nested
        <4> QED BY <2>1, <3>2, <4>1, <4>3
      <3> QED BY <2>2, <2>8, <3>1, <3>2
    <2>9. RightsAreTold'
      BY <1>2, <1>4 DEF RightsAreTold
    <2>10. et' \in entity_type /\ mask' \subseteq 0..31
      BY <1>2 DEF MaskInv
    <2> QED BY <1>2, <2>3, <2>4, <2>7, <2>8, <2>9, <2>10 DEF MaskInv
  <1>5. CASE ~returned /\ ~Includes(flags, e)
    <2>1. said' = said /\ flags' = flags /\ ~(e \subseteq flags)
      BY <1>5 DEF flags_vector, Includes
    <2>2. \A r : IsSaid(r) => IsSaid(r)'
      BY <2>1 DEF IsSaid
    <2>3. \A r \in perm_dir[et] :
              r \subseteq mask => IsSaid(r)' \/ (r \in cont' /\ r \subseteq flags')
      BY <1>2, <1>5, <2>1, <2>2 DEF MaskInv
    <2>4. RightsAreTold'
      BY <1>2, <1>5 DEF RightsAreTold
    <2>5. \A b \in mask' \ flags' : IsSaid({b})'
      BY <1>2, <1>5, <2>1, <2>2 DEF MaskInv
    <2> QED BY <1>2, <1>5, <2>1, <2>3, <2>4, <2>5 DEF MaskInv
  <1> QED BY <1>3, <1>4, <1>5

LEMMA AnswerIsReturned ==
    ASSUME MaskInv, get_access_mask
    PROVE  MaskInv'
  <1>1. /\ cont = {} /\ ~returned /\ returned'
        /\ et' = et /\ mask' = mask /\ flags' = flags /\ cont' = cont
    BY DEF get_access_mask
  <1>2. /\ flags \subseteq mask /\ flags \cap GENERIC = mask \cap GENERIC
        /\ \A r \in said : r \subseteq mask
        /\ \A b \in mask \ flags : IsSaid({b})
        /\ \A r \in perm_dir[et] : r \subseteq mask => IsSaid(r)
    BY <1>1 DEF MaskInv
  <1> DEFINE std(bits) == {e \in STD : e \subseteq bits}
             words == said \cup std(flags) \cup std(new_mask(flags))
  <1>3. said' = IF words = {} THEN {flags} ELSE words
    BY DEF get_access_mask, Includes
  <1>4. new_mask(flags) = new_mask(mask)
    BY <1>2 DEF new_mask
  <1>5. \A e \in words : e \subseteq mask \/ (e \in STD /\ e \subseteq Granted)
    BY <1>2, <1>4 DEF Granted
  <1>6. said' = words \/ (said' = {flags} /\ words = {})
    BY <1>3
  <1>7. \A e \in said' : e \subseteq mask \/ (e \in STD /\ e \subseteq Granted)
    BY <1>2, <1>5, <1>6
  <1>8. \A e : IsSaid(e) => IsSaid(e)'
    BY <1>6 DEF IsSaid
  <1>9. \A e \in perm_dir[et] : e \subseteq mask => IsSaid(e)'
    BY <1>2, <1>8
  <1>10. ASSUME NEW e \in STD, e \subseteq Granted
         PROVE  IsSaid(e)'
    <2>1. PICK b \in 16..20 : e = {b}
      BY DEF STD, OneBit
    <2>2. b \in mask \ flags \/ b \in flags \/ b \in new_mask(flags)
      BY <1>4, <1>10, <2>1 DEF Granted
    <2>3. CASE b \in mask \ flags
      BY <1>2, <1>8, <2>1, <2>3
    <2>4. CASE b \in flags \/ b \in new_mask(flags)
      <3>1. e \in words
        BY <2>1, <2>4
      <3>2. e \in said'
        BY <1>6, <3>1
      <3> QED BY <3>2 DEF IsSaid
    <2> QED BY <2>2, <2>3, <2>4
  <1>11. Granted' = Granted /\ perm_dir[et'] = perm_dir[et]
    BY <1>1 DEF Granted, new_mask
  <1>12. RightsAreTold'
    BY <1>1, <1>7, <1>9, <1>10, <1>11 DEF RightsAreTold, Honest
  <1> QED BY <1>1, <1>12 DEF MaskInv

LEMMA MaskInvariance == AccessMaskSpec => []MaskInv
  <1>1. ASSUME AccessMaskInit PROVE MaskInv
    BY <1>1, AccessMaskAssumption DEF AccessMaskInit, MaskInv, RightsAreTold
  <1>2. MaskInv /\ [AccessMaskNext]_maskVars => MaskInv'
    <2> SUFFICES ASSUME MaskInv, [AccessMaskNext]_maskVars PROVE MaskInv'
      OBVIOUS
    <2>1. CASE UNCHANGED maskVars
      BY <2>1 DEF maskVars, MaskInv, RightsAreTold, Honest, IsSaid, Granted, new_mask
    <2> QED BY <2>1, NextRight, AnswerIsReturned DEF AccessMaskNext
  <1> QED BY <1>1, <1>2, PTL DEF AccessMaskSpec

(* get_access_mask: whatever the mask of an entry of a file, a directory,  *)
(* a key or a share, the order of the loop hides no right whose own bits   *)
(* the mask has, and of what its generic rights stand for the standard     *)
(* rights are said and no other.                                           *)
THEOREM RightsAreToldInWords == AccessMaskSpec => []RightsAreTold
  <1>1. MaskInv => RightsAreTold
    BY DEF MaskInv
  <1> QED BY <1>1, MaskInvariance, PTL

-----------------------------------------------------------------------------
(* Letters for bytes (Base64).                                             *)

Written == 0..63 \cup {PAD}

LEMMA LettersOfBits ==
    ASSUME NEW x \in Bytes, NEW y \in Bytes, NEW z \in Bytes, NEW bits,
           bits = (x * 256 + y) * 256 + z
    PROVE  /\ letters(bits) \in Seq(0..63) /\ Len(letters(bits)) = 4
           /\ ((letters(bits)[1] * 64 + letters(bits)[2]) * 64 + letters(bits)[3]) * 64
              + letters(bits)[4] = bits
           /\ z = 0 => letters(bits)[4] = 0
           /\ z = 0 /\ y = 0 => letters(bits)[3] = 0
  <1> DEFINE shifted == bits \div 64
             twice == shifted \div 64
             a == (twice \div 64) % 64
             b == twice % 64
             c == shifted % 64
             d == bits % 64
  <1> HIDE DEF shifted, twice, a, b, c, d
  <1>0. x \in 0..255 /\ y \in 0..255 /\ z \in 0..255
    BY DEF Bytes
  <1>1. bits \in Nat
    BY <1>0
  <1>2. shifted \in Nat /\ d \in 0..63 /\ bits = shifted * 64 + d
    BY <1>1 DEF shifted, d
  <1>3. twice \in Nat /\ c \in 0..63 /\ shifted = twice * 64 + c
    BY <1>2 DEF twice, c
  <1>4. b \in 0..63 /\ twice \div 64 \in Nat /\ twice = (twice \div 64) * 64 + b
    BY <1>3 DEF b
  <1>5. twice \div 64 < 64
    BY <1>0, <1>2, <1>3, <1>4
  <1>6. a \in 0..63 /\ a = twice \div 64
    BY <1>4, <1>5 DEF a
  <1>7. bits = ((a * 64 + b) * 64 + c) * 64 + d
    BY <1>2, <1>3, <1>4, <1>6
  <1>8. z = 0 => d = 0
    BY <1>0, <1>2
  <1>9. z = 0 /\ y = 0 => c = 0
    BY <1>0, <1>2, <1>3
  <1>10. letters(bits) = <<a, b, c, d>>
    BY DEF letters, a, b, c, d, shifted, twice
  <1>11. letters(bits) \in Seq(0..63) /\ Len(letters(bits)) = 4
    <2>1. <<a, b, c, d>> \in Seq(0..63)
      BY <1>2, <1>3, <1>4, <1>6
    <2>2. Len(<<a, b, c, d>>) = 4
      OBVIOUS
    <2> QED BY <1>10, <2>1, <2>2, Zenon
  <1>12. /\ letters(bits)[1] = a /\ letters(bits)[2] = b
         /\ letters(bits)[3] = c /\ letters(bits)[4] = d
    BY <1>10
  <1> QED BY <1>7, <1>8, <1>9, <1>11, <1>12

(* Between two bytes: the triples that are complete have their letters,    *)
(* and the container has what is left, with room for the next byte.        *)
Base64Inv ==
    /\ inBuf \in Seq(Bytes) /\ ret \in Seq(Written)
    /\ charCount = Len(inBuf) % 3 /\ encoded \in BOOLEAN
    /\ ~encoded =>
         /\ Len(ret) = 4 * (Len(inBuf) \div 3)
         /\ \A k \in 1..Len(ret) : ret[k] # PAD
         /\ \A t \in 0..(Len(ret) \div 4) - 1 : LettersOf(t) = BytesOf(t)
         /\ charCount = 0 => bitsContainer = 0
         /\ charCount = 1 => bitsContainer = inBuf[Len(inBuf)] * 256
         /\ charCount = 2 => bitsContainer = (inBuf[Len(inBuf) - 1] * 256 + inBuf[Len(inBuf)]) * 256
    /\ ContentIsKept

LEMMA DivisionByThree ==
    ASSUME NEW n \in Nat
    PROVE  n \div 3 \in Nat /\ n % 3 \in 0..2 /\ n = 3 * (n \div 3) + (n % 3)
  <1>1. n \div 3 \in Nat
    OBVIOUS
  <1>2. n % 3 \in 0..2
    OBVIOUS
  <1>3. n = 3 * (n \div 3) + (n % 3)
    OBVIOUS
  <1> QED BY <1>1, <1>2, <1>3

LEMMA TriplesOf ==
    ASSUME NEW q \in Nat, NEW c \in 0..2, NEW n, n = 3 * q + c
    PROVE  n \div 3 = q /\ n % 3 = c
  <1>1. n \div 3 = q
    OBVIOUS
  <1>2. n % 3 = c
    OBVIOUS
  <1> QED BY <1>1, <1>2

LEMMA FoursOf ==
    ASSUME NEW q \in Nat, NEW n, n = 4 * q
    PROVE  n \div 4 = q
  OBVIOUS

LEMMA FourMore ==
    ASSUME NEW S, NEW s \in Seq(S), NEW l \in Seq(S), Len(l) = 4
    PROVE  /\ s \o l \in Seq(S) /\ Len(s \o l) = Len(s) + 4
           /\ \A k \in 1..Len(s) : (s \o l)[k] = s[k]
           /\ \A k \in 1..4 : (s \o l)[Len(s) + k] = l[k]
  <1> DEFINE r == s \o l
  <1>1. /\ r \in Seq(S) /\ Len(r) = Len(s) + 4 /\ Len(s) \in Nat
        /\ \A i \in 1..Len(s) + 4 : r[i] = IF i <= Len(s) THEN s[i] ELSE l[i - Len(s)]
    <2>1. /\ r \in Seq(S) /\ Len(r) = Len(s) + Len(l)
          /\ \A i \in 1..Len(s) + Len(l) : r[i] = IF i <= Len(s) THEN s[i] ELSE l[i - Len(s)]
      BY ONLY s \in Seq(S), l \in Seq(S), ConcatProperties, Zenon
    <2>2. Len(s) \in Nat
      OBVIOUS
    <2> QED BY <2>1, <2>2, Zenon
  <1> HIDE DEF r
  <1>2. \A k \in 1..Len(s) : r[k] = s[k]
    BY <1>1
  <1>3. ASSUME NEW k \in 1..4 PROVE r[Len(s) + k] = l[k]
    <2>1. Len(s) + k \in 1..Len(s) + 4 /\ ~(Len(s) + k <= Len(s)) /\ (Len(s) + k) - Len(s) = k
      BY <1>1
    <2> QED BY <1>1, <2>1
  <1> QED BY <1>1, <1>2, <1>3 DEF r

LEMMA OneMore ==
    ASSUME NEW S, NEW s \in Seq(S), NEW e \in S
    PROVE  /\ Len(Append(s, e)) = Len(s) + 1 /\ Append(s, e)[Len(s) + 1] = e
           /\ \A k \in 1..Len(s) : Append(s, e)[k] = s[k] /\ s[k] \in S
  OBVIOUS

LEMMA LettersAreNotPadding ==
    ASSUME NEW l \in Seq(0..63), Len(l) = 4
    PROVE  /\ l \in Seq(Int) /\ l \in Seq(Written)
           /\ \A k \in 1..4 : l[k] \in 0..63 /\ l[k] # PAD
  <1>1. \A k \in 1..4 : l[k] \in 0..63
    BY ElementOfSeq
  <1>2. 0..63 \subseteq Int /\ 0..63 \subseteq Written
    BY DEF Written
  <1>3. \A S, T : S \subseteq T => Seq(S) \subseteq Seq(T)
    OBVIOUS
  <1>4. l \in Seq(Int) /\ l \in Seq(Written)
    BY <1>2, <1>3, Zenon
  <1>5. \A k \in 0..63 : k # PAD
    BY DEF PAD
  <1> QED BY <1>1, <1>4, <1>5, Zenon

(* Where the loop is, in triples.                                          *)
LEMMA Triples ==
    ASSUME Base64Inv, ~encoded
    PROVE  \E q \in Nat : /\ Len(inBuf) = 3 * q + charCount /\ Len(ret) = 4 * q
                         /\ charCount \in 0..2 /\ Len(ret) \div 4 = q
  <1>1. Len(inBuf) \in Nat /\ charCount = Len(inBuf) % 3 /\ Len(ret) = 4 * (Len(inBuf) \div 3)
    BY DEF Base64Inv
  <1> DEFINE n == Len(inBuf)
             q == n \div 3
  <1> HIDE DEF n
  <1>2. n \in Nat
    BY <1>1 DEF n
  <1>3. q \in Nat /\ n = 3 * q + (n % 3) /\ n % 3 \in 0..2 /\ (4 * q) \div 4 = q
    <2>1. n \div 3 \in Nat /\ n % 3 \in 0..2 /\ n = 3 * (n \div 3) + (n % 3)
      BY <1>2, DivisionByThree
    <2>2. (4 * q) \div 4 = q
      BY <2>1, FoursOf
    <2> QED BY <2>1, <2>2, Zenon
  <1> QED BY <1>1, <1>3 DEF n

(* What has been written stands for the same bytes when more is taken and  *)
(* more is written.                                                        *)
LEMMA WrittenStays ==
    ASSUME NEW q \in Nat, NEW l \in Seq(Int), NEW b \in Seq(Int),
           inBuf \in Seq(Bytes), ret \in Seq(Written),
           Len(ret) = 4 * q, 3 * q <= Len(inBuf),
           ret' = ret \o l, inBuf' = inBuf \o b,
           NEW t \in 0..q - 1, LettersOf(t) = BytesOf(t)
    PROVE  LettersOf(t)' = BytesOf(t)'
  <1>1. \A k \in 1..4 * q : ret'[k] = ret[k]
    BY DEF PAD
  <1>2. \A k \in 1..3 * q : k <= Len(inBuf) /\ k <= Len(inBuf') /\ inBuf'[k] = inBuf[k]
    OBVIOUS
  <1>3. /\ 4 * t + 1 \in 1..4 * q /\ 4 * t + 2 \in 1..4 * q /\ 4 * t + 3 \in 1..4 * q
        /\ 4 * t + 4 \in 1..4 * q
        /\ 3 * t + 1 \in 1..3 * q /\ 3 * t + 2 \in 1..3 * q /\ 3 * t + 3 \in 1..3 * q
    OBVIOUS
  <1>4. /\ Letter(4 * t + 1)' = Letter(4 * t + 1) /\ Letter(4 * t + 2)' = Letter(4 * t + 2)
        /\ Letter(4 * t + 3)' = Letter(4 * t + 3) /\ Letter(4 * t + 4)' = Letter(4 * t + 4)
    BY <1>1, <1>3, Zenon DEF Letter
  <1>5. /\ ByteAt(3 * t + 1)' = ByteAt(3 * t + 1) /\ ByteAt(3 * t + 2)' = ByteAt(3 * t + 2)
        /\ ByteAt(3 * t + 3)' = ByteAt(3 * t + 3)
    BY <1>2, <1>3, Zenon DEF ByteAt
  <1> QED BY <1>4, <1>5, ZenonT(60) DEF LettersOf, BytesOf

(* The letters that are written for the next triple.                       *)
LEMMA TripleIsWritten ==
    ASSUME NEW q \in Nat, NEW l \in Seq(Written), Len(l) = 4,
           ret \in Seq(Written), Len(ret) = 4 * q, ret' = ret \o l,
           NEW v \in [1..4 -> 0..63],
           \A k \in 1..4 : v[k] = IF l[k] = PAD THEN 0 ELSE l[k],
           ((v[1] * 64 + v[2]) * 64 + v[3]) * 64 + v[4] = BytesOf(q)'
    PROVE  LettersOf(q)' = BytesOf(q)'
  <1>1. \A k \in 1..4 : ret'[Len(ret) + k] = l[k]
    <2>1. \A k \in 1..4 : (ret \o l)[Len(ret) + k] = l[k]
      BY ONLY ret \in Seq(Written), l \in Seq(Written), Len(l) = 4, FourMore
    <2> QED BY <2>1, Zenon
  <1>2. \A k \in 1..4 : Letter(4 * q + k)' = v[k]
    BY <1>1, Zenon DEF Letter
  <1>3. 1 \in 1..4 /\ 2 \in 1..4 /\ 3 \in 1..4 /\ 4 \in 1..4
    OBVIOUS
  <1> QED BY <1>2, <1>3, Zenon DEF LettersOf

LEMMA TakesByteInv ==
    ASSUME Base64Inv, NEW currByte \in FileByte, TakesByte(currByte)
    PROVE  Base64Inv'
  <1> DEFINE n == Len(inBuf)
             bits == bitsContainer + currByte
  <1>1. /\ inBuf \in Seq(Bytes) /\ ret \in Seq(Written) /\ ~encoded /\ encoded' = FALSE
        /\ inBuf' = Append(inBuf, currByte) /\ currByte \in Bytes /\ n \in Nat
    BY BytesAssumption DEF TakesByte, Base64Inv, Bytes
  <1>2. /\ inBuf' \in Seq(Bytes) /\ Len(inBuf') = n + 1 /\ inBuf'[n + 1] = currByte
        /\ \A k \in 1..n : inBuf'[k] = inBuf[k] /\ inBuf[k] \in Bytes
    <2>1. Append(inBuf, currByte) \in Seq(Bytes)
      BY <1>1
    <2>2. /\ Len(Append(inBuf, currByte)) = Len(inBuf) + 1 /\ Append(inBuf, currByte)[Len(inBuf) + 1] = currByte
          /\ \A k \in 1..Len(inBuf) : Append(inBuf, currByte)[k] = inBuf[k]
      BY ONLY <1>1, OneMore
    <2>3. \A k \in 1..n : inBuf[k] \in Bytes
      BY ONLY <1>1, OneMore
    <2> QED BY <1>1, <2>1, <2>2, <2>3, Zenon
  <1>3. PICK q \in Nat : /\ n = 3 * q + charCount /\ Len(ret) = 4 * q
                         /\ charCount \in 0..2 /\ Len(ret) \div 4 = q
    BY <1>1, Triples
  <1>4. /\ \A k \in 1..Len(ret) : ret[k] # PAD
        /\ \A t \in 0..q - 1 : LettersOf(t) = BytesOf(t)
        /\ charCount = 0 => bitsContainer = 0
        /\ charCount = 1 => bitsContainer = inBuf[n] * 256
        /\ charCount = 2 => bitsContainer = (inBuf[n - 1] * 256 + inBuf[n]) * 256
    BY <1>1, <1>3 DEF Base64Inv
  <1>5. inBuf' = inBuf \o <<currByte>> /\ <<currByte>> \in Seq(Int)
    BY <1>1 DEF Bytes
  <1>6. ContentIsKept'
    BY <1>1 DEF ContentIsKept
  <1>7. 3 * q <= Len(inBuf)
    BY <1>3
  <1>8. CASE charCount = 2
    <2>1. /\ ret' = ret \o letters(bits) /\ bitsContainer' = 0 /\ charCount' = 0
      BY <1>8 DEF TakesByte, AfterTriple
    <2>2. /\ n - 1 \in 1..n /\ n \in 1..n
          /\ 3 * q + 1 = n - 1 /\ 3 * q + 2 = n /\ 3 * q + 3 = n + 1
      BY <1>1, <1>3, <1>8
    <2>3. /\ inBuf[n - 1] \in Bytes /\ inBuf[n] \in Bytes
          /\ bits = (inBuf[n - 1] * 256 + inBuf[n]) * 256 + currByte
      BY <1>2, <1>4, <1>8, <2>2
    <2>4. /\ letters(bits) \in Seq(0..63) /\ Len(letters(bits)) = 4
          /\ ((letters(bits)[1] * 64 + letters(bits)[2]) * 64 + letters(bits)[3]) * 64
             + letters(bits)[4] = bits
      <3>1. PICK x \in Bytes, y \in Bytes : x = inBuf[n - 1] /\ y = inBuf[n]
        BY <2>3
      <3> HIDE DEF bits
      <3>2. currByte \in Bytes /\ bits = (x * 256 + y) * 256 + currByte
        BY <1>1, <2>3, <3>1
      <3> QED BY ONLY <3>2, x \in Bytes, y \in Bytes, LettersOfBits
    <2> DEFINE l == letters(bits)
    <2>5. /\ l \in Seq(0..63) /\ Len(l) = 4 /\ ret' = ret \o l
          /\ ((l[1] * 64 + l[2]) * 64 + l[3]) * 64 + l[4] = bits
      BY <2>1, <2>4, Zenon
    <2> HIDE DEF l, bits
    <2>6. /\ l \in Seq(Int) /\ l \in Seq(Written) /\ \A k \in 1..4 : l[k] \in 0..63
      BY <2>5, LettersAreNotPadding
    <2>7. \A k \in 1..4 : l[k] # PAD
      BY <2>5, LettersAreNotPadding
    <2>8. /\ ret' \in Seq(Written) /\ Len(ret') = Len(ret) + 4
          /\ \A k \in 1..Len(ret) : ret'[k] = ret[k]
          /\ \A k \in 1..4 : ret'[Len(ret) + k] = l[k]
      <3>1. /\ ret \o l \in Seq(Written) /\ Len(ret \o l) = Len(ret) + 4
            /\ \A k \in 1..Len(ret) : (ret \o l)[k] = ret[k]
            /\ \A k \in 1..4 : (ret \o l)[Len(ret) + k] = l[k]
        <4>1. ret \in Seq(Written) /\ l \in Seq(Written) /\ Len(l) = 4
          BY <1>1, <2>5, <2>6
        <4> QED BY ONLY <4>1, FourMore
      <3> QED BY <2>5, <3>1, Zenon
    <2>9. ASSUME NEW k \in 1..Len(ret') PROVE ret'[k] # PAD
      <3>1. k \in 1..Len(ret) \/ \E i \in 1..4 : k = Len(ret) + i
        <4>1. Len(ret) \in Nat /\ k \in 1..Len(ret) + 4
          BY <1>3, <2>8
        <4>2. k \in 1..Len(ret) \/ (k - Len(ret) \in 1..4 /\ k = Len(ret) + (k - Len(ret)))
          BY <4>1
        <4> QED BY <4>2
      <3> QED BY <1>4, <2>7, <2>8, <3>1
    <2>10. /\ inBuf'[3 * q + 1] = inBuf[n - 1] /\ inBuf'[3 * q + 2] = inBuf[n]
           /\ inBuf'[3 * q + 3] = currByte
      <3>1. inBuf'[n - 1] = inBuf[n - 1] /\ inBuf'[n] = inBuf[n]
        BY ONLY <1>2, <2>2
      <3> QED BY <1>2, <2>2, <3>1
    <2>11. BytesOf(q)' = bits
      <3>1. 3 * q + 1 <= Len(inBuf') /\ 3 * q + 2 <= Len(inBuf') /\ 3 * q + 3 <= Len(inBuf')
        BY <1>1, <1>2, <2>2
      <3>2. /\ ByteAt(3 * q + 1)' = inBuf[n - 1] /\ ByteAt(3 * q + 2)' = inBuf[n]
            /\ ByteAt(3 * q + 3)' = currByte
        BY <2>10, <3>1, Zenon DEF ByteAt
      <3>3. BytesOf(q)' = (inBuf[n - 1] * 256 + inBuf[n]) * 256 + currByte
        BY <3>2, Zenon DEF BytesOf
      <3> QED BY <2>3, <3>3, Zenon
    <2>12. LettersOf(q)' = BytesOf(q)'
      <3> DEFINE v == [k \in 1..4 |-> l[k]]
      <3>1. v \in [1..4 -> 0..63] /\ \A k \in 1..4 : v[k] = IF l[k] = PAD THEN 0 ELSE l[k]
        BY <2>6, <2>7
      <3>2. v[1] = l[1] /\ v[2] = l[2] /\ v[3] = l[3] /\ v[4] = l[4]
        OBVIOUS
      <3>3. ((v[1] * 64 + v[2]) * 64 + v[3]) * 64 + v[4] = BytesOf(q)'
        BY <2>5, <2>11, <3>2
      <3> HIDE DEF v
      <3> QED BY <1>1, <1>3, <2>5, <2>6, <3>1, <3>3, TripleIsWritten
    <2>13. \A t \in 0..q - 1 : LettersOf(t)' = BytesOf(t)'
      <3> TAKE t \in 0..q - 1
      <3>1. LettersOf(t) = BytesOf(t)
        BY <1>4
      <3> QED BY <1>1, <1>3, <1>5, <1>7, <2>5, <2>6, <3>1, WrittenStays
    <2>14. Len(inBuf') = 3 * (q + 1) + 0 /\ Len(ret') = 4 * (q + 1) /\ q + 1 \in Nat /\ 0 \in 0..2
      <3>1. q \in Nat /\ Len(inBuf') = 3 * q + 3 /\ Len(ret') = 4 * q + 4
        BY <1>2, <1>3, <2>2, <2>8
      <3> QED BY ONLY <3>1
    <2>15. /\ Len(inBuf') % 3 = 0 /\ Len(inBuf') \div 3 = q + 1 /\ Len(ret') \div 4 = q + 1
      BY <2>14, TriplesOf, FoursOf
    <2>16. \A t \in 0..(q + 1) - 1 : LettersOf(t)' = BytesOf(t)'
      BY <2>12, <2>13
    <2>17. Len(ret') = 4 * (Len(inBuf') \div 3)
      BY <2>14, <2>15
    <2>18. \A t \in 0..(Len(ret') \div 4) - 1 : LettersOf(t)' = BytesOf(t)'
      BY <2>15, <2>16
    <2>19. /\ charCount' = Len(inBuf') % 3 /\ bitsContainer' = 0
           /\ charCount' # 1 /\ charCount' # 2
      BY <2>1, <2>15
    <2> QED BY <1>1, <1>2, <1>6, <2>8, <2>9, <2>17, <2>18, <2>19, Zenon DEF Base64Inv
  <1>9. CASE charCount < 2
    <2>1. /\ ret' = ret /\ bitsContainer' = bits * 256 /\ charCount' = charCount + 1
      BY <1>3, <1>9 DEF TakesByte
    <2>2. /\ Len(inBuf') = 3 * q + charCount' /\ charCount' \in 1..2 /\ charCount' \in 0..2
      BY <1>2, <1>3, <1>9, <2>1
    <2>3. Len(inBuf') % 3 = charCount' /\ Len(inBuf') \div 3 = q
      BY <2>2, TriplesOf
    <2>4. ret' = ret \o <<>> /\ <<>> \in Seq(Int)
      BY <1>1, <2>1
    <2>5. \A t \in 0..q - 1 : LettersOf(t)' = BytesOf(t)'
      <3> TAKE t \in 0..q - 1
      <3>1. LettersOf(t) = BytesOf(t)
        BY <1>4
      <3> QED BY <1>1, <1>3, <1>5, <1>7, <2>4, <3>1, WrittenStays
    <2>6. charCount' = 1 => bitsContainer' = inBuf'[Len(inBuf')] * 256
      <3> SUFFICES ASSUME charCount = 0 PROVE bitsContainer' = currByte * 256
        BY <1>1, <1>2, <1>3, <2>1
      <3> QED BY <1>1, <1>4, <2>1 DEF Bytes
    <2>7. charCount' = 2 => bitsContainer' = (inBuf'[Len(inBuf') - 1] * 256 + inBuf'[Len(inBuf')]) * 256
      <3> SUFFICES ASSUME charCount = 1 PROVE bitsContainer' = (inBuf'[n] * 256 + currByte) * 256
        BY <1>1, <1>2, <1>3, <2>1
      <3>1. n \in 1..n
        BY <1>1, <1>3
      <3> QED BY <1>2, <1>4, <2>1, <3>1
    <2>8. \A k \in 1..Len(ret') : ret'[k] # PAD
      BY <1>4, <2>1
    <2>9. Len(ret') = 4 * (Len(inBuf') \div 3)
      BY <1>3, <2>1, <2>3
    <2>10. \A t \in 0..(Len(ret') \div 4) - 1 : LettersOf(t)' = BytesOf(t)'
      BY <1>3, <2>1, <2>5
    <2>11. charCount' = Len(inBuf') % 3 /\ charCount' # 0
      <3>1. charCount' # 0
        BY <2>2
      <3> QED BY <2>3, <3>1, Zenon
    <2>12. ret' \in Seq(Written)
      BY <1>1, <2>1, Zenon
    <2> QED BY <1>1, <1>2, <1>6, <2>6, <2>7, <2>8, <2>9, <2>10, <2>11, <2>12, Zenon DEF Base64Inv
  <1> QED BY <1>3, <1>8, <1>9
(* Which letters of the text are padding when the last triple is not whole.*)
LEMMA PaddingTells ==
    ASSUME NEW q \in Nat, NEW c \in 1..2, NEW w \in Seq(Written), Len(w) = 4,
           ret \in Seq(Written), Len(ret) = 4 * q, \A k \in 1..Len(ret) : ret[k] # PAD,
           ret' = ret \o w, w[1] # PAD, w[2] # PAD, w[3] = PAD <=> c = 1, w[4] = PAD
    PROVE  /\ ret' \in Seq(Written) /\ Len(ret') = 4 * (q + 1)
           /\ \A k \in 1..Len(ret') : ret'[k] = PAD <=> 6 * (k - 1) >= 8 * (3 * q + c)
  <1>1. /\ ret' \in Seq(Written) /\ Len(ret') = Len(ret) + 4
        /\ \A k \in 1..Len(ret) : ret'[k] = ret[k]
        /\ \A k \in 1..4 : ret'[Len(ret) + k] = w[k]
    <2>1. /\ ret \o w \in Seq(Written) /\ Len(ret \o w) = Len(ret) + 4
          /\ \A k \in 1..Len(ret) : (ret \o w)[k] = ret[k]
          /\ \A k \in 1..4 : (ret \o w)[Len(ret) + k] = w[k]
      <3>1. ret \in Seq(Written) /\ w \in Seq(Written) /\ Len(w) = 4
        OBVIOUS
      <3> QED BY ONLY <3>1, FourMore
    <2> QED BY <2>1, Zenon
  <1>2. Len(ret') = 4 * (q + 1) /\ Len(ret') = 4 * q + 4
    BY <1>1
  <1>3. ASSUME NEW k \in 1..Len(ret)
        PROVE  ret'[k] # PAD /\ ~(6 * (k - 1) >= 8 * (3 * q + c))
    BY <1>1
  <1>4. /\ 1 \in 1..4 /\ 2 \in 1..4 /\ 3 \in 1..4 /\ 4 \in 1..4
    OBVIOUS
  <1>5. /\ ret'[Len(ret) + 1] # PAD /\ ret'[Len(ret) + 2] # PAD
        /\ ret'[Len(ret) + 3] = PAD <=> c = 1
        /\ ret'[Len(ret) + 4] = PAD
    BY <1>1, <1>4, Zenon
  <1> DEFINE Late(k) == 6 * (k - 1) >= 8 * (3 * q + c)
  <1>6. /\ ~Late(Len(ret) + 1) /\ ~Late(Len(ret) + 2)
        /\ Late(Len(ret) + 3) <=> c = 1
        /\ Late(Len(ret) + 4)
    <2>1. ~Late(Len(ret) + 1) /\ ~Late(Len(ret) + 2) /\ Late(Len(ret) + 4)
      OBVIOUS
    <2>2. Late(Len(ret) + 3) <=> c = 1
      <3>1. CASE c = 1
        BY <3>1
      <3>2. CASE c = 2
        BY <3>2
      <3> QED BY <3>1, <3>2
    <2> QED BY <2>1, <2>2, Zenon
  <1> HIDE DEF Late
  <1>8. ASSUME NEW k \in Len(ret) + 1..Len(ret) + 4
        PROVE  ret'[k] = PAD <=> Late(k)
    <2>1. \/ k = Len(ret) + 1 \/ k = Len(ret) + 2 \/ k = Len(ret) + 3 \/ k = Len(ret) + 4
      OBVIOUS
    <2> QED BY <1>5, <1>6, <2>1, Zenon
  <1>7. \A k \in 1..Len(ret') : k \in 1..Len(ret) \/ k \in Len(ret) + 1..Len(ret) + 4
    BY <1>1
  <1> QED BY <1>1, <1>2, <1>3, <1>7, <1>8, Zenon DEF Late
(* The letters of a triple that is not whole.                              *)
LEMMA RestIsWritten ==
    ASSUME Base64Inv, Returns64, charCount > 0
    PROVE  Base64Inv'
  <1>1. /\ inBuf \in Seq(Bytes) /\ ret \in Seq(Written) /\ ~encoded
        /\ encoded' = TRUE /\ inBuf' = inBuf /\ charCount' = charCount
        /\ bitsContainer' = bitsContainer * (IF charCount = 1 THEN 256 ELSE 1)
        /\ ret' = ret \o padded(bitsContainer')
    BY DEF Returns64, Base64Inv
  <1> DEFINE n == Len(inBuf)
  <1>2. PICK q \in Nat : /\ n = 3 * q + charCount /\ Len(ret) = 4 * q
                         /\ charCount \in 0..2 /\ Len(ret) \div 4 = q
    BY <1>1, Triples
  <1>3. charCount \in 1..2 /\ n \in Nat /\ n \in 1..n /\ 3 * q <= n
    BY <1>2
  <1>4. /\ \A k \in 1..Len(ret) : ret[k] # PAD
        /\ \A t \in 0..q - 1 : LettersOf(t) = BytesOf(t)
        /\ charCount = 1 => bitsContainer = inBuf[n] * 256
        /\ charCount = 2 => bitsContainer = (inBuf[n - 1] * 256 + inBuf[n]) * 256
    BY <1>1, <1>2 DEF Base64Inv
  <1>5. PICK x, y \in Bytes :
            /\ bitsContainer' = (x * 256 + y) * 256 + 0
            /\ ByteAt(3 * q + 1) = x /\ ByteAt(3 * q + 2) = y /\ ByteAt(3 * q + 3) = 0
            /\ charCount = 1 => y = 0
    <2>1. ~(3 * q + 3 <= n) /\ 3 * q + 1 \in 1..n /\ 3 * q + 1 <= n
      BY <1>2, <1>3
    <2>2. \A k \in 1..n : inBuf[k] \in Bytes
      BY <1>1, ElementOfSeq
    <2>3. 0 \in Bytes /\ \A k \in Bytes : k \in Nat
      BY DEF Bytes
    <2>4. ByteAt(3 * q + 1) = inBuf[3 * q + 1] /\ ByteAt(3 * q + 3) = 0
      BY <2>1 DEF ByteAt
    <2>5. CASE charCount = 1
      <3>1. ~(3 * q + 2 <= n) /\ 3 * q + 1 = n
        BY <1>2, <2>5
      <3>2. ByteAt(3 * q + 2) = 0
        BY <3>1 DEF ByteAt
      <3>3. /\ ByteAt(3 * q + 1) = inBuf[n] /\ inBuf[n] \in Bytes
        BY <1>3, <2>2, <2>4, <3>1
      <3>4. bitsContainer' = (inBuf[n] * 256 + 0) * 256 + 0
        BY <1>1, <1>4, <2>3, <2>5, <3>3
      <3> QED BY <2>3, <2>4, <3>2, <3>3, <3>4, Zenon
    <2>6. CASE charCount = 2
      <3>1. 3 * q + 2 <= n /\ 3 * q + 2 = n /\ 3 * q + 1 = n - 1 /\ n - 1 \in 1..n
        BY <1>2, <2>6
      <3>2. ByteAt(3 * q + 2) = inBuf[n]
        BY <3>1 DEF ByteAt
      <3>3. /\ ByteAt(3 * q + 1) = inBuf[n - 1] /\ inBuf[n] \in Bytes /\ inBuf[n - 1] \in Bytes
        BY <1>3, <2>2, <2>4, <3>1
      <3>4. bitsContainer' = (inBuf[n - 1] * 256 + inBuf[n]) * 256 + 0
        BY <1>1, <1>4, <2>3, <2>6, <3>3
      <3>5. charCount # 1
        BY <2>6
      <3> QED BY <2>4, <3>2, <3>3, <3>4, <3>5, ZenonT(60)
    <2> QED BY <1>3, <2>5, <2>6
  <1> DEFINE bits == bitsContainer'
             l == letters(bits)
             w == padded(bits)
  <1> HIDE DEF bits
  <1>6. /\ l \in Seq(0..63) /\ Len(l) = 4
        /\ ((l[1] * 64 + l[2]) * 64 + l[3]) * 64 + l[4] = bits
        /\ l[4] = 0
        /\ y = 0 => l[3] = 0
    <2>1. bits = (x * 256 + y) * 256 + 0 /\ 0 \in Bytes
      BY <1>5 DEF bits, Bytes
    <2>2. /\ 0 = 0 => l[4] = 0
          /\ 0 = 0 /\ y = 0 => l[3] = 0
          /\ l \in Seq(0..63) /\ Len(l) = 4
          /\ ((l[1] * 64 + l[2]) * 64 + l[3]) * 64 + l[4] = bits
      BY ONLY <2>1, x \in Bytes, y \in Bytes, LettersOfBits
    <2> QED BY <2>2
  <1> HIDE DEF l
  <1>7. w = <<l[1], l[2], IF charCount = 1 THEN PAD ELSE l[3], PAD>>
    BY DEF padded, l
  <1>8. \A k \in 1..4 : l[k] \in 0..63 /\ l[k] # PAD
    BY <1>6, LettersAreNotPadding
  <1>9. /\ w \in Seq(Written) /\ Len(w) = 4 /\ w[1] = l[1] /\ w[2] = l[2]
        /\ w[3] = IF charCount = 1 THEN PAD ELSE l[3]
        /\ w[4] = PAD
    <2>1. \A i, j, k, m \in Written : <<i, j, k, m>> \in Seq(Written)
      OBVIOUS
    <2>2. /\ l[1] \in Written /\ l[2] \in Written /\ PAD \in Written
          /\ (IF charCount = 1 THEN PAD ELSE l[3]) \in Written
      BY <1>8 DEF Written
    <2>3. w \in Seq(Written)
      BY <1>7, <2>1, <2>2, Zenon
    <2> QED BY <1>7, <2>3
  <1> HIDE DEF w
  <1>10. /\ w[1] # PAD /\ w[2] # PAD /\ (w[3] = PAD <=> charCount = 1)
         /\ ret' = ret \o w
    BY <1>1, <1>8, <1>9 DEF w, bits
  <1>11. /\ ret' \in Seq(Written) /\ Len(ret') = 4 * (q + 1)
         /\ \A k \in 1..Len(ret') : ret'[k] = PAD <=> 6 * (k - 1) >= 8 * (3 * q + charCount)
    BY <1>1, <1>2, <1>3, <1>4, <1>9, <1>10, PaddingTells
  <1>12. LettersOf(q)' = BytesOf(q)'
    <2> DEFINE v == [k \in 1..4 |-> IF w[k] = PAD THEN 0 ELSE w[k]]
    <2>1. v[1] = l[1] /\ v[2] = l[2] /\ v[3] = l[3] /\ v[4] = l[4]
      <3>1. v[1] = l[1] /\ v[2] = l[2]
        BY <1>9, <1>10
      <3>2. v[3] = l[3]
        <4>1. CASE charCount = 1
          <5>1. w[3] = PAD /\ l[3] = 0
            BY <1>5, <1>6, <1>9, <4>1
          <5> QED BY <5>1
        <4>2. CASE charCount # 1
          <5>1. w[3] = l[3] /\ w[3] # PAD
            BY <1>8, <1>9, <4>2
          <5> QED BY <5>1
        <4> QED BY <4>1, <4>2
      <3>3. v[4] = l[4]
        <4>1. w[4] = PAD /\ l[4] = 0
          BY <1>6, <1>9
        <4> QED BY <4>1
      <3> QED BY <3>1, <3>2, <3>3
    <2>4. /\ v \in [1..4 -> 0..63]
          /\ \A k \in 1..4 : v[k] = IF w[k] = PAD THEN 0 ELSE w[k]
      BY <1>8, <2>1
    <2> HIDE DEF v
    <2>2. BytesOf(q)' = (x * 256 + y) * 256 + 0
      <3>1. \A k : ByteAt(k)' = ByteAt(k)
        BY <1>1 DEF ByteAt
      <3> QED BY <1>5, <3>1, Zenon DEF BytesOf
    <2>3. ((v[1] * 64 + v[2]) * 64 + v[3]) * 64 + v[4] = BytesOf(q)'
      BY <1>5, <1>6, <2>1, <2>2, Zenon DEF bits
    <2> QED BY <1>1, <1>2, <1>9, <1>10, <2>4, <2>3, TripleIsWritten
  <1>13. \A t \in 0..q - 1 : LettersOf(t)' = BytesOf(t)'
    <2> TAKE t \in 0..q - 1
    <2>1. LettersOf(t) = BytesOf(t)
      BY <1>4
    <2>2. inBuf' = inBuf \o <<>> /\ <<>> \in Seq(Int) /\ w \in Seq(Int)
      <3>1. inBuf' = inBuf \o <<>> /\ <<>> \in Seq(Int)
        BY <1>1
      <3>2. Written \subseteq Int
        BY DEF Written, PAD
      <3> HIDE DEF w
      <3>3. w \in Seq(Int)
        <4>1. w \in Seq(Written)
          BY <1>9
        <4>2. \A S, T : S \subseteq T => Seq(S) \subseteq Seq(T)
          OBVIOUS
        <4> QED BY <3>2, <4>1, <4>2, Zenon
      <3> QED BY <3>1, <3>3
    <2> QED BY <1>1, <1>2, <1>3, <1>10, <2>1, <2>2, WrittenStays
  <1>14. Len(ret') \div 4 = q + 1 /\ Len(ret') = base64_encoded_length(Len(inBuf'))
    <2>1. Len(ret') \div 4 = q + 1
      BY <1>11, FoursOf
    <2>2. PICK c \in 0..2 : n + 2 = 3 * (q + 1) + c
      <3>1. CASE charCount = 1
        BY <1>2, <3>1
      <3>2. CASE charCount = 2
        BY <1>2, <3>2
      <3> QED BY <1>3, <3>1, <3>2
    <2>3. (Len(inBuf) + 2) \div 3 = q + 1
      <3>1. q + 1 \in Nat
        OBVIOUS
      <3> QED BY ONLY <2>2, <3>1, TriplesOf
    <2>4. (q + 1) * 4 = 4 * (q + 1)
      OBVIOUS
    <2> QED BY <1>1, <1>11, <2>1, <2>3, <2>4, Zenon DEF base64_encoded_length
  <1>15. \A t \in 0..(Len(ret') \div 4) - 1 : LettersOf(t)' = BytesOf(t)'
    BY <1>12, <1>13, <1>14
  <1>16. \A k \in 1..Len(ret') : ret'[k] = PAD <=> 6 * (k - 1) >= 8 * Len(inBuf')
    BY <1>1, <1>2, <1>11, ZenonT(60)
  <1>17. ContentIsKept'
    BY <1>14, <1>15, <1>16, Zenon DEF ContentIsKept
  <1>18. /\ inBuf' \in Seq(Bytes) /\ ret' \in Seq(Written)
         /\ charCount' = Len(inBuf') % 3 /\ encoded' \in BOOLEAN
    BY <1>1, <1>11, Zenon DEF Base64Inv
  <1> QED BY <1>1, <1>17, <1>18, Zenon DEF Base64Inv
LEMMA SameText ==
    ASSUME inBuf' = inBuf, ret' = ret
    PROVE  \A t : LettersOf(t)' = LettersOf(t) /\ BytesOf(t)' = BytesOf(t)
  <1>1. \A k : ByteAt(k)' = ByteAt(k)
    BY DEF ByteAt
  <1>2. \A k : Letter(k)' = Letter(k)
    BY DEF Letter
  <1> QED BY <1>1, <1>2, Zenon DEF LettersOf, BytesOf

LEMMA Returns64Inv ==
    ASSUME Base64Inv, Returns64
    PROVE  Base64Inv'
  <1>1. /\ inBuf \in Seq(Bytes) /\ ret \in Seq(Written) /\ ~encoded
        /\ encoded' = TRUE /\ inBuf' = inBuf /\ charCount' = charCount
    BY DEF Returns64, Base64Inv
  <1>2. PICK q \in Nat : /\ Len(inBuf) = 3 * q + charCount /\ Len(ret) = 4 * q
                         /\ charCount \in 0..2 /\ Len(ret) \div 4 = q
    BY <1>1, Triples
  <1>3. CASE charCount > 0
    BY <1>3, RestIsWritten
  <1>4. CASE charCount = 0
    <2>1. ret' = ret
      BY <1>4 DEF Returns64
    <2>2. /\ \A k \in 1..Len(ret) : ret[k] # PAD
          /\ \A t \in 0..(Len(ret) \div 4) - 1 : LettersOf(t) = BytesOf(t)
      BY <1>1 DEF Base64Inv
    <2>3. Len(ret) = base64_encoded_length(Len(inBuf))
      <3>1. PICK c \in 0..2 : Len(inBuf) + 2 = 3 * q + c
        BY <1>2, <1>4
      <3>2. (Len(inBuf) + 2) \div 3 = q
        BY ONLY <3>1, q \in Nat, TriplesOf
      <3>3. q * 4 = 4 * q
        OBVIOUS
      <3> QED BY <1>2, <3>2, <3>3, Zenon DEF base64_encoded_length
    <2>4. \A k \in 1..Len(ret) : ~(6 * (k - 1) >= 8 * Len(inBuf))
      BY <1>2, <1>4
    <2>5. \A t : LettersOf(t)' = LettersOf(t) /\ BytesOf(t)' = BytesOf(t)
      BY <1>1, <2>1, SameText
    <2>6. ContentIsKept'
      BY <1>1, <2>1, <2>2, <2>3, <2>4, <2>5, Zenon DEF ContentIsKept
    <2>7. charCount = Len(inBuf) % 3
      BY DEF Base64Inv
    <2> QED BY <1>1, <2>1, <2>6, <2>7, Zenon DEF Base64Inv
  <1> QED BY <1>2, <1>3, <1>4

LEMMA Base64Invariance == Base64Spec => []Base64Inv
  <1>1. ASSUME Base64Init PROVE Base64Inv
    <2>1. /\ inBuf = <<>> /\ ret = <<>> /\ Len(inBuf) = 0 /\ Len(ret) = 0 /\ charCount = 0
          /\ bitsContainer = 0 /\ encoded = FALSE
      BY <1>1 DEF Base64Init
    <2>2. /\ 0 % 3 = 0 /\ 0 = 4 * (0 \div 3) /\ (0 \div 4) - 1 = -1
          /\ \A k \in 1..0 : FALSE
      OBVIOUS
    <2>3. \A t \in 0..-1 : FALSE
      OBVIOUS
    <2>4. inBuf \in Seq(Bytes) /\ ret \in Seq(Written)
      BY <2>1
    <2>5. charCount # 1 /\ charCount # 2
      BY <2>1
    <2>6. Len(ret) = 4 * (Len(inBuf) \div 3) /\ charCount = Len(inBuf) % 3
      BY <2>1, <2>2, Zenon
    <2>7. \A t \in 0..(Len(ret) \div 4) - 1 : FALSE
      BY <2>1, <2>2, <2>3, Zenon
    <2>8. \A k \in 1..Len(ret) : FALSE
      BY <2>1, <2>2, Zenon
    <2> QED BY <2>1, <2>4, <2>5, <2>6, <2>7, <2>8, Zenon DEF Base64Inv, ContentIsKept
  <1>2. Base64Inv /\ [Base64Next]_base64Vars => Base64Inv'
    <2> SUFFICES ASSUME Base64Inv, [Base64Next]_base64Vars PROVE Base64Inv'
      OBVIOUS
    <2>1. CASE UNCHANGED base64Vars
      <3>1. /\ inBuf' = inBuf /\ bitsContainer' = bitsContainer /\ charCount' = charCount
            /\ ret' = ret /\ encoded' = encoded
        BY <2>1 DEF base64Vars
      <3>2. \A t : LettersOf(t)' = LettersOf(t) /\ BytesOf(t)' = BytesOf(t)
        BY <3>1, SameText
      <3> QED BY <3>1, <3>2, Zenon DEF Base64Inv, ContentIsKept
    <2> QED BY <2>1, TakesByteInv, Returns64Inv DEF Base64Next
  <1> QED BY <1>1, <1>2, PTL DEF Base64Spec

(* base64_encode: whatever has been read of a file, the text that is made  *)
(* of it stands for all of its bytes in their order and for no other, and  *)
(* is as long as the string it is written to.                              *)
THEOREM FileContentIsKept == Base64Spec => []ContentIsKept
  <1>1. Base64Inv => ContentIsKept
    BY DEF Base64Inv
  <1> QED BY <1>1, Base64Invariance, PTL

-----------------------------------------------------------------------------
(* Texts of the registry (RegistryText).                                   *)

(* What has been told are the low bytes of the first n characters.         *)
Prefix(n) == Len(value) = n /\ \A k \in 1..n : value[k] = Low(k)

(* n characters, at which the loop is or of which it has passed the end.   *)
SingleSoFar(n) ==
    /\ n = place - 1 \/ (n = place - 2 /\ IsZero(n + 1))
    /\ \A k \in 1..n : ~IsZero(k)

LinesOK ==
    /\ Len(value) = place - 1
    /\ \A k \in 1..place - 1 : value[k] = IF IsZero(k) THEN NewLine ELSE Low(k)

(* Only the last character may have been passed although the texts are     *)
(* over.                                                                   *)
LoopOK ==
    /\ rv_type = "REG_MULTI_SZ" => LinesOK
    /\ rv_type # "REG_MULTI_SZ" => \A n \in Nat : SingleSoFar(n) => Prefix(n)
    /\ \A k \in 1..place - 1 : Over(k) => k = Len(data_blob)

Chars == [low : Bytes, high : Bytes]

TextTypes ==
    /\ data_blob \in Seq(Chars) /\ value \in Seq(Bytes)
    /\ place \in 1..Len(data_blob) + 1 /\ doing \in {"blob", "loop", "told"}

TextInv ==
    /\ TextTypes
    /\ doing = "blob" => place = 1 /\ value = <<>>
    /\ doing = "loop" => LoopOK
    /\ LowBytesAreTold

LEMMA PrefixIsText ==
    ASSUME TextTypes, NEW n \in 0..Len(data_blob), Prefix(n)
    PROVE  value = [k \in 1..n |-> Low(k)]
  <1>1. value \in Seq(Bytes) /\ Len(value) = n /\ \A k \in 1..n : value[k] = Low(k)
    BY DEF TextTypes, Prefix
  <1>2. value = [k \in 1..Len(value) |-> value[k]]
    BY <1>1
  <1> QED BY <1>1, <1>2

(* A character more, at the end of what has been told.                     *)
LEMMA CharacterInv ==
    ASSUME TextInv, Character
    PROVE  TextInv'
  <1>1. /\ doing = "loop" /\ doing' = "loop" /\ TextTypes /\ LoopOK
        /\ place \in 1..Len(data_blob) /\ ~IsZero(place) /\ place' = place + 1
        /\ value' = Append(value, Low(place))
        /\ data_blob' = data_blob /\ rv_type' = rv_type
    BY DEF TextInv, TextTypes, Character, IsZero
  <1>2. /\ value \in Seq(Bytes) /\ Len(value) \in Nat /\ Low(place) \in Bytes
        /\ data_blob \in Seq(Chars) /\ Len(data_blob) \in Nat /\ place \in Nat
    <2>1. data_blob[place] \in Chars
      BY <1>1 DEF TextTypes
    <2>2. Low(place) \in Bytes
      BY <2>1 DEF Low, Chars
    <2> QED BY <1>1, <2>2 DEF TextTypes
  <1>3. /\ value' \in Seq(Bytes) /\ Len(value') = Len(value) + 1
        /\ \A k \in 1..Len(value) : value'[k] = value[k]
        /\ value'[Len(value) + 1] = Low(place)
    BY <1>1, <1>2
  <1>4. TextTypes'
    BY <1>1, <1>2, <1>3 DEF TextTypes
  <1>5. \A k : Low(k)' = Low(k) /\ IsZero(k)' = IsZero(k) /\ Over(k)' = Over(k)
    BY <1>1 DEF Low, IsZero, Over
  <1>6. ~Over(place)
    BY <1>1 DEF Over
  <1>7. ASSUME rv_type = "REG_MULTI_SZ" PROVE LinesOK'
    <2>1. LinesOK
      BY <1>1, <1>7 DEF LoopOK
    <2>2. Len(value') = place' - 1
      BY <1>1, <1>2, <1>3, <2>1 DEF LinesOK
    <2>3. ASSUME NEW k \in 1..place' - 1
          PROVE  value'[k] = IF IsZero(k) THEN NewLine ELSE Low(k)
      <3>1. k \in 1..place - 1 \/ k = place
        BY <1>1, <1>2
      <3>2. CASE k \in 1..place - 1
        BY <1>3, <2>1, <3>2 DEF LinesOK
      <3>3. CASE k = place
        BY <1>1, <1>2, <1>3, <2>1, <3>3 DEF LinesOK
      <3> QED BY <3>1, <3>2, <3>3
    <2> QED BY <1>1, <1>5, <2>2, <2>3 DEF LinesOK
  <1>8. ASSUME rv_type # "REG_MULTI_SZ", NEW n \in Nat, SingleSoFar(n)' PROVE Prefix(n)'
    <2>1. n = place /\ \A k \in 1..place : ~IsZero(k)
      BY <1>1, <1>2, <1>5, <1>8 DEF SingleSoFar
    <2>2. place - 1 \in Nat /\ SingleSoFar(place - 1)
      BY <1>2, <1>1, <2>1 DEF SingleSoFar
    <2>3. Prefix(place - 1)
      BY <1>1, <1>8, <2>2 DEF LoopOK
    <2>4. Len(value') = n
      BY <1>2, <1>3, <2>1, <2>3 DEF Prefix
    <2>5. ASSUME NEW k \in 1..n PROVE value'[k] = Low(k)
      <3>1. k \in 1..place - 1 \/ k = place
        BY <1>2, <2>1
      <3> QED BY <1>2, <1>3, <2>3, <3>1 DEF Prefix
    <2> QED BY <1>1, <1>5, <2>4, <2>5 DEF Prefix
  <1>9. \A k \in 1..place' - 1 : Over(k) => k = Len(data_blob)
    <2>1. \A k \in 1..place' - 1 : k \in 1..place - 1 \/ k = place
      BY <1>1, <1>2
    <2> QED BY <1>1, <1>6, <2>1 DEF LoopOK
  <1>10. LoopOK'
    BY <1>1, <1>5, <1>7, <1>8, <1>9 DEF LoopOK
  <1> QED BY <1>1, <1>4, <1>10 DEF TextInv, LowBytesAreTold

(* The loop stops with the end of a text that another end follows, or      *)
(* nothing.                                                                *)
LEMMA SeveralAreTold ==
    ASSUME TextInv, doing = "loop", rv_type = "REG_MULTI_SZ",
           rv_type' = rv_type, data_blob' = data_blob, value' = Append(value, NewLine),
           place \in 1..Len(data_blob), Over(place)
    PROVE  LowBytesAreTold'
  <1>1. /\ TextTypes /\ LinesOK /\ Over(place)
        /\ \A k \in 1..place - 1 : Over(k) => k = Len(data_blob)
    BY DEF TextInv, LoopOK
  <1>2. /\ value \in Seq(Bytes) /\ Len(value) = place - 1 /\ place \in Nat
        /\ Len(data_blob) \in Nat /\ place <= Len(data_blob)
    BY <1>1 DEF TextTypes, LinesOK
  <1>3. /\ Len(value') = place /\ value'[place] = NewLine
        /\ \A k \in 1..place - 1 : value'[k] = value[k]
    BY <1>2 DEF NewLine, Bytes
  <1>4. ASSUME NEW k \in 1..place
        PROVE  /\ value'[k] = IF IsZero(k) THEN NewLine ELSE Low(k)
               /\ Over(k) => k = place
    <2>1. k \in 1..place - 1 \/ k = place
      BY <1>2
    <2>2. CASE k = place
      BY <1>1, <1>3, <2>2 DEF Over
    <2>3. CASE k \in 1..place - 1
      <3>1. ~Over(k)
        BY <1>1, <1>2, <2>3
      <3> QED BY <1>1, <1>3, <2>3, <3>1 DEF LinesOK
    <2> QED BY <2>1, <2>2, <2>3
  <1>5. \A k : Low(k)' = Low(k) /\ IsZero(k)' = IsZero(k) /\ Over(k)' = Over(k)
    BY DEF Low, IsZero, Over
  <1> QED BY <1>1, <1>2, <1>3, <1>4, <1>5 DEF LowBytesAreTold

(* n characters, of which the loop has stopped at the end.                 *)
LEMMA OneIsTold ==
    ASSUME TextInv, doing = "loop", rv_type # "REG_MULTI_SZ",
           rv_type' = rv_type, data_blob' = data_blob, value' = value,
           place \in 1..Len(data_blob), Over(place)
    PROVE  LowBytesAreTold'
  <1>1. /\ TextTypes /\ \A n \in Nat : SingleSoFar(n) => Prefix(n)
        /\ \A k \in 1..place - 1 : Over(k) => k = Len(data_blob)
    BY DEF TextInv, LoopOK
  <1>2. place \in Nat /\ Len(data_blob) \in Nat /\ place <= Len(data_blob) /\ IsZero(place)
    BY <1>1 DEF TextTypes, Over
  <1>3. \A k : Low(k)' = Low(k) /\ IsZero(k)' = IsZero(k) /\ Over(k)' = Over(k)
    BY DEF Low, IsZero, Over
  <1>4. ASSUME NEW n \in 0..Len(data_blob), SingleText(n) PROVE value = [k \in 1..n |-> Low(k)]
    <2>1. n \in Nat /\ n <= Len(data_blob) /\ \A k \in 1..n : ~IsZero(k)
      BY <1>2, <1>4 DEF SingleText
    <2>2. n < place
      BY <1>2, <2>1
    <2>3. Over(n + 1)
      BY <1>2, <1>4, <2>1, <2>2 DEF SingleText
    <2>4. n = place - 1
      <3>1. SUFFICES ASSUME n + 1 \in 1..place - 1 PROVE FALSE
        BY <1>2, <2>1, <2>2
      <3>2. n + 1 = Len(data_blob)
        BY <1>1, <2>3, <3>1
      <3> QED BY <1>2, <2>1, <3>1, <3>2
    <2>5. Prefix(n)
      BY <1>1, <2>1, <2>4 DEF SingleSoFar
    <2> QED BY <1>1, <2>5, PrefixIsText
  <1>5. \A n : SingleText(n)' = SingleText(n)
    BY <1>3 DEF SingleText
  <1>6. value' = value /\ data_blob' = data_blob /\ rv_type' # "REG_MULTI_SZ"
    OBVIOUS
  <1> QED BY <1>3, <1>4, <1>5, <1>6 DEF LowBytesAreTold

LEMMA TextEndsInv ==
    ASSUME TextInv, TextEnds
    PROVE  TextInv'
  <1>1. /\ doing = "loop" /\ TextTypes /\ LoopOK /\ place \in 1..Len(data_blob)
        /\ IsZero(place) /\ value' = value \o line
        /\ data_blob' = data_blob /\ rv_type' = rv_type
    BY DEF TextInv, TextTypes, TextEnds, IsZero
  <1>2. /\ value \in Seq(Bytes) /\ Len(value) \in Nat
        /\ data_blob \in Seq(Chars) /\ Len(data_blob) \in Nat /\ place \in Nat
    BY <1>1 DEF TextTypes
  <1>3. /\ rv_type = "REG_MULTI_SZ" => value' = Append(value, NewLine)
        /\ rv_type # "REG_MULTI_SZ" => value' = value
    <2>1. value \o <<NewLine>> = Append(value, NewLine) /\ value \o <<>> = value
      BY <1>2 DEF NewLine, Bytes
    <2> QED BY <1>1, <2>1 DEF line
  <1>4. value' \in Seq(Bytes)
    <2>1. CASE rv_type = "REG_MULTI_SZ"
      <3>1. value \in Seq(Bytes) /\ value' = Append(value, NewLine) /\ NewLine \in Bytes
        BY <1>2, <1>3, <2>1 DEF NewLine, Bytes
      <3> QED BY ONLY <3>1
    <2>2. CASE rv_type # "REG_MULTI_SZ"
      BY <1>2, <1>3, <2>2
    <2> QED BY <2>1, <2>2
  <1>5. \A k : Low(k)' = Low(k) /\ IsZero(k)' = IsZero(k) /\ Over(k)' = Over(k)
    BY <1>1 DEF Low, IsZero, Over
  <1>6. PICK next \in LooksAhead(place) :
            \/ EndsAt(next) /\ doing' = "told" /\ UNCHANGED place
            \/ ~EndsAt(next) /\ place' = place + 1 /\ UNCHANGED doing
    BY DEF TextEnds
  <1>7. place < Len(data_blob) => next = Low(place + 1)
    BY <1>6 DEF LooksAhead
  <1>8. CASE EndsAt(next) /\ doing' = "told" /\ UNCHANGED place
    <2>1. Over(place)
      BY <1>1, <1>2, <1>7, <1>8 DEF Over, IsZero, EndsAt
    <2>2. LowBytesAreTold'
      BY <1>1, <1>3, <2>1, SeveralAreTold, OneIsTold
    <2>3. TextTypes'
      BY <1>1, <1>2, <1>4, <1>8 DEF TextTypes
    <2> QED BY <1>8, <2>2, <2>3 DEF TextInv
  <1>9. CASE ~EndsAt(next) /\ place' = place + 1 /\ UNCHANGED doing
    <2>1. TextTypes'
      BY <1>1, <1>2, <1>4, <1>9 DEF TextTypes
    <2>2. Over(place) => place = Len(data_blob)
      BY <1>1, <1>2, <1>7, <1>9 DEF Over, IsZero, EndsAt
    <2>3. \A k \in 1..place' - 1 : Over(k) => k = Len(data_blob)
      <3>1. \A k \in 1..place' - 1 : k \in 1..place - 1 \/ k = place
        BY <1>2, <1>9
      <3> QED BY <1>1, <2>2, <3>1 DEF LoopOK
    <2>4. ASSUME rv_type = "REG_MULTI_SZ" PROVE LinesOK'
      <3>1. LinesOK /\ value' = Append(value, NewLine)
        BY <1>1, <1>3, <2>4 DEF LoopOK
      <3>2. /\ Len(value') = place /\ value'[place] = NewLine
            /\ \A k \in 1..place - 1 : value'[k] = value[k]
        BY <1>2, <3>1 DEF LinesOK, NewLine, Bytes
      <3>3. \A k \in 1..place' - 1 : k \in 1..place - 1 \/ k = place
        BY <1>2, <1>9
      <3>4. ASSUME NEW k \in 1..place' - 1
            PROVE  value'[k] = IF IsZero(k) THEN NewLine ELSE Low(k)
        BY <1>1, <3>1, <3>2, <3>3 DEF LinesOK
      <3> QED BY <1>1, <1>2, <1>5, <1>9, <3>2, <3>4 DEF LinesOK
    <2>5. ASSUME rv_type # "REG_MULTI_SZ", NEW n \in Nat, SingleSoFar(n)' PROVE Prefix(n)'
      <3>1. /\ n = place \/ n = place - 1
            /\ \A k \in 1..n : ~IsZero(k)
        BY <1>2, <1>5, <1>9, <2>5 DEF SingleSoFar
      <3>2. n = place - 1
        BY <1>1, <1>2, <3>1
      <3>3. Prefix(n)
        BY <1>1, <2>5, <3>1, <3>2 DEF LoopOK, SingleSoFar
      <3> QED BY <1>1, <1>3, <1>5, <2>5, <3>3 DEF Prefix
    <2>6. LoopOK'
      BY <1>1, <1>5, <2>3, <2>4, <2>5 DEF LoopOK
    <2> QED BY <1>1, <1>9, <2>1, <2>6 DEF TextInv, LowBytesAreTold
  <1> QED BY <1>6, <1>8, <1>9

(* The loop has come to the end of the blob.                               *)
LEMMA BlobEndsInv ==
    ASSUME TextInv, BlobEnds
    PROVE  TextInv'
  <1>1. /\ doing = "loop" /\ doing' = "told" /\ TextTypes /\ LoopOK
        /\ place > Len(data_blob)
        /\ UNCHANGED <<rv_type, data_blob, place, value>>
    BY DEF TextInv, BlobEnds
  <1>2. place = Len(data_blob) + 1 /\ Len(data_blob) \in Nat
    BY <1>1 DEF TextTypes
  <1> DEFINE last == Len(data_blob)
  <1>0. last \in Nat /\ place = last + 1
    BY ONLY <1>2 DEF last
  <1> HIDE DEF last
  <1>3. \A k \in 1..Len(data_blob) : Over(k) => k = Len(data_blob)
    <2>1. \A k \in 1..place - 1 : Over(k) => k = Len(data_blob)
      BY <1>1 DEF LoopOK
    <2>2. last = place - 1
      BY ONLY <1>0
    <2> QED BY ONLY <2>1, <2>2 DEF last
  <1>4. ASSUME rv_type = "REG_MULTI_SZ"
        PROVE  /\ Len(value) = Len(data_blob)
               /\ \A k \in 1..Len(value) :
                      /\ value[k] = IF IsZero(k) THEN NewLine ELSE Low(k)
                      /\ Over(k) => k = Len(value)
    <2>1. LinesOK
      BY <1>1, <1>4 DEF LoopOK
    <2>2. Len(value) = Len(data_blob)
      <3>1. Len(value) = place - 1
        BY <2>1 DEF LinesOK
      <3>2. last = place - 1
        BY ONLY <1>0
      <3> QED BY ONLY <3>1, <3>2 DEF last
    <2>3. \A k \in 1..Len(value) : value[k] = IF IsZero(k) THEN NewLine ELSE Low(k)
      BY <2>1 DEF LinesOK
    <2> QED BY <1>3, <2>2, <2>3
  <1>5. ASSUME rv_type # "REG_MULTI_SZ", NEW n \in 0..Len(data_blob), SingleText(n)
        PROVE  value = [k \in 1..n |-> Low(k)]
    <2>1. n \in Nat /\ n <= Len(data_blob) /\ \A k \in 1..n : ~IsZero(k)
      <3>1. \A k \in 1..n : ~IsZero(k)
        BY <1>5 DEF SingleText
      <3>2. n \in Nat /\ n <= Len(data_blob)
        BY ONLY <1>2, n \in 0..Len(data_blob)
      <3> QED BY <3>1, <3>2
    <2>2. CASE n = Len(data_blob)
      BY <1>1, <1>2, <1>5, <2>1, <2>2, PrefixIsText DEF LoopOK, SingleSoFar
    <2>3. CASE n < Len(data_blob)
      <3>1. Over(n + 1)
        BY <1>5, <2>3 DEF SingleText
      <3>2. n + 1 = Len(data_blob)
        <4>1. n + 1 \in 1..Len(data_blob)
          BY <1>2, <2>1, <2>3
        <4> QED BY <1>3, <3>1, <4>1
      <3>3. n = place - 2 /\ IsZero(n + 1)
        <4>1. n = place - 2
          <5>1. n \in Nat /\ n + 1 = last
            BY <2>1, <3>2 DEF last
          <5> QED BY ONLY <1>0, <5>1
        <4> QED BY <3>1, <4>1 DEF Over
      <3>4. Prefix(n)
        BY <1>1, <1>5, <2>1, <3>3 DEF LoopOK, SingleSoFar
      <3> QED BY <1>1, <1>5, <3>4, PrefixIsText
    <2>4. n = Len(data_blob) \/ n < Len(data_blob)
      <3>1. n \in Nat /\ n <= last
        BY <2>1 DEF last
      <3>2. n = last \/ n < last
        BY ONLY <1>0, <3>1
      <3> QED BY <3>2 DEF last
    <2> QED BY <2>2, <2>3, <2>4
  <1>6. \A k : /\ Low(k)' = Low(k) /\ IsZero(k)' = IsZero(k)
              /\ Over(k)' = Over(k) /\ SingleText(k)' = SingleText(k)
    BY <1>1 DEF Low, IsZero, Over, SingleText
  <1>7. Len(data_blob) \in Nat /\ data_blob' = data_blob /\ value' = value /\ rv_type' = rv_type
    BY <1>1, <1>2
  <1>8. LowBytesAreTold'
    BY <1>4, <1>5, <1>6, <1>7 DEF LowBytesAreTold
  <1>9. TextTypes'
    BY <1>1 DEF TextTypes
  <1> QED BY <1>1, <1>8, <1>9 DEF TextInv

LEMMA TextInvariance == TextSpec => []TextInv
  <1>1. TextInit => TextInv
    BY DEF TextInit, TextInv, TextTypes, LowBytesAreTold
  <1>2. TextInv /\ [TextNext]_textVars => TextInv'
    <2> SUFFICES ASSUME TextInv, [TextNext]_textVars PROVE TextInv'
      OBVIOUS
    <2>1. CASE \E char \in Char : Stores(char)
      <3>1. PICK char \in Char : Stores(char)
        BY <2>1
      <3>2. char \in Chars
        BY CharAssumption DEF Chars, Bytes
      <3>3. data_blob' \in Seq(Chars) /\ Len(data_blob') = Len(data_blob) + 1 /\ Len(data_blob) \in Nat
        BY <3>1, <3>2 DEF Stores, TextInv, TextTypes
      <3> QED BY <3>1, <3>3 DEF Stores, TextInv, TextTypes, LowBytesAreTold
    <2>2. CASE Begins
      <3>1. place = 1 /\ value = <<>> /\ TextTypes
        BY <2>2 DEF Begins, TextInv
      <3>2. LoopOK'
        BY <2>2, <3>1 DEF Begins, LoopOK, LinesOK, SingleSoFar, Prefix
      <3> QED BY <2>2, <3>1, <3>2 DEF Begins, TextInv, TextTypes, LowBytesAreTold
    <2>3. CASE Character
      BY <2>3, CharacterInv
    <2>4. CASE TextEnds
      BY <2>4, TextEndsInv
    <2>5. CASE BlobEnds
      BY <2>5, BlobEndsInv
    <2>6. CASE UNCHANGED textVars
      BY <2>6 DEF textVars, TextInv, TextTypes, LoopOK, LinesOK, SingleSoFar, Prefix,
                  LowBytesAreTold, SingleText, Over, IsZero, Low
    <2> QED BY <2>1, <2>2, <2>3, <2>4, <2>5, <2>6 DEF TextNext
  <1> QED BY <1>1, <1>2, PTL DEF TextSpec

(* Texts of the registry are told by their low bytes, of whatever length   *)
(* the blob is: of several each is a line, with none left out, and one is  *)
(* told up to its end (normalize); what the code reads behind the blob     *)
(* makes no difference.                                                    *)
THEOREM LowBytesAreAlwaysTold == TextSpec => []LowBytesAreTold
  <1>1. TextInv => LowBytesAreTold
    BY DEF TextInv
  <1> QED BY <1>1, TextInvariance, PTL

=============================================================================
