---------------------------- MODULE SessionsCache ----------------------------
(***************************************************************************)
(* The cache of sessions in shared memory                                  *)
(* (common/sessions_cache/shared_mem_sessions_cache), used by the broker,  *)
(* which opens and closes sessions, by its maintenance thread, which       *)
(* cleans, and by the workers.  Finding an entry takes the read lock and   *)
(* using it takes the write lock: in between the lock is free and the      *)
(* process holds nothing but an iterator, the address of a node.  add and  *)
(* remove_by_id are one write-locked section each.  The list of sessions   *)
(* that maintenance (frontend/maintenance.cpp) makes to remove the files   *)
(* of all others is read without a lock, an entry at a time.               *)
(*                                                                         *)
(* A node that is erased keeps its contents until its memory is given to   *)
(* another one.  To use an iterator to an erased node is undefined         *)
(* behaviour: the process reads and writes what is left there; or it       *)
(* relinks the freed node into the tree and damages the map, after which   *)
(* nothing is known of it and the model stops; or it dies and takes the    *)
(* lock with it, which lives in shared memory too.                         *)
(***************************************************************************)
EXTENDS Integers, Sequences, FiniteSets, Functions, SequencesExt

CONSTANTS Broker,        \* the thread of the broker that serves clients
          Maintenance,   \* the thread of the broker that cleans
          Worker,        \* the worker processes
          Id,            \* identifiers of sessions, in their order
          Remote,        \* assets
          RemoteOf,      \* asset of each session
          Slot,          \* addresses of nodes, as many as the segment holds
          IdleTime,      \* session_idle_timeout_
          MaxTime,       \* bound: time
          NoId, NoSlot, End

ASSUME CacheAssumption ==
    /\ Broker # Maintenance /\ Worker \cap {Broker, Maintenance} = {}
    /\ Id \subseteq Nat
    /\ RemoteOf \in [Id -> Remote]
    /\ IdleTime \in Nat /\ MaxTime \in Nat
    /\ NoSlot \notin Slot /\ End \notin Slot /\ NoSlot # End
    /\ NoId \notin Id
    /\ IsFiniteSet(Slot)

VARIABLES index,    \* the nodes of map_ in the order of its index by expiration
          node,     \* what is in the memory of each node
          added,    \* sessions that were ever added
          now,      \* the clock
          held,     \* what each process is half way through
          lost,     \* the lock is held by a process that died
          list,     \* the sessions that maintenance has listed
          files,    \* the sessions that have downloaded files
          answer,   \* what the call that ends with this step returns
          since,    \* history: those in the cache all the time since it began to list
          alone     \* history: no process has got in the way of another (Alone)

cacheVars == <<index, node, added, now, held, lost, list, files, answer, since, alone>>

Proc == {Broker, Maintenance} \cup Worker

element == [id : Id \cup {NoId}, expiration_time : 0..MaxTime + IdleTime]

(* op, the iterator s, and for an update the session that was looked for.  *)
Nothing == [op |-> "none", s |-> NoSlot, id |-> NoId]

half_way == [op : {"none", "update", "clean", "list", "dead", "damage"},
             s : Slot \cup {NoSlot, End}, id : Id \cup {NoId}]

(* The session that a call is about, and whether it is there, or is added. *)
result == [id : Id \cup {NoId}, yes : BOOLEAN]

Silent == [id |-> NoId, yes |-> FALSE]

CacheTypeOK ==
    /\ index \in Seq(Slot) /\ IsInjective(index)
    /\ node \in [Slot -> element]
    /\ added \subseteq Id
    /\ now \in 0..MaxTime
    /\ held \in [Proc -> half_way]
    /\ lost \in BOOLEAN
    /\ list \subseteq Id \cup {NoId} /\ files \subseteq Id /\ since \subseteq Id
    /\ answer \in result
    /\ alone \in BOOLEAN

CacheInit ==
    /\ index = <<>>
    /\ node = [s \in Slot |-> [id |-> NoId, expiration_time |-> 0]]
    /\ added = {}
    /\ now = 0
    /\ held = [p \in Proc |-> Nothing]
    /\ lost = FALSE
    /\ list = {} /\ files = Id /\ since = {}
    /\ answer = Silent
    /\ alone = TRUE

-----------------------------------------------------------------------------

map == Range(index)

Open == {node[s].id : s \in map}

OfRemote(r) == {s \in map : RemoteOf[node[s].id] = r}

WithId(i) == {s \in map : node[s].id = i}

(* erase, by an iterator to the node.                                      *)
Without(gone) ==
    LET at == {k \in 1..Len(index) : index[k] \in gone}
    IN IF at = {} THEN index ELSE RemoveAt(index, CHOOSE k \in at : TRUE)

(* upper_bound: the place behind every node that does not expire later.    *)
upper_bound(q, time) ==
    CHOOSE k \in 1..Len(q) + 1 :
        \A j \in 1..Len(q) : j < k <=> node[q[j]].expiration_time <= time

Placed(q, s, time) == InsertAt(q, upper_bound(q, time), s)

Begins(p) == ~lost /\ held[p] = Nothing

Returns(i, yes) == answer' = [id |-> i, yes |-> yes]

Quiet == answer' = Silent

-----------------------------------------------------------------------------
Inserts(q, s, i) ==
    /\ index' = Placed(q, s, now + IdleTime)
    /\ node' = [node EXCEPT ![s] = [id |-> i, expiration_time |-> now + IdleTime]]

(* add: the older session of the remote is erased, and the new one gets a  *)
(* free node, maybe the one just freed.                                    *)
add(p, i) ==
    /\ i \notin added
    /\ Begins(p)
    /\ LET old == OfRemote(RemoteOf[i])
       IN \E s \in (Slot \ map) \cup old : Inserts(Without(old), s, i)
    /\ added' = added \cup {i}
    /\ Returns(i, TRUE)
    /\ UNCHANGED <<now, held, lost, list, files>>

(* The segment is full: allocation throws after the erasure.               *)
add_fails(p, i) ==
    /\ i \notin added
    /\ Begins(p)
    /\ map = Slot
    /\ index' = Without(OfRemote(RemoteOf[i]))
    /\ added' = added \cup {i}
    /\ Returns(i, FALSE)
    /\ UNCHANGED <<node, now, held, lost, list, files>>

remove_by_id(p, i) ==
    /\ Begins(p)
    /\ index' = Without(WithId(i))
    /\ IF i \in Open THEN Returns(i, TRUE) ELSE Returns(i, FALSE)
    /\ UNCHANGED <<node, added, now, held, lost, list, files>>

-----------------------------------------------------------------------------
(* get_session_by and touch_by                                             *)

(* find, by id or by remote, under the read lock.                          *)
find(p, s) ==
    /\ Begins(p)
    /\ s \in map
    /\ held' = [held EXCEPT ![p] = [op |-> "update", s |-> s, id |-> node[s].id]]
    /\ Quiet
    /\ UNCHANGED <<index, node, added, now, lost, list, files>>

find_nothing(p, i) ==
    /\ Begins(p)
    /\ i \notin Open
    /\ Returns(i, FALSE)
    /\ UNCHANGED <<index, node, added, now, held, lost, list, files>>

Half(p, op) == ~lost /\ held[p].op = op

Done(p) == held' = [held EXCEPT ![p] = Nothing] /\ UNCHANGED <<added, now, lost, list, files>>

(* With its other thread, if it is the broker.                             *)
Ends(p) ==
    held' = [q \in Proc |-> IF q = p \/ {p, q} = {Broker, Maintenance}
                            THEN [Nothing EXCEPT !.op = "dead"] ELSE held[q]]

Dies(p) ==
    /\ Ends(p)
    /\ lost' = TRUE
    /\ Quiet
    /\ UNCHANGED <<index, node, added, now, list, files>>

Damages(p) ==
    /\ held' = [held EXCEPT ![p] = [Nothing EXCEPT !.op = "damage"]]
    /\ Quiet
    /\ UNCHANGED <<index, node, added, now, lost, list, files>>

damaged == \E p \in Proc : held[p].op = "damage"

(* Fault: the idle time is added to what is left of it.                    *)
prolong_further(s) ==
    LET time == node[s].expiration_time + IdleTime
    IN /\ node' = [node EXCEPT ![s].expiration_time = time]
       /\ index' = IF s \in map THEN Placed(Without({s}), s, time) ELSE index

(* Fault: the entry is given up.                                           *)
prolong_not(s) ==
    /\ node' = [node EXCEPT ![s].expiration_time = now]
    /\ index' = IF s \in map THEN Placed(Without({s}), s, now) ELSE index

(* Fault: the time is set and the node stays where it is in the index.     *)
prolong_in_place(s) ==
    /\ node' = [node EXCEPT ![s].expiration_time = now + IdleTime]
    /\ UNCHANGED index

(* The idle time starts again; the index moves the node when it is out of  *)
(* order.                                                                  *)
prolong(s) ==
    LET time == now + IdleTime
        out_of_order == \E j \in 1..Len(index) : \E k \in 1..j :
                            index[k] = s /\ node[index[j]].expiration_time < time /\ j # k
    IN /\ node' = [node EXCEPT ![s].expiration_time = time]
       /\ index' = IF out_of_order THEN Placed(Without({s}), s, time) ELSE index

(* update, under the write lock; it returns the session that is in the     *)
(* node by then.                                                           *)
update(p) ==
    /\ Half(p, "update")
    /\ \/ prolong(held[p].s) /\ Returns(node[held[p].s].id, TRUE) /\ Done(p)
       \/ held[p].s \notin map /\ (Damages(p) \/ Dies(p))

-----------------------------------------------------------------------------
(* clean                                                                   *)

Fresh == {k \in 1..Len(index) : node[index[k]].expiration_time >= now}

(* lower_bound: the first node that has not expired.                       *)
lower_bound ==
    IF Fresh = {} THEN End ELSE index[CHOOSE k \in Fresh : \A j \in Fresh : k <= j]

clean_find ==
    /\ Begins(Maintenance)
    /\ held' = [held EXCEPT ![Maintenance] = [op |-> "clean", s |-> lower_bound, id |-> NoId]]
    /\ Quiet
    /\ UNCHANGED <<index, node, added, now, lost, list, files>>

(* Then the list is begun.                                                 *)
Cleaned ==
    /\ held' = [held EXCEPT ![Maintenance] = [Nothing EXCEPT !.op = "list"]]
    /\ list' = {}
    /\ Quiet
    /\ UNCHANGED <<node, added, now, lost, files>>

(* Fault: the node that has not expired is erased with the others.         *)
clean_erase_inclusive ==
    /\ Half(Maintenance, "clean")
    /\ \/ held[Maintenance].s = End /\ index' = <<>>
       \/ \E k \in 1..Len(index) :
             index[k] = held[Maintenance].s /\ index' = SubSeq(index, k + 1, Len(index))
    /\ Cleaned

(* erase: everything that is in front of that node by now.                 *)
clean_erase ==
    /\ Half(Maintenance, "clean")
    /\ \/ /\ \/ held[Maintenance].s = End /\ index' = <<>>
             \/ \E k \in 1..Len(index) :
                   index[k] = held[Maintenance].s /\ index' = SubSeq(index, k, Len(index))
          /\ Cleaned
       \/ held[Maintenance].s \notin map \cup {End} /\ Dies(Maintenance)

-----------------------------------------------------------------------------
(* get_sessions_id_list, and what maintenance does with the list.          *)

(* Fault: the sessions are listed in the order of their expiration.        *)
FaultListsByExpiration(s) ==
    IF \E k \in 1..Len(index) : index[k] = s
    THEN LET k == CHOOSE k \in 1..Len(index) : index[k] = s
         IN {IF k = Len(index) THEN End ELSE index[k + 1]}
    ELSE map \cup {End}

(* The nodes in the order of the index by id; that of one that was erased  *)
(* may be any.                                                             *)
IdFirst(S) == IF S = {} THEN End ELSE CHOOSE s \in S : \A t \in S : node[s].id <= node[t].id
After(s) == IdFirst({t \in map : node[t].id > node[s].id})
Following(s) == IF s \in map THEN {After(s)} ELSE map \cup {End}

Listing(s) == held' = [held EXCEPT ![Maintenance] = [op |-> "list", s |-> s, id |-> NoId]]

list_begin ==
    /\ held[Maintenance] = [Nothing EXCEPT !.op = "list"]
    /\ Listing(IdFirst(map))
    /\ Quiet
    /\ UNCHANGED <<index, node, added, now, lost, list, files>>

list_next ==
    /\ held[Maintenance].op = "list" /\ held[Maintenance].s \in Slot
    /\ list' = list \cup {node[held[Maintenance].s].id}
    /\ \E t \in Following(held[Maintenance].s) : Listing(t)
    /\ Quiet
    /\ UNCHANGED <<index, node, added, now, lost, files>>

(* The entry was erased: the thread may end the broker, no lock is held.   *)
list_dies ==
    /\ held[Maintenance].op = "list" /\ held[Maintenance].s \in Slot \ map
    /\ Ends(Maintenance)
    /\ Quiet
    /\ UNCHANGED <<index, node, added, now, lost, list, files>>

remove_files ==
    /\ held[Maintenance] = [op |-> "list", s |-> End, id |-> NoId]
    /\ files' = files \cap list
    /\ held' = [held EXCEPT ![Maintenance] = Nothing]
    /\ Quiet
    /\ UNCHANGED <<index, node, added, now, lost, list>>

-----------------------------------------------------------------------------

Tick ==
    /\ now < MaxTime
    /\ now' = now + 1
    /\ Quiet
    /\ UNCHANGED <<index, node, added, held, lost, list, files>>

(* What the code supposes and no lock ensures: no entry is erased while an *)
(* iterator to it is out, and nothing is changed between the two sections  *)
(* of clean.                                                               *)
Alone ==
    /\ \A p \in Proc :
          held[p].op \in {"update", "list"} /\ held'[p] = held[p] /\ held[p].s \in map
          => held[p].s \in map' /\ node'[held[p].s].id = node[held[p].s].id
    /\ held[Maintenance].op = "clean" /\ held'[Maintenance] = held[Maintenance]
       => UNCHANGED <<index, node, added>>

(* Opening and closing sessions is up to the broker.                       *)
Sessions ==
    \/ \E i \in Id : add(Broker, i) \/ add_fails(Broker, i) \/ remove_by_id(Broker, i)
    \/ \E p \in {Broker} \cup Worker :
                         \/ update(p) \/ \E s \in Slot : find(p, s)
                         \/ \E i \in Id : find_nothing(p, i)
    \/ clean_find
    \/ clean_erase

CacheNext ==
    /\ ~damaged
    /\ \/ /\ Sessions \/ list_next \/ list_dies \/ remove_files \/ Tick
          /\ since' = since \cap Open'
       \/ list_begin /\ since' = Open
    /\ alone' = (alone /\ Alone)

CacheSpec == CacheInit /\ [][CacheNext]_cacheVars

-----------------------------------------------------------------------------
(* Properties                                                              *)

(* However the processes overlap, and until a use of an erased node        *)
(* damages the map, the index by expiration is in order, which the binary  *)
(* search of clean relies on.                                              *)
IndexInOrder ==
    \A j, k \in 1..Len(index) :
        j < k => node[index[j]].expiration_time <= node[index[k]].expiration_time

(* However they overlap, a use never shortens the life of an entry.        *)
UseOnlyProlongs ==
    [][\A s \in map \cap map' :
          node'[s].id = node[s].id => node'[s].expiration_time >= node[s].expiration_time]_cacheVars

(* clean is through with what is in front of the place that it has found.  *)
Condemned ==
    {s \in map : /\ held[Maintenance].op = "clean"
                 /\ \E k \in 1..Len(index) :
                       index[k] = s /\ \A j \in 1..k : index[j] # held[Maintenance].s}

(* As many sessions as there are nodes.                                    *)
FillsSegment(S) == Cardinality(S) >= Cardinality(Slot)

(* As long as the processes do not get in each other's way, the two        *)
(* sections of each operation are as good as one: in effect and in what    *)
(* they return, the operations are those of the store that the tests       *)
(* describe.  clean takes all that has expired when it looks, and nothing  *)
(* else; a session is given back to who looks for it, not another that was *)
(* put in its place; and only in a full segment is one not added.          *)
Store == INSTANCE SessionStore WITH
    sessions <- {[id |-> node[s].id, idle_until |-> node[s].expiration_time] : s \in map \ Condemned},
    Full <- FillsSegment

ImplementsStore ==
    Store!Init /\ [][alone' => [Store!Next]_(Store!vars)]_cacheVars

(* As long as they do not, maintenance leaves the files of every session   *)
(* that is in the cache from before it lists them until it removes files,  *)
(* whatever is opened, used or closed beside it.                           *)
FilesOfOpenSessionsStay ==
    [][alone' => files \cap since \cap Open \subseteq files']_cacheVars

(* session_cache_test.cpp:49, after clean(): "BOOST_REQUIRE(f)" of a       *)
(* session that has not been idle for too long.                            *)
CleanKeepsFresh ==
    [][held[Maintenance].op = "clean" /\ held'[Maintenance].op = "list"
       => \A s \in map \ map' : node[s].expiration_time < now]_cacheVars
=============================================================================
