----------------------------- MODULE IpcamList -----------------------------
(***************************************************************************)
(* The device list of the PC tool, ipcam_list.c, at the level at which the *)
(* C code works on it: heap blocks linked through their `next' fields from *)
(* a head node.  A walk of the list is not a recursive definition: the     *)
(* nodes it visits while they stay in a set S are the least set that holds *)
(* the head's successor and is closed under `next' (Chain), and where the  *)
(* walk leaves S is the one successor outside S (Exit).  A walk that never *)
(* leaves S goes round a cycle.                                            *)
(*                                                                         *)
(* Freed blocks matter, because delete_ipcam_node_by_mac can free a node   *)
(* and leave it linked.  free() overwrites the first 16 bytes of a block,  *)
(* the MAC among them, and leaves its `next' field alone; a freed block    *)
(* that is handed out again as the receive buffer of a message has its     *)
(* `next' field overwritten with message bytes (Wild).                     *)
(***************************************************************************)
EXTENDS MacAddress

CONSTANTS
    Cell,      \* heap blocks of the size of a struct ipcam_node
    Link,      \* the node made by create_empty_ipcam_link
    Null,      \* the null pointer
    Wild,      \* a pointer to no block: message bytes read as a pointer
    NoCell     \* no block: the caller's buffer is not one of the list's blocks

(* The names of blocks and pointers are all different. *)
ASSUME NameAssumption ==
    /\ Link \notin Cell /\ Null \notin Cell /\ Wild \notin Cell /\ NoCell \notin Cell
    /\ Null # Wild

VARIABLES
    next,    \* the `next' field of the head and of every block
    mac,     \* node_info.mac of an allocated node, NoMac in a freed block
    mode     \* "running", or how the process ended or stopped

listVars == <<next, mac, mode>>

(* The mac field of a block that free() has overwritten: it equals no MAC. *)
NoMac == <<>>

Pointer == Cell \cup {Null, Wild}

Modes == {"running", "hung", "crashed", "exited"}

ListTypeOK ==
    /\ next \in [Cell \cup {Link} -> Pointer]
    /\ mac \in [Cell -> Mac \cup {NoMac}]
    /\ mode \in Modes

-----------------------------------------------------------------------------
(* Walks *)

(* T holds every node of S that a walk over next field nx visits before it
   first leaves S. *)
ClosedWalk(nx, S, T) ==
    /\ nx[Link] \in S => nx[Link] \in T
    /\ \A d \in T : nx[d] \in S => nx[d] \in T

(* The nodes a walk from the head visits before it first leaves S. *)
Chain(nx, S) == {c \in S : \A T \in SUBSET S : ClosedWalk(nx, S, T) => c \in T}

(* Where that walk goes when it leaves S; empty when it never does. *)
Exit(nx, S) == {nx[p] : p \in Chain(nx, S) \cup {Link}} \ S

(* The nodes a walk over the whole list visits, and where it ends. *)
Reach(nx) == Chain(nx, Cell)
End(nx) == Exit(nx, Cell)

InUse == {c \in Cell : mac[c] # NoMac}

(* The rows of the list that are nodes, not remains of freed nodes. *)
Listed == Reach(next) \cap InUse

(* What happens to the process when a walk leaves its nodes to `ends': a
   null pointer ends the loop, a wild one is dereferenced, and without an
   end the loop does not terminate. *)
Outcome(ends) ==
    IF Wild \in ends THEN "crashed" ELSE IF ends = {} THEN "hung" ELSE "running"

-----------------------------------------------------------------------------
(* Comparisons: strvalncmp compares all bytes, strncmp as in MacAddress. *)

Rows(m) == {c \in Cell : mac[c] = m}

(* Faulty variant of Matches: the first byte decides. *)
MatchesFirstByte(m) == {c \in InUse : mac[c][1] = m[1]}

Matches(m) == {c \in InUse : StrncmpEq(mac[c], m)}

-----------------------------------------------------------------------------
(* Operations.  `buf' is the block that holds the message the caller is
   handling, NoCell when it is not a block of the list's size: if it is a
   freed node that is still linked, its next field is message bytes. *)

Buffers == {NoCell} \cup (Reach(next) \ InUse)

WithBuffer(buf) == IF buf = NoCell THEN next ELSE [next EXCEPT ![buf] = Wild]

(* The process ends or stops inside an operation: nothing reads the list
   any more. *)
StopsAs(how) == mode' = how /\ UNCHANGED <<next, mac>>

(* Faulty variant of Search: the walk starts behind the first node. *)
SearchBehindFirst(nx, m) == Exit(nx, (Cell \ Rows(m)) \cup ({nx[Link]} \cap Cell))

(* search_ipcam_node_by_mac: the first node with this MAC, or how the search
   ends without one. *)
Search(nx, m) == Exit(nx, Cell \ Rows(m))

(* insert_nodulp_ipcam_node when the search finds the MAC: returns 0. *)
FoundIn(c, m, buf) ==
    /\ c \in Search(WithBuffer(buf), m) \cap Cell
    /\ next' = WithBuffer(buf)
    /\ UNCHANGED <<mac, mode>>

(* Faulty variant of InsertNode: the two assignments to next fields are made
   in the wrong order. *)
InsertSelfLinked(c, m, buf) ==
    /\ Search(WithBuffer(buf), m) = {Null}
    /\ c \in Cell \ (InUse \cup {buf})
    /\ next' = [WithBuffer(buf) EXCEPT ![c] = c, ![Link] = c]
    /\ mac' = [mac EXCEPT ![c] = m]
    /\ UNCHANGED mode

(* insert_nodulp_ipcam_node when it does not: a block from malloc, a linked
   one if it was freed that way, becomes the first node. *)
InsertNode(c, m, buf) ==
    /\ Search(WithBuffer(buf), m) = {Null}
    /\ c \in Cell \ (InUse \cup {buf})
    /\ next' = [WithBuffer(buf) EXCEPT ![c] = WithBuffer(buf)[Link], ![Link] = c]
    /\ mac' = [mac EXCEPT ![c] = m]
    /\ UNCHANGED mode

(* insert_nodulp_ipcam_node when the search runs into a wild pointer or
   round a cycle. *)
SearchFails(m, buf) ==
    LET ends == Search(WithBuffer(buf), m)
    IN  /\ ends \in {{}, {Wild}}
        /\ StopsAs(Outcome(ends))

(* Faulty variant of DeleteByMac: `curr' is a copy of the head from the start,
   so that no match is unlinked before it is freed. *)
DeleteLinked(m, buf) ==
    LET nx    == WithBuffer(buf)
        freed == Reach(nx) \cap Matches(m)
    IN  IF End(nx) = {Null}
        THEN /\ next' = nx
             /\ mac' = [c \in Cell |-> IF c \in freed THEN NoMac ELSE mac[c]]
             /\ mode' = "running"
        ELSE StopsAs(Outcome(End(nx)))

(* delete_ipcam_node_by_mac.  While `curr' still points to the variable that
   holds the head, matching nodes are unlinked and freed.  The first node
   that does not match makes `curr' point to the local `nextnode', and from
   there on a match is freed while the assignment that should unlink it
   stores a next field into itself. *)
DeleteByMac(m, buf) ==
    LET nx     == WithBuffer(buf)
        prefix == Chain(nx, Matches(m))
        freed  == Reach(nx) \cap Matches(m)
    IN  IF End(nx) = {Null}
        THEN /\ \E e \in Exit(nx, Matches(m)) : next' = [nx EXCEPT ![Link] = e]
             /\ mac' = [c \in Cell |-> IF c \in freed THEN NoMac ELSE mac[c]]
             /\ mode' = "running"
        ELSE StopsAs(Outcome(End(nx)))

(* Faulty variant of DeleteAll: the nodes are freed and stay linked. *)
FreeAllLinked ==
    /\ mac' = [c \in Cell |-> IF c \in Reach(next) THEN NoMac ELSE mac[c]]
    /\ UNCHANGED <<next, mode>>

(* delete_ipcam_all_node: every node is unlinked, then freed.  Freeing the
   remains of a freed node makes the allocator abort the process, and so
   does a cycle, when it comes round to the first node. *)
DeleteAll ==
    IF End(next) = {Null} /\ Reach(next) \subseteq InUse
    THEN /\ next' = [next EXCEPT ![Link] = Null]
         /\ mac' = [c \in Cell |-> IF c \in Reach(next) THEN NoMac ELSE mac[c]]
         /\ mode' = "running"
    ELSE StopsAs("crashed")

(* free_ipcam_link, which release_exit calls before exit(): the same walk,
   but the head keeps its pointer. *)
FreeLinkAndExit ==
    StopsAs(IF End(next) = {Null} /\ Reach(next) \subseteq InUse
            THEN "exited" ELSE "crashed")

(* A loop that visits every node and changes neither links nor MACs:
   list_ipcam, clear_all_dev_online, test_all_dev_online. *)
VisitAll ==
    /\ mode' = Outcome(End(next))
    /\ UNCHANGED <<next, mac>>

-----------------------------------------------------------------------------
(* The list under any sequence of calls. *)

ListInit ==
    /\ next = [p \in Cell \cup {Link} |-> Null]
    /\ mac = [c \in Cell |-> NoMac]
    /\ mode = "running"

InsertNodulp(m, buf) ==
    \/ \E c \in Cell : FoundIn(c, m, buf) \/ InsertNode(c, m, buf)
    \/ SearchFails(m, buf)

ListNext ==
    /\ mode = "running"
    /\ \/ \E m \in Mac, buf \in Buffers : InsertNodulp(m, buf) \/ DeleteByMac(m, buf)
       \/ DeleteAll
       \/ FreeLinkAndExit
       \/ VisitAll

ListSpec == ListInit /\ [][ListNext]_listVars

-----------------------------------------------------------------------------
(* Properties *)

(* One row per camera: insert_nodulp_ipcam_node keeps the MACs of the listed
   nodes distinct, also after delete_ipcam_node_by_mac has damaged the list. *)
NoDuplicateRows ==
    \A c, d \in Listed : mac[c] = mac[d] => c = d

(* The list is a chain of allocated nodes that ends in a null pointer: what
   every loop over it takes for granted. *)
ListSound == Reach(next) \subseteq InUse /\ End(next) = {Null}

=============================================================================
