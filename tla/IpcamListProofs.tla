-------------------------- MODULE IpcamListProofs --------------------------
(***************************************************************************)
(* What holds of the device list for every set of blocks and MACs.         *)
(***************************************************************************)
EXTENDS IpcamList, TLAPS

-----------------------------------------------------------------------------
(* Walks *)

(* A walk visits every node it comes to before it leaves S. *)
LEMMA ChainClosed ==
    ASSUME NEW nx, NEW S
    PROVE  Chain(nx, S) \subseteq S /\ ClosedWalk(nx, S, Chain(nx, S))
  BY DEF Chain, ClosedWalk

(* It visits nothing that a closed set of nodes leaves out. *)
LEMMA ChainLeast ==
    ASSUME NEW nx, NEW S, NEW T \in SUBSET S, ClosedWalk(nx, S, T)
    PROVE  Chain(nx, S) \subseteq T
  BY DEF Chain

(* A walk that stops early visits nodes of the whole list only, and leaves
   to a node of the list or to where the list ends. *)
LEMMA ChainInReach ==
    ASSUME NEW nx, NEW S \in SUBSET Cell
    PROVE  /\ Chain(nx, S) \subseteq Reach(nx)
           /\ Exit(nx, S) \cap Cell \subseteq Reach(nx)
  <1>1. ClosedWalk(nx, Cell, Reach(nx)) /\ Reach(nx) \subseteq Cell
    BY ChainClosed DEF Reach
  <1>2. Chain(nx, S) \subseteq Reach(nx)
    <2>1. ClosedWalk(nx, S, Reach(nx) \cap S)
      BY <1>1 DEF ClosedWalk
    <2> QED
      BY <2>1, ChainLeast, Reach(nx) \cap S \in SUBSET S
  <1>3. Exit(nx, S) \cap Cell \subseteq Reach(nx)
    BY <1>1, <1>2 DEF Exit, ClosedWalk
  <1> QED
    BY <1>2, <1>3

(* A search that ends in a null pointer has seen the whole list. *)
LEMMA SearchMisses ==
    ASSUME NEW nx, NEW m, Search(nx, m) \cap Cell = {}
    PROVE  Reach(nx) \cap Rows(m) = {}
  <1> DEFINE T == Chain(nx, Cell \ Rows(m))
  <1>1. T \subseteq Cell \ Rows(m) /\ ClosedWalk(nx, Cell \ Rows(m), T)
    BY ChainClosed
  <1>2. ClosedWalk(nx, Cell, T)
    BY <1>1 DEF ClosedWalk, Search, Exit
  <1>3. Reach(nx) \subseteq T
    BY <1>1, <1>2, ChainLeast, T \in SUBSET Cell DEF Reach
  <1> QED
    BY <1>1, <1>3

(* The receive buffer of a message cuts the walk short where it overlays a
   freed node, and adds nothing to it. *)
LEMMA BufferReach ==
    ASSUME ListTypeOK, NEW buf \in Buffers
    PROVE  Reach(WithBuffer(buf)) \subseteq Reach(next)
  <1> DEFINE nx == WithBuffer(buf)
  <1>1. ClosedWalk(next, Cell, Reach(next)) /\ Reach(next) \subseteq Cell
    BY ChainClosed DEF Reach
  <1>2. \A p \in Cell \cup {Link} : nx[p] \in Cell => nx[p] = next[p]
    BY <1>1, NameAssumption DEF ListTypeOK, WithBuffer, Buffers
  <1>3. ClosedWalk(nx, Cell, Reach(next))
    BY <1>1, <1>2 DEF ClosedWalk
  <1> QED
    BY <1>1, <1>3, ChainLeast DEF Reach

-----------------------------------------------------------------------------
(* Type correctness *)

LEMMA WithBufferType ==
    ASSUME ListTypeOK, NEW buf \in Buffers
    PROVE  /\ WithBuffer(buf) \in [Cell \cup {Link} -> Pointer]
           /\ buf \in Cell \cup {NoCell}
  <1>1. buf \in Cell \cup {NoCell}
    BY ChainClosed DEF Buffers, Reach
  <1> QED
    BY <1>1 DEF ListTypeOK, WithBuffer, Pointer

LEMMA OutcomeType == ASSUME NEW ends PROVE Outcome(ends) \in Modes
  BY DEF Outcome, Modes

LEMMA FoundInType ==
    ASSUME ListTypeOK, NEW c \in Cell, NEW m \in Mac, NEW buf \in Buffers,
           FoundIn(c, m, buf)
    PROVE  ListTypeOK'
  BY WithBufferType DEF ListTypeOK, FoundIn

LEMMA InsertNodeType ==
    ASSUME ListTypeOK, NEW c \in Cell, NEW m \in Mac, NEW buf \in Buffers,
           InsertNode(c, m, buf)
    PROVE  ListTypeOK'
  <1>1. next' \in [Cell \cup {Link} -> Pointer]
    BY WithBufferType DEF InsertNode, Pointer
  <1>2. mac' \in [Cell -> Mac \cup {NoMac}]
    BY DEF InsertNode, ListTypeOK
  <1> QED
    BY <1>1, <1>2 DEF InsertNode, ListTypeOK

LEMMA SearchFailsType ==
    ASSUME ListTypeOK, NEW m \in Mac, NEW buf \in Buffers, SearchFails(m, buf)
    PROVE  ListTypeOK'
  BY OutcomeType DEF SearchFails, StopsAs, ListTypeOK

LEMMA DeleteByMacType ==
    ASSUME ListTypeOK, NEW m \in Mac, NEW buf \in Buffers, DeleteByMac(m, buf)
    PROVE  ListTypeOK'
  <1> DEFINE nx == WithBuffer(buf)
  <1>1. CASE End(nx) = {Null}
    <2>1. nx \in [Cell \cup {Link} -> Pointer]
      BY WithBufferType
    <2>2. Chain(nx, Matches(m)) \subseteq Cell
      BY ChainClosed DEF Matches, InUse
    <2>3. Exit(nx, Matches(m)) \subseteq Pointer
      BY <2>1, <2>2 DEF Exit
    <2>4. next' \in [Cell \cup {Link} -> Pointer]
      BY <1>1, <2>1, <2>3 DEF DeleteByMac
    <2>5. mac' \in [Cell -> Mac \cup {NoMac}]
      BY <1>1 DEF DeleteByMac, ListTypeOK
    <2> QED
      BY <1>1, <2>4, <2>5 DEF DeleteByMac, ListTypeOK, Modes
  <1>2. CASE End(nx) # {Null}
    BY <1>2, OutcomeType DEF DeleteByMac, StopsAs, ListTypeOK
  <1> QED
    BY <1>1, <1>2

LEMMA DeleteAllType == ASSUME ListTypeOK, DeleteAll PROVE ListTypeOK'
  BY DEF ListTypeOK, DeleteAll, StopsAs, Modes, Pointer

LEMMA FreeLinkType == ASSUME ListTypeOK, FreeLinkAndExit PROVE ListTypeOK'
  BY DEF ListTypeOK, FreeLinkAndExit, StopsAs, Modes

LEMMA VisitAllType == ASSUME ListTypeOK, VisitAll PROVE ListTypeOK'
  BY OutcomeType DEF ListTypeOK, VisitAll

-----------------------------------------------------------------------------
(* One row per camera, whatever delete_ipcam_node_by_mac has left behind *)

(* Marking a known camera lists no other node. *)
LEMMA FoundInListed ==
    ASSUME ListTypeOK, NEW c \in Cell, NEW m \in Mac, NEW buf \in Buffers,
           FoundIn(c, m, buf)
    PROVE  Listed' \subseteq Listed /\ mac' = mac
  BY BufferReach DEF FoundIn, Listed, InUse

(* A new row is added to rows that were listed, none of them its camera's. *)
LEMMA InsertNodeListed ==
    ASSUME ListTypeOK, NEW c \in Cell, NEW m \in Mac, NEW buf \in Buffers,
           InsertNode(c, m, buf)
    PROVE  /\ mac' = [mac EXCEPT ![c] = m]
           /\ c \notin Listed
           /\ \A d \in Listed' : d # c => d \in Listed /\ mac[d] # m
  <1> DEFINE nx == WithBuffer(buf)
  <1>1. nx \in [Cell \cup {Link} -> Pointer]
    BY WithBufferType
  <1>2. /\ Reach(nx) \subseteq Cell
        /\ ClosedWalk(nx, Cell, Reach(nx))
    BY ChainClosed DEF Reach
  <1>3. Reach(nx) \cap Rows(m) = {}
    BY SearchMisses, NameAssumption DEF InsertNode
  <1>4. next' = [nx EXCEPT ![c] = nx[Link], ![Link] = c]
    BY DEF InsertNode
  <1>5. ClosedWalk(next', Cell, Reach(nx) \cup {c})
    BY <1>1, <1>2, <1>4, NameAssumption DEF ClosedWalk
  <1>6. Reach(next') \subseteq Reach(nx) \cup {c}
    BY <1>2, <1>5, ChainLeast, Reach(nx) \cup {c} \in SUBSET Cell DEF Reach
  <1>7. \A d \in Listed' : d # c => d \in Listed /\ mac[d] # m
    <2>1. SUFFICES ASSUME NEW d \in Listed', d # c
                   PROVE  d \in Listed /\ mac[d] # m
      OBVIOUS
    <2>2. d \in Reach(nx) /\ d \in Cell
      BY <1>2, <1>6, <2>1 DEF Listed
    <2>3. mac'[d] = mac[d]
      BY <2>1, <2>2 DEF InsertNode, ListTypeOK
    <2>4. d \in InUse
      BY <2>1, <2>2, <2>3 DEF Listed, InUse
    <2>5. d \in Reach(next)
      BY <2>2, BufferReach
    <2> QED
      BY <1>3, <2>2, <2>4, <2>5 DEF Listed, Rows
  <1> QED
    BY <1>7 DEF InsertNode, Listed

(* A logout message lists no node that was not listed, and the MACs of the
   rows that stay do not change. *)
LEMMA DeleteByMacListed ==
    ASSUME ListTypeOK, NEW m \in Mac, NEW buf \in Buffers, DeleteByMac(m, buf)
    PROVE  \A d \in Listed' : d \in Listed /\ mac'[d] = mac[d]
  <1> DEFINE nx == WithBuffer(buf)
  <1>1. CASE End(nx) = {Null}
    <2>1. PICK e \in Exit(nx, Matches(m)) : next' = [nx EXCEPT ![Link] = e]
      BY <1>1 DEF DeleteByMac
    <2>2. nx \in [Cell \cup {Link} -> Pointer]
      BY WithBufferType
    <2>3. /\ Reach(nx) \subseteq Cell
          /\ ClosedWalk(nx, Cell, Reach(nx))
      BY ChainClosed DEF Reach
    <2>4. e \in Cell => e \in Reach(nx)
      BY ChainInReach DEF Matches, InUse
    <2>5. ClosedWalk(next', Cell, Reach(nx))
      BY <2>1, <2>2, <2>3, <2>4, NameAssumption DEF ClosedWalk
    <2>6. Reach(next') \subseteq Reach(nx)
      BY <2>3, <2>5, ChainLeast DEF Reach
    <2>7. \A d \in Cell : mac'[d] # NoMac => mac'[d] = mac[d]
      BY <1>1 DEF DeleteByMac
    <2> QED
      BY <2>3, <2>6, <2>7, BufferReach DEF Listed, InUse
  <1>2. CASE End(nx) # {Null}
    BY <1>2 DEF DeleteByMac, StopsAs, Listed, InUse
  <1> QED
    BY <1>1, <1>2

(* Deleting all rows lists none, or stops the process. *)
LEMMA DeleteAllListed ==
    ASSUME ListTypeOK, DeleteAll
    PROVE  \A d \in Listed' : d \in Listed /\ mac'[d] = mac[d]
  <1>1. CASE End(next) = {Null} /\ Reach(next) \subseteq InUse
    <2>1. next' = [next EXCEPT ![Link] = Null]
      BY <1>1 DEF DeleteAll
    <2>2. ClosedWalk(next', Cell, {})
      BY <2>1, NameAssumption DEF ListTypeOK, ClosedWalk
    <2>3. Reach(next') = {}
      BY <2>2, ChainLeast DEF Reach
    <2> QED
      BY <2>3 DEF Listed
  <1>2. CASE ~(End(next) = {Null} /\ Reach(next) \subseteq InUse)
    BY <1>2 DEF DeleteAll, StopsAs, Listed, InUse
  <1> QED
    BY <1>1, <1>2

-----------------------------------------------------------------------------
(* The theorems of the list *)

(* One step of any call keeps the list well typed and free of duplicates. *)
LEMMA ListStep ==
    ASSUME ListTypeOK, NoDuplicateRows, [ListNext]_listVars
    PROVE  ListTypeOK' /\ NoDuplicateRows'
  <1>1. ASSUME NEW m \in Mac, NEW buf \in Buffers, NEW c \in Cell, FoundIn(c, m, buf)
        PROVE  ListTypeOK' /\ NoDuplicateRows'
    <2>1. Listed' \subseteq Listed /\ mac' = mac
      BY <1>1, FoundInListed
    <2> QED
      BY <1>1, <2>1, FoundInType DEF NoDuplicateRows
  <1>2. ASSUME NEW m \in Mac, NEW buf \in Buffers, NEW c \in Cell, InsertNode(c, m, buf)
        PROVE  ListTypeOK' /\ NoDuplicateRows'
    <2>1. /\ mac' = [mac EXCEPT ![c] = m]
          /\ \A d \in Listed' : d # c => d \in Listed /\ mac[d] # m
      BY <1>2, InsertNodeListed
    <2>2. \A d \in Listed' : d # c => mac'[d] = mac[d]
      BY <2>1 DEF ListTypeOK, Listed, InUse
    <2>3. mac'[c] = m
      BY <2>1 DEF ListTypeOK
    <2> QED
      BY <1>2, <2>1, <2>2, <2>3, InsertNodeType DEF NoDuplicateRows
  <1>3. ASSUME NEW m \in Mac, NEW buf \in Buffers, SearchFails(m, buf)
        PROVE  ListTypeOK' /\ NoDuplicateRows'
    BY <1>3, SearchFailsType DEF SearchFails, StopsAs, NoDuplicateRows, Listed, InUse
  <1>4. ASSUME NEW m \in Mac, NEW buf \in Buffers, DeleteByMac(m, buf)
        PROVE  ListTypeOK' /\ NoDuplicateRows'
    <2>1. \A d \in Listed' : d \in Listed /\ mac'[d] = mac[d]
      BY <1>4, DeleteByMacListed
    <2> QED
      BY <1>4, <2>1, DeleteByMacType DEF NoDuplicateRows
  <1>5. CASE DeleteAll
    <2>1. \A d \in Listed' : d \in Listed /\ mac'[d] = mac[d]
      BY <1>5, DeleteAllListed
    <2> QED
      BY <1>5, <2>1, DeleteAllType DEF NoDuplicateRows
  <1>6. CASE FreeLinkAndExit
    BY <1>6, FreeLinkType DEF FreeLinkAndExit, StopsAs, NoDuplicateRows, Listed, InUse
  <1>7. CASE VisitAll
    BY <1>7, VisitAllType DEF VisitAll, NoDuplicateRows, Listed, InUse
  <1>8. CASE UNCHANGED listVars
    BY <1>8 DEF listVars, ListTypeOK, NoDuplicateRows, Listed, InUse
  <1> QED
    BY <1>1, <1>2, <1>3, <1>4, <1>5, <1>6, <1>7, <1>8 DEF ListNext, InsertNodulp

(* The empty list of create_empty_ipcam_link. *)
LEMMA ListStart ==
    ASSUME ListInit
    PROVE  ListTypeOK /\ NoDuplicateRows
  BY DEF ListInit, ListTypeOK, Pointer, Modes, NoDuplicateRows, Listed, InUse

(* Every call leaves the list's fields in their types, and the list never
   holds two rows of one camera, whatever calls ipcam_list.c gets. *)
THEOREM ListCorrect == ListSpec => []ListTypeOK /\ []NoDuplicateRows
  <1>1. ListInit => ListTypeOK /\ NoDuplicateRows
    BY ListStart
  <1>2. ListTypeOK /\ NoDuplicateRows /\ [ListNext]_listVars
            => ListTypeOK' /\ NoDuplicateRows'
    BY ListStep
  <1> QED
    BY <1>1, <1>2, PTL DEF ListSpec

-----------------------------------------------------------------------------
(* The list stays sound as long as a logout message concerns the first row *)

(* No two nodes of the list have the same successor.  It is what makes the
   first node, once unlinked, unreachable: without it a later node could
   lead back to it. *)
OneWayIn ==
    \A p, q \in Reach(next) \cup {Link} : next[p] = next[q] /\ next[p] \in Cell => p = q

(* The nodes of a walk are visited one after the other: those before z are
   those before y, and y, when y leads to z. *)
LEMMA ChainGrows ==
    ASSUME NEW nx, NEW S, NEW y \in S, NEW z \in S, nx[y] = z
    PROVE  Chain(nx, S \ {z}) \subseteq Chain(nx, S \ {y}) \cup {y}
  <1> DEFINE T == (Chain(nx, S \ {y}) \cup {y}) \ {z}
  <1>1. /\ Chain(nx, S \ {y}) \subseteq S \ {y}
        /\ ClosedWalk(nx, S \ {y}, Chain(nx, S \ {y}))
    BY ChainClosed
  <1>2. ClosedWalk(nx, S \ {z}, T)
    BY <1>1 DEF ClosedWalk
  <1>3. T \in SUBSET (S \ {z})
    BY <1>1
  <1> QED
    BY <1>2, <1>3, ChainLeast

(* A node from which the walk leaves S comes before no other. *)
LEMMA ChainExitLast ==
    ASSUME NEW nx, NEW S, NEW e, nx[e] \notin S
    PROVE  \A y \in Chain(nx, S) : e \notin Chain(nx, S \ {y})
  <1> DEFINE D == {y \in Chain(nx, S) : e \notin Chain(nx, S \ {y})}
  <1>0. Chain(nx, S) \subseteq S /\ ClosedWalk(nx, S, Chain(nx, S))
    BY ChainClosed
  <1>1. nx[Link] \in S => nx[Link] \in D
    <2>1. ClosedWalk(nx, S \ {nx[Link]}, {})
      BY DEF ClosedWalk
    <2>2. Chain(nx, S \ {nx[Link]}) = {}
      BY <2>1, ChainLeast, {} \in SUBSET (S \ {nx[Link]})
    <2> QED
      BY <1>0, <2>2 DEF ClosedWalk
  <1>2. ASSUME NEW y \in D, nx[y] \in S
        PROVE  nx[y] \in D
    <2>1. Chain(nx, S \ {nx[y]}) \subseteq Chain(nx, S \ {y}) \cup {y}
      BY <1>0, <1>2, ChainGrows
    <2> QED
      BY <1>0, <1>2, <2>1 DEF ClosedWalk
  <1>3. ClosedWalk(nx, S, D) /\ D \in SUBSET S
    BY <1>0, <1>1, <1>2 DEF ClosedWalk
  <1>4. Chain(nx, S) \subseteq D
    BY <1>3, ChainLeast
  <1> QED
    BY <1>4

(* A walk leaves S from one node only. *)
LEMMA ChainOneExit ==
    ASSUME NEW nx, NEW S, NEW a \in Chain(nx, S) \cup {Link}, nx[a] \notin S,
           NEW b \in Chain(nx, S) \cup {Link}, nx[b] \notin S
    PROVE  a = b
  <1>0. Chain(nx, S) \subseteq S
    BY ChainClosed
  <1>1. CASE nx[Link] \notin S
    <2>1. ClosedWalk(nx, S, {})
      BY <1>1 DEF ClosedWalk
    <2>2. Chain(nx, S) = {}
      BY <2>1, ChainLeast, {} \in SUBSET S
    <2> QED
      BY <2>2
  <1>2. CASE nx[Link] \in S
    <2>1. a \in Chain(nx, S) /\ b \in Chain(nx, S)
      BY <1>2
    <2>2. ClosedWalk(nx, S, Chain(nx, S \ {a}) \cup {a})
      <3>1. ClosedWalk(nx, S \ {a}, Chain(nx, S \ {a}))
        BY ChainClosed
      <3> QED
        BY <3>1 DEF ClosedWalk
    <2>3. Chain(nx, S \ {a}) \cup {a} \in SUBSET S
      BY <1>0, <2>1, ChainClosed
    <2>4. b \in Chain(nx, S \ {a}) \cup {a}
      BY <2>1, <2>2, <2>3, ChainLeast
    <2>5. b \notin Chain(nx, S \ {a})
      BY <2>1, ChainExitLast
    <2> QED
      BY <2>4, <2>5
  <1> QED
    BY <1>1, <1>2

(* A walk over a list that ends in a null pointer comes to no node by two
   ways: it would go round, and not come to the end. *)
LEMMA ChainIsOneWay ==
    ASSUME ListTypeOK, End(next) = {Null}
    PROVE  OneWayIn
  <1> DEFINE R == Reach(next)
             Before(y) == Chain(next, Cell \ {y})
  <1>1. R \subseteq Cell /\ ClosedWalk(next, Cell, R)
    BY ChainClosed DEF Reach
  <1>2. \A y : Before(y) \subseteq Cell \ {y} /\ ClosedWalk(next, Cell \ {y}, Before(y))
    BY ChainClosed
  <1>3. PICK e \in R \cup {Link} : next[e] = Null
    BY DEF End, Exit, Reach
  <1>4. \A y \in R : e \notin Before(y)
    BY <1>3, ChainExitLast, NameAssumption DEF Reach
  <1>5. ASSUME NEW x \in Cell, NEW q \in R, next[q] = x, q \notin Before(x)
        PROVE  FALSE
    <2>0. /\ Before(q) \subseteq Cell \ {q}
          /\ ClosedWalk(next, Cell \ {q}, Before(q))
          /\ Before(x) \subseteq Cell \ {x}
          /\ ClosedWalk(next, Cell \ {x}, Before(x))
      BY <1>2
    <2>1. ASSUME x \notin Before(q) \cup {q}
          PROVE  FALSE
      <3>1. ClosedWalk(next, Cell \ {q}, Before(x) \cap Before(q))
        BY <2>0, <2>1 DEF ClosedWalk
      <3>2. Before(q) \subseteq Before(x)
        BY <2>0, <3>1, ChainLeast, Before(x) \cap Before(q) \in SUBSET (Cell \ {q})
      <3>3. ~ClosedWalk(next, Cell, Before(q))
        BY <1>5, <2>0, ChainLeast, Before(q) \in SUBSET Cell DEF Reach
      <3>4. \E d \in Before(q) \cup {Link} : next[d] = q
        BY <2>0, <3>3 DEF ClosedWalk
      <3>5. q \in Cell \ {x}
        BY <1>1, <1>5, <2>1
      <3>6. q \in Before(x)
        BY <2>0, <3>2, <3>4, <3>5 DEF ClosedWalk
      <3> QED
        BY <1>5, <3>6
    <2>2. ClosedWalk(next, Cell, Before(q) \cup {q})
      BY <1>1, <1>5, <2>0, <2>1 DEF ClosedWalk
    <2>3. R \subseteq Before(q) \cup {q}
      BY <1>1, <2>0, <2>2, ChainLeast, Before(q) \cup {q} \in SUBSET Cell DEF Reach
    <2>4. e # Link
      <3>1. CASE e = Link
        <4>1. ClosedWalk(next, Cell, {})
          BY <1>3, <3>1, NameAssumption DEF ClosedWalk
        <4> QED
          BY <1>5, <4>1, ChainLeast, {} \in SUBSET Cell DEF Reach
      <3> QED
        BY <3>1
    <2> QED
      BY <1>3, <1>4, <1>5, <2>3, <2>4, NameAssumption
  <1>6. ASSUME NEW p \in R \cup {Link}, NEW q \in R \cup {Link},
               next[p] = next[q], next[p] \in Cell
        PROVE  p = q
    <2>1. PICK x \in Cell : x = next[p] /\ x = next[q]
      BY <1>6
    <2>2. p \in Before(x) \cup {Link} /\ q \in Before(x) \cup {Link}
      BY <1>5, <2>1
    <2> QED
      BY <2>1, <2>2, ChainOneExit
  <1> QED
    BY <1>6 DEF OneWayIn

SoundInv == ListTypeOK /\ ListSound /\ OneWayIn

(* No receive buffer overlays a node of a sound list. *)
LEMMA SoundBuffer ==
    ASSUME ListSound, NEW buf \in Buffers
    PROVE  buf = NoCell /\ WithBuffer(buf) = next
  BY DEF ListSound, Buffers, WithBuffer

(* The links of a sound list lead to its nodes, and one of them is null. *)
LEMMA SoundLinks ==
    ASSUME SoundInv
    PROVE  /\ Reach(next) \subseteq Cell
           /\ \A p \in Reach(next) \cup {Link} : next[p] \in Reach(next) \cup {Null}
           /\ \E p \in Reach(next) \cup {Link} : next[p] = Null
           /\ Link \notin Reach(next)
  <1>1. Reach(next) \subseteq Cell /\ ClosedWalk(next, Cell, Reach(next))
    BY ChainClosed DEF Reach
  <1>2. {next[p] : p \in Reach(next) \cup {Link}} \ Cell = {Null}
    BY DEF SoundInv, ListSound, End, Exit, Reach
  <1>3. ASSUME NEW p \in Reach(next) \cup {Link}, next[p] \notin Reach(next)
        PROVE  next[p] = Null
    <2>1. next[p] \notin Cell
      BY <1>1, <1>3 DEF ClosedWalk
    <2> QED
      BY <1>2, <2>1
  <1>4. \E p \in Reach(next) \cup {Link} : next[p] = Null
    BY <1>2
  <1> QED
    BY <1>1, <1>3, <1>4, NameAssumption

(* No search of a sound list fails, and no walk. *)
LEMMA SoundWalks ==
    ASSUME SoundInv
    PROVE  /\ Outcome(End(next)) = "running"
           /\ \A m \in Mac, buf \in Buffers : ~SearchFails(m, buf)
  <1>1. Outcome(End(next)) = "running"
    BY NameAssumption DEF SoundInv, ListSound, Outcome
  <1>2. ASSUME NEW m \in Mac, NEW buf \in Buffers, SearchFails(m, buf)
        PROVE  FALSE
    <2>1. WithBuffer(buf) = next
      BY SoundBuffer DEF SoundInv
    <2>2. Search(next, m) \in {{}, {Wild}}
      BY <1>2, <2>1 DEF SearchFails
    <2>3. Reach(next) \cap Rows(m) = {}
      BY <2>2, SearchMisses, NameAssumption
    <2>4. ClosedWalk(next, Cell \ Rows(m), Chain(next, Cell \ Rows(m)))
      BY ChainClosed
    <2>5. ClosedWalk(next, Cell, Chain(next, Cell \ Rows(m)))
      <3>1. next[Link] \in Cell => next[Link] \in Cell \ Rows(m)
        BY <2>3, SoundLinks, NameAssumption
      <3>2. \A d \in Chain(next, Cell \ Rows(m)) :
               next[d] \in Cell => next[d] \in Cell \ Rows(m)
        BY <2>3, SoundLinks, ChainInReach, Cell \ Rows(m) \in SUBSET Cell, NameAssumption
      <3> QED
        BY <2>4, <3>1, <3>2 DEF ClosedWalk
    <2>6. Reach(next) \subseteq Chain(next, Cell \ Rows(m))
      BY <2>5, ChainClosed, ChainLeast, Chain(next, Cell \ Rows(m)) \in SUBSET Cell DEF Reach
    <2>7. PICK p \in Reach(next) \cup {Link} : next[p] = Null
      BY SoundLinks
    <2>8. Null \in Search(next, m)
      BY <2>6, <2>7, NameAssumption DEF Search, Exit
    <2> QED
      BY <2>2, <2>8, NameAssumption
  <1> QED
    BY <1>1, <1>2

(* A step that leaves list and allocation alone. *)
LEMMA SoundSame ==
    ASSUME SoundInv, ListTypeOK', next' = next, mac' = mac
    PROVE  SoundInv'
  BY DEF SoundInv, ListSound, OneWayIn, InUse

(* A new node at the head of a sound list. *)
LEMMA SoundInsert ==
    ASSUME SoundInv, NEW c \in Cell, NEW m \in Mac, NEW buf \in Buffers,
           InsertNode(c, m, buf), ListTypeOK'
    PROVE  SoundInv' /\ Reach(next') = Reach(next) \cup {c}
  <1> DEFINE R == Reach(next)
             R2 == Reach(next')
  <1>0. next \in [Cell \cup {Link} -> Pointer] /\ mac \in [Cell -> Mac \cup {NoMac}]
    BY DEF SoundInv, ListTypeOK
  <1>1. /\ next' = [next EXCEPT ![c] = next[Link], ![Link] = c]
        /\ mac' = [mac EXCEPT ![c] = m]
        /\ c \notin InUse
    BY SoundBuffer DEF InsertNode, SoundInv
  <1>2. c \notin R /\ c # Link
    BY <1>1, NameAssumption DEF SoundInv, ListSound
  <1>3. /\ next'[Link] = c
        /\ next'[c] = next[Link]
        /\ \A d \in R : next'[d] = next[d]
    BY <1>0, <1>1, <1>2, SoundLinks
  <1>4. ClosedWalk(next', Cell, R \cup {c})
    BY <1>3, SoundLinks, NameAssumption DEF ClosedWalk
  <1>5. R2 \subseteq R \cup {c}
    BY <1>4, SoundLinks, ChainLeast, R \cup {c} \in SUBSET Cell DEF Reach
  <1>6. ClosedWalk(next', Cell, R2) /\ R2 \subseteq Cell
    BY ChainClosed DEF Reach
  <1>7. c \in R2
    BY <1>3, <1>6 DEF ClosedWalk
  <1>8. R \subseteq R2
    <2>1. ClosedWalk(next, Cell, R \cap R2)
      BY <1>3, <1>6, <1>7, SoundLinks, NameAssumption DEF ClosedWalk
    <2>2. R \cap R2 \in SUBSET Cell
      BY <1>6
    <2> QED
      BY <2>1, <2>2, ChainLeast DEF Reach
  <1>9. R2 \subseteq InUse'
    <2>1. \A d \in R : d \in InUse /\ d # c
      BY <1>2 DEF SoundInv, ListSound
    <2>2. \A d \in R : d \in InUse'
      BY <1>0, <1>1, <2>1 DEF InUse
    <2>3. m # NoMac
      BY MacAssumption, SMT DEF NoMac
    <2>4. c \in InUse'
      BY <1>0, <1>1, <2>3 DEF InUse
    <2> QED
      BY <1>5, <2>2, <2>4
  <1>10. End(next') = {Null}
    <2>1. \A p \in R2 \cup {Link} : next'[p] \in Cell \cup {Null}
      BY <1>3, <1>5, SoundLinks
    <2>2. \E p \in R2 \cup {Link} : next'[p] = Null
      BY <1>3, <1>7, <1>8, SoundLinks
    <2> QED
      BY <2>1, <2>2, NameAssumption DEF End, Exit, Reach
  <1>11. OneWayIn'
    <2>1. SUFFICES ASSUME NEW p \in R2 \cup {Link}, NEW q \in R2 \cup {Link},
                          next'[p] = next'[q], next'[p] \in Cell
                   PROVE  p = q
      BY DEF OneWayIn
    <2>2. \A x \in R2 \cup {Link} : next'[x] = c <=> x = Link
      BY <1>2, <1>3, <1>5, SoundLinks, NameAssumption
    <2>3. CASE p = Link \/ q = Link
      BY <1>3, <2>1, <2>2, <2>3
    <2>4. CASE p # Link /\ q # Link
      <3>1. p \in R \cup {c} /\ q \in R \cup {c}
        BY <1>5, <2>4
      <3>2. CASE p = c /\ q \in R
        BY <1>3, <2>1, <3>2, SoundLinks DEF SoundInv, OneWayIn
      <3>3. CASE q = c /\ p \in R
        BY <1>3, <2>1, <3>3, SoundLinks DEF SoundInv, OneWayIn
      <3>4. CASE p \in R /\ q \in R
        BY <1>3, <2>1, <3>4 DEF SoundInv, OneWayIn
      <3> QED
        BY <3>1, <3>2, <3>3, <3>4
    <2> QED
      BY <2>3, <2>4
  <1> QED
    BY <1>5, <1>7, <1>8, <1>9, <1>10, <1>11 DEF SoundInv, ListSound

(* A logout message that concerns at most the first row. *)
LEMMA SoundDelete ==
    ASSUME SoundInv, NEW m \in Mac, NEW buf \in Buffers, DeleteByMac(m, buf),
           Matches(m) \cap Reach(next) \subseteq {next[Link]}, ListTypeOK'
    PROVE  /\ SoundInv'
           /\ mode' = "running"
           /\ Reach(next') = Reach(next) \ Matches(m)
  <1> DEFINE R == Reach(next)
             R2 == Reach(next')
             h == next[Link]
             P == Chain(next, Matches(m))
  <1>0. next \in [Cell \cup {Link} -> Pointer] /\ mac \in [Cell -> Mac \cup {NoMac}]
    BY DEF SoundInv, ListTypeOK
  <1>1. PICK e \in Exit(next, Matches(m)) :
          /\ next' = [next EXCEPT ![Link] = e]
          /\ mac' = [c \in Cell |-> IF c \in R \cap Matches(m) THEN NoMac ELSE mac[c]]
          /\ mode' = "running"
    BY SoundBuffer DEF DeleteByMac, SoundInv, ListSound
  <1>2. P \subseteq R \cap Matches(m) /\ ClosedWalk(next, Matches(m), P)
    BY ChainClosed, ChainInReach DEF Matches, InUse
  <1>3. CASE h \notin Matches(m)
    <2>1. R \cap Matches(m) = {}
      BY <1>3
    <2>2. e = h
      BY <1>2, <2>1 DEF Exit
    <2>3. next' = next /\ mac' = mac
      BY <1>0, <1>1, <2>1, <2>2
    <2> QED
      BY <1>1, <2>1, <2>3, SoundSame
  <1>4. CASE h \in Matches(m)
    <2>1. h \in Cell /\ h \in R /\ h \in P
      BY <1>2, <1>4, SoundLinks, NameAssumption DEF Matches, InUse, ClosedWalk
    <2>2. P = {h} /\ R \cap Matches(m) = {h}
      BY <1>2, <1>4, <2>1
    <2>3. e = next[h] /\ e # h
      BY <1>4, <2>2 DEF Exit
    <2>4. \A d \in R : next[d] # h
      BY <2>1, SoundLinks DEF SoundInv, OneWayIn
    <2>5. next'[Link] = next[h] /\ \A d \in R : next'[d] = next[d]
      BY <1>0, <1>1, <2>3, SoundLinks
    <2>6. ClosedWalk(next', Cell, R \ {h})
      BY <2>1, <2>3, <2>4, <2>5, SoundLinks, NameAssumption DEF ClosedWalk
    <2>7. R2 \subseteq R \ {h}
      BY <2>6, SoundLinks, ChainLeast, R \ {h} \in SUBSET Cell DEF Reach
    <2>8. ClosedWalk(next', Cell, R2) /\ R2 \subseteq Cell
      BY ChainClosed DEF Reach
    <2>9. R \subseteq R2 \cup {h}
      <3>1. ClosedWalk(next, Cell, R2 \cup {h})
        BY <2>1, <2>5, <2>7, <2>8 DEF ClosedWalk
      <3>2. R2 \cup {h} \in SUBSET Cell
        BY <2>1, <2>8
      <3> QED
        BY <3>1, <3>2, ChainLeast DEF Reach
    <2>10. R2 \subseteq InUse'
      <3>1. \A d \in R2 : d \in InUse /\ d \notin R \cap Matches(m)
        BY <2>2, <2>7 DEF SoundInv, ListSound
      <3> QED
        BY <1>1, <3>1 DEF InUse
    <2>11. End(next') = {Null}
      <3>1. \A p \in R2 \cup {Link} : next'[p] \in Cell \cup {Null}
        BY <2>1, <2>5, <2>7, SoundLinks
      <3>2. PICK p \in R \cup {Link} : next[p] = Null
        BY SoundLinks
      <3>3. p # Link
        BY <2>1, <3>2, NameAssumption
      <3>4. \E q \in R2 \cup {Link} : next'[q] = Null
        BY <2>5, <2>7, <2>9, <3>2, <3>3
      <3> QED
        BY <3>1, <3>4, NameAssumption DEF End, Exit, Reach
    <2>12. OneWayIn'
      <3>1. SUFFICES ASSUME NEW p \in R2 \cup {Link}, NEW q \in R2 \cup {Link},
                            next'[p] = next'[q], next'[p] \in Cell
                     PROVE  p = q
        BY DEF OneWayIn
      <3>2. DEFINE old(x) == IF x = Link THEN h ELSE x
      <3>3. \A x \in R2 \cup {Link} : old(x) \in R /\ next'[x] = next[old(x)]
        BY <2>1, <2>5, <2>7, SoundLinks
      <3>4. old(p) = old(q)
        BY <3>1, <3>3 DEF SoundInv, OneWayIn
      <3> QED
        BY <2>7, <3>1, <3>4
    <2> QED
      BY <1>1, <2>2, <2>7, <2>9, <2>10, <2>11, <2>12 DEF SoundInv, ListSound
  <1> QED
    BY <1>3, <1>4

(* Deleting all rows of a sound list. *)
LEMMA SoundDeleteAll ==
    ASSUME SoundInv, DeleteAll, ListTypeOK'
    PROVE  /\ SoundInv'
           /\ mode' = "running"
           /\ Reach(next') = {}
  <1>1. next' = [next EXCEPT ![Link] = Null] /\ mode' = "running"
    BY DEF DeleteAll, SoundInv, ListSound
  <1>2. next'[Link] = Null
    BY <1>1 DEF SoundInv, ListTypeOK
  <1>3. Reach(next') = {}
    <2>1. ClosedWalk(next', Cell, {})
      BY <1>2, NameAssumption DEF ClosedWalk
    <2> QED
      BY <2>1, ChainLeast DEF Reach
  <1>4. End(next') = {Null}
    BY <1>2, <1>3, NameAssumption DEF End, Exit, Reach
  <1>5. OneWayIn'
    BY <1>3 DEF OneWayIn
  <1> QED
    BY <1>1, <1>3, <1>4, <1>5 DEF SoundInv, ListSound

(* The empty list is sound. *)
LEMMA SoundStart ==
    ASSUME ListInit
    PROVE  SoundInv
  <1>1. next[Link] = Null /\ ClosedWalk(next, Cell, {})
    BY NameAssumption DEF ListInit, ClosedWalk
  <1>2. Reach(next) = {}
    BY <1>1, ChainLeast DEF Reach
  <1>3. End(next) = {Null}
    BY <1>1, <1>2, NameAssumption DEF End, Exit, Reach
  <1> QED
    BY <1>2, <1>3, ListStart DEF SoundInv, ListSound, OneWayIn

=============================================================================
