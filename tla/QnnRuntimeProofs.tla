--------------------------- MODULE QnnRuntimeProofs ---------------------------
(***************************************************************************)
(* For every number of tensors, wherever the way up ends: an explicit      *)
(* release gives everything back, nothing is taken from under what rests   *)
(* on it, and what a graph executes on is alive.  The argument is one      *)
(* about the half-finished step: outside of it the members know all that   *)
(* is held, and only a tensor whose turn has come has a buffer.            *)
(***************************************************************************)
EXTENDS QnnRuntime, TLAPS

Labels == {"open", "power", "system", "load", "metadata", "unreadable", "context", "graphs",
           "buffer", "mapping", "register", "plain", "append", "running", "destroy", "gone"}

Down == pc \in {"destroy", "gone"}

\* What is held and not yet known: the local handle of the step being made.
InHand ==
    IF pc = "metadata" \/ (Down /\ ~supported) THEN {Resource("systemContext")}
    ELSE IF pc \in {"mapping", "register"} THEN {Memory(at)} ELSE {}

MembersKnow ==
    /\ held \ known \subseteq InHand
    /\ Resource("systemContext") \notin known

\* A buffer that execute may hand to the driver, once it is bound.
Served(b) ==
    /\ buffers[b].tensor = "handle" => Handle(b) \in held /\ buffers[b].host = "shared"
    /\ buffers[b].tensor = "raw" => buffers[b].host = "owned"
    /\ buffers[b].host = "shared" => Memory(b) \in held
    /\ buffers[b].tensor # "none"

\* The tensors before the current one are served, those behind it untouched.
OneAfterTheOther ==
    ~Down => /\ \A b \in Ids : b < at => Served(b)
             /\ \A b \in Ids : b > at => buffers[b] = NoBuffer

CurrentTensor ==
    /\ pc \in {"mapping", "register", "plain", "append"} => at \in Ids
    /\ pc \in {"mapping", "register"} => Memory(at) \in held
    /\ pc = "register" => buffers[at].host = "shared" /\ buffers[at].tensor = "raw"
    /\ pc = "plain" => buffers[at].host = "none"
    /\ pc = "append" => Served(at)
    /\ ~Down /\ at \in Ids /\ pc \notin {"register", "plain", "append"} => buffers[at] = NoBuffer
    /\ pc = "running" => at > Tensors /\ \A b \in Ids : buffers[b].named

Places == 1 .. 10

\* The places of the release that have been passed are empty.
ReleasedSoFar ==
    /\ Down => \A j \in Places : j < step => ReleaseOrder[j] \cap known = {}
    /\ pc = "gone" /\ explicit => step > 10

\* A tensor that has no buffer yet has no handle, and no memory in the list.
NotYetListed ==
    \A b \in Ids : b >= at /\ (b = at => pc # "append") /\ ~Down =>
                       Handle(b) \notin held /\ Memory(b) \notin known

QnnInv ==
    /\ TypeOK /\ pc \in Labels /\ step >= 1
    /\ MembersKnow
    /\ OneAfterTheOther
    /\ CurrentTensor
    /\ ReleasedSoFar
    /\ NotYetListed
-----------------------------------------------------------------------------
LEMMA Apart ==
    /\ \A m, n \in Names : Resource(m) = Resource(n) => m = n
    /\ \A n \in Names, b \in Ids : Resource(n) # Memory(b) /\ Resource(n) # Handle(b)
    /\ \A b, c \in Ids : Memory(b) # Handle(c)
    /\ \A b, c \in Ids : (Memory(b) = Memory(c) => b = c) /\ (Handle(b) = Handle(c) => b = c)
BY TensorsAssumption DEF Resource, Memory, Handle, Names, Ids

LEMMA IsResource ==
    /\ \A n \in Names : Resource(n) \in Resources
    /\ \A b \in Ids : Memory(b) \in Resources /\ Handle(b) \in Resources
BY DEF Resources

LEMMA QnnInit == Init => QnnInv
<1> SUFFICES ASSUME Init PROVE QnnInv
  OBVIOUS
<1> USE TensorsAssumption DEF Init, Ids
<1>1. TypeOK /\ pc \in Labels /\ step >= 1  BY DEF TypeOK, NoBuffer, Labels
<1>2. MembersKnow  BY DEF MembersKnow
<1>3. OneAfterTheOther /\ CurrentTensor
  BY DEF OneAfterTheOther, CurrentTensor, Down, Served
<1>4. ReleasedSoFar /\ NotYetListed  BY DEF ReleasedSoFar, NotYetListed, Down
<1> QED  BY <1>1, <1>2, <1>3, <1>4 DEF QnnInv

\* Destruction may begin wherever the members know all that is held, and
\* with the handle left behind if the version of the file is not read.
LEMMA DestroyKeeps ==
    ASSUME QnnInv, Destroy,
           held \ known \subseteq IF supported THEN {} ELSE {Resource("systemContext")}
    PROVE  QnnInv'
<1> USE DEF Destroy, env, QnnInv
<1>1. TypeOK' /\ pc' \in Labels /\ step' >= 1  BY DEF TypeOK, Labels
<1>2. MembersKnow'  BY DEF MembersKnow, InHand, Down
<1>3. OneAfterTheOther' /\ CurrentTensor'
  BY DEF OneAfterTheOther, CurrentTensor, Down
<1>4. ReleasedSoFar' /\ NotYetListed'  BY DEF ReleasedSoFar, NotYetListed, Down, Places
<1> QED  BY <1>1, <1>2, <1>3, <1>4

Early == {"open", "power", "system", "load", "metadata", "unreadable", "context", "graphs"}

\* What a step before the first buffer does: it takes or gives back resources
\* of the runtime itself, never a memory or a handle of a tensor.
LEMMA EarlyKeeps ==
    ASSUME QnnInv, pc \in Early, pc' \in Early \cup {"buffer"},
           UNCHANGED <<env, buffers, at>>, TypeOK', step' >= 1, MembersKnow',
           \A b \in Ids : /\ (Handle(b) \in held') = (Handle(b) \in held)
                         /\ (Memory(b) \in held') = (Memory(b) \in held)
                         /\ (Memory(b) \in known') = (Memory(b) \in known)
    PROVE  QnnInv'
<1>1. pc' \in Labels  BY DEF Early, Labels
<1>2. ~Down /\ ~Down' /\ pc # "append" /\ pc' # "append"  BY DEF Early, Down
<1>3. OneAfterTheOther'
  <2>1. \A b \in Ids : Served(b) => Served(b)'  BY DEF Served, Memory, Handle
  <2> QED  BY <1>2, <2>1 DEF QnnInv, OneAfterTheOther
<1>4. CurrentTensor'
  <2>1. at \in Ids => buffers[at] = NoBuffer  BY <1>2 DEF QnnInv, CurrentTensor, Early
  <2>2. pc' \notin {"mapping", "register", "plain", "append", "running"}  BY DEF Early
  <2> QED  BY <2>1, <2>2 DEF CurrentTensor
<1>5. ReleasedSoFar'  BY <1>2 DEF ReleasedSoFar, Down
<1>6. NotYetListed'  BY <1>2 DEF QnnInv, NotYetListed, Memory, Handle
<1> QED  BY <1>1, <1>3, <1>4, <1>5, <1>6 DEF QnnInv

\* The names a step takes are known at once.
LEMMA TakeKeeps ==
    ASSUME QnnInv, pc \in Early, pc # "metadata", pc' \in (Early \cup {"buffer"}) \ {"metadata"},
           NEW names, names \subseteq Names \ {"systemContext"}, Take(names),
           UNCHANGED <<env, buffers, at>>, shared' \in BOOLEAN, step' \in Nat \ {0}
    PROVE  QnnInv'
<1> USE DEF Take, env
<1>1. \A n \in names :
        /\ Resource(n) \in Resources /\ Resource(n) # Resource("systemContext")
        /\ \A b \in Ids : Resource(n) # Memory(b) /\ Resource(n) # Handle(b)
  BY Apart, IsResource DEF Names
<1>2. TypeOK'  BY <1>1 DEF QnnInv, TypeOK
<1>3. MembersKnow'  BY <1>1 DEF QnnInv, MembersKnow, InHand, Down, Early
<1>4. \A b \in Ids : /\ (Handle(b) \in held') = (Handle(b) \in held)
                    /\ (Memory(b) \in held') = (Memory(b) \in held)
                    /\ (Memory(b) \in known') = (Memory(b) \in known)
  BY <1>1
<1> HIDE DEF Take
<1> QED  BY <1>2, <1>3, <1>4, EarlyKeeps

LEMMA OpenNext ==
    ASSUME QnnInv, \/ Open \/ OpenFails \/ Opened \/ PowerCreated \/ PowerUnavailable
                   \/ SystemFound \/ SystemMissing
    PROVE  QnnInv'
<1> USE DEF Early, Goto
<1>0. shared \in BOOLEAN /\ step \in Nat \ {0}  BY DEF QnnInv, TypeOK
<1>1. CASE Open
  <2> DEFINE names == IF Skipped(OpenOrder[step]) THEN {} ELSE {OpenOrder[step]}
  <2>1. step \in {1, 2, 3, 4, 5} /\ step + 1 \in Nat \ {0}  BY <1>0, <1>1 DEF Open, OpenOrder
  <2>2. names \subseteq Names \ {"systemContext"}  BY <2>1 DEF OpenOrder, Names
  <2>3. Take(names)  BY <1>1 DEF Open
  <2> HIDE DEF names
  <2> QED  BY <1>0, <1>1, <2>1, <2>2, <2>3, TakeKeeps DEF Open
<1>2. CASE OpenFails \/ SystemMissing
  BY <1>2, DestroyKeeps DEF OpenFails, SystemMissing, QnnInv, MembersKnow, InHand, Down
<1>3. CASE Opened \/ PowerUnavailable \/ SystemFound
  <2>1. Take({})  BY <1>3 DEF Opened, PowerUnavailable, SystemFound, Take
  <2> QED  BY <1>0, <1>3, <2>1, TakeKeeps DEF Opened, PowerUnavailable, SystemFound
<1>4. CASE PowerCreated
  <2>1. Take({"power"})  BY <1>4 DEF PowerCreated, PowerKnown, Take
  <2> QED  BY <1>0, <1>4, <2>1, TakeKeeps DEF PowerCreated, Names
<1> QED  BY <1>1, <1>2, <1>3, <1>4

LEMMA LoadNext ==
    ASSUME QnnInv, \/ ReadFails \/ MetadataOpened \/ MetadataRead \/ MetadataThrows
                   \/ ContextCreated \/ LoadFails \/ SharedDecided
    PROVE  QnnInv'
<1> USE DEF Early, Goto
<1>0. shared \in BOOLEAN /\ step \in Nat \ {0} /\ Resource("systemContext") \in Resources
  BY IsResource DEF QnnInv, TypeOK, Names
<1>1. \A b \in Ids : /\ Resource("systemContext") # Memory(b)
                    /\ Resource("systemContext") # Handle(b)
  BY Apart DEF Names
<1>2. CASE ReadFails \/ LoadFails \/ MetadataThrows
  BY <1>2, DestroyKeeps
  DEF ReadFails, LoadFails, MetadataThrows, QnnInv, MembersKnow, InHand, Down
<1>3. CASE MetadataOpened
  <2>1. TypeOK'  BY <1>0, <1>3 DEF MetadataOpened, QnnInv, TypeOK, env
  <2>2. MembersKnow'  BY <1>3 DEF MetadataOpened, QnnInv, MembersKnow, InHand, Down
  <2> QED  BY <1>0, <1>1, <1>3, <2>1, <2>2, EarlyKeeps DEF MetadataOpened
<1>4. CASE MetadataRead
  <2>1. TypeOK'  BY <1>4 DEF MetadataRead, QnnInv, TypeOK, MembersKnow, env
  <2>2. MembersKnow'  BY <1>4 DEF MetadataRead, QnnInv, MembersKnow, InHand, Down
  <2> QED  BY <1>0, <1>1, <1>4, <2>1, <2>2, EarlyKeeps DEF MetadataRead
<1>5. CASE ContextCreated
  BY <1>0, <1>5, TakeKeeps DEF ContextCreated, Names
<1>6. CASE SharedDecided
  <2>1. PICK found \in BOOLEAN, complete \in BOOLEAN :
           /\ Take(IF found THEN {"rpcLib"} ELSE {})
           /\ shared' = (found /\ complete)
    BY <1>6 DEF SharedDecided
  <2> DEFINE names == IF found THEN {"rpcLib"} ELSE {}
  <2>2. names \subseteq Names \ {"systemContext"}  BY DEF Names
  <2>3. shared' \in BOOLEAN  BY <2>1
  <2>4. Take(names)  BY <2>1
  <2> HIDE DEF names
  <2> QED  BY <1>0, <1>6, <2>2, <2>3, <2>4, TakeKeeps DEF SharedDecided
<1> QED  BY <1>2, <1>3, <1>4, <1>5, <1>6

Serving == {"buffer", "mapping", "register", "plain", "append"}

\* What a step for the current tensor must respect: of the memories and handles
\* it touches only its own, and of the buffers only that of the tensor.
LEMMA TensorKeeps ==
    ASSUME QnnInv, pc \in Serving \ {"append"}, pc' \in Serving \ {"buffer"}, at \in Ids,
           UNCHANGED <<env, shared, at, step>>, MembersKnow', CurrentTensor',
           held' \subseteq Resources, known' \subseteq held',
           buffers' \in [Ids -> [host : {"none", "owned", "shared"},
                                tensor : {"none", "raw", "handle"}, named : BOOLEAN]],
           \A b \in Ids \ {at} :
              /\ buffers'[b] = buffers[b]
              /\ (Handle(b) \in held') = (Handle(b) \in held)
              /\ (Memory(b) \in held') = (Memory(b) \in held)
              /\ (Memory(b) \in known') = (Memory(b) \in known),
           pc' # "append" => Handle(at) \notin held' /\ Memory(at) \notin known'
    PROVE  QnnInv'
<1> USE DEF env
<1>0. at \in Int /\ Ids \subseteq Int  BY TensorsAssumption DEF Ids
<1>1. TypeOK' /\ pc' \in Labels /\ step' >= 1
  BY DEF QnnInv, TypeOK, Serving, Labels
<1>2. ~Down /\ ~Down'  BY DEF Serving, Down
<1>3. OneAfterTheOther'
  <2>1. \A b \in Ids : b < at => Served(b)'
    <3> SUFFICES ASSUME NEW b \in Ids, b < at PROVE Served(b)'
      OBVIOUS
    <3>1. b # at /\ Served(b)  BY <1>0, <1>2 DEF QnnInv, OneAfterTheOther
    <3> QED  BY <3>1 DEF Served, Handle, Memory
  <2>2. \A b \in Ids : b > at => buffers'[b] = NoBuffer
    BY <1>0, <1>2 DEF QnnInv, OneAfterTheOther
  <2> QED  BY <2>1, <2>2 DEF OneAfterTheOther
<1>4. ReleasedSoFar'  BY <1>2 DEF ReleasedSoFar, Down
<1>5. NotYetListed'
  <2> SUFFICES ASSUME NEW b \in Ids, b >= at, b = at => pc' # "append"
               PROVE  Handle(b) \notin held' /\ Memory(b) \notin known'
    BY DEF NotYetListed, Handle, Memory
  <2>1. CASE b = at  BY <2>1
  <2>2. CASE b # at
    <3>1. Handle(b) \notin held /\ Memory(b) \notin known
      BY <1>2 DEF QnnInv, NotYetListed, Serving
    <3> QED  BY <2>2, <3>1
  <2> QED  BY <2>1, <2>2
<1> QED  BY <1>1, <1>3, <1>4, <1>5 DEF QnnInv

LEMMA SharedNext ==
    ASSUME QnnInv, Allocated \/ MappingFails \/ Mapped \/ Registered \/ RegisterFails
    PROVE  QnnInv'
<1>0. at \in Ids /\ ~Down
  BY TensorsAssumption
  DEF QnnInv, TypeOK, CurrentTensor, Down, Ids, Allocated, MappingFails, Mapped, Registered,
      RegisterFails
<1>1. /\ Memory(at) \in Resources /\ Handle(at) \in Resources
      /\ Memory(at) # Resource("systemContext") /\ Handle(at) # Resource("systemContext")
      /\ Memory(at) # Handle(at)
      /\ \A b \in Ids \ {at} : /\ Memory(b) # Memory(at) /\ Handle(b) # Handle(at)
                              /\ Memory(b) # Handle(at) /\ Handle(b) # Memory(at)
  BY <1>0, Apart, IsResource DEF Names
<1>2. buffers \in [Ids -> [host : {"none", "owned", "shared"},
                          tensor : {"none", "raw", "handle"}, named : BOOLEAN]]
      /\ held \subseteq Resources /\ known \subseteq held
  BY DEF QnnInv, TypeOK
<1>3. pc \in {"buffer", "mapping", "register"} => Handle(at) \notin held /\ Memory(at) \notin known
  BY <1>0, TensorsAssumption DEF QnnInv, NotYetListed, Ids, Down
<1>4. CASE Allocated
  <2>1. MembersKnow'
    BY <1>1, <1>4 DEF Allocated, Listed, QnnInv, MembersKnow, InHand, Down, env
  <2>2. CurrentTensor'
    BY <1>0, <1>4 DEF Allocated, QnnInv, CurrentTensor, Down
  <2> QED
    BY <1>0, <1>1, <1>2, <1>3, <1>4, <2>1, <2>2, TensorKeeps DEF Allocated, Listed, Serving
<1>5. CASE MappingFails
  <2>1. MembersKnow'  BY <1>5 DEF MappingFails, QnnInv, MembersKnow, InHand, Down, env
  <2>2. CurrentTensor'
    BY <1>0, <1>5 DEF MappingFails, QnnInv, CurrentTensor, Down, NoBuffer
  <2> QED
    BY <1>0, <1>1, <1>2, <1>3, <1>5, <2>1, <2>2, TensorKeeps DEF MappingFails, Serving
<1>6. CASE Mapped
  <2>1. MembersKnow'  BY <1>6 DEF Mapped, QnnInv, MembersKnow, InHand, Down, env
  <2>2. CurrentTensor'
    BY <1>0, <1>2, <1>6 DEF Mapped, QnnInv, CurrentTensor, Down
  <2> QED
    BY <1>0, <1>1, <1>2, <1>3, <1>6, <2>1, <2>2, TensorKeeps DEF Mapped, Serving
<1>7. CASE Registered
  <2>1. MembersKnow'
    BY <1>1, <1>7 DEF Registered, QnnInv, MembersKnow, InHand, Down, env
  <2>2. CurrentTensor'
    BY <1>0, <1>2, <1>7 DEF Registered, QnnInv, CurrentTensor, Served, Down
  <2> QED
    BY <1>0, <1>1, <1>2, <1>3, <1>7, <2>1, <2>2, TensorKeeps DEF Registered, QnnInv, CurrentTensor, Serving
<1>8. CASE RegisterFails
  <2>1. MembersKnow'  BY <1>8 DEF RegisterFails, QnnInv, MembersKnow, InHand, Down, env
  <2>2. CurrentTensor'
    BY <1>0, <1>2, <1>8 DEF RegisterFails, HostAfterFailure, QnnInv, CurrentTensor, Down
  <2> QED
    BY <1>0, <1>1, <1>2, <1>3, <1>8, <2>1, <2>2, TensorKeeps
    DEF RegisterFails, HostAfterFailure, Serving
<1> QED  BY <1>4, <1>5, <1>6, <1>7, <1>8

LEMMA PlainNext ==
    ASSUME QnnInv, NotShared \/ Plain
    PROVE  QnnInv'
<1>0. at \in Ids /\ ~Down
  BY TensorsAssumption DEF QnnInv, TypeOK, CurrentTensor, Down, Ids, NotShared, Plain
<1>1. buffers \in [Ids -> [host : {"none", "owned", "shared"},
                          tensor : {"none", "raw", "handle"}, named : BOOLEAN]]
      /\ held \subseteq Resources /\ known \subseteq held
  BY DEF QnnInv, TypeOK
<1>2. MembersKnow'
  BY DEF NotShared, Plain, QnnInv, MembersKnow, InHand, Down, env
<1>3. CASE NotShared
  <2>1. CurrentTensor'
    BY <1>0, <1>3 DEF NotShared, QnnInv, CurrentTensor, Down, NoBuffer
  <2>2. Handle(at) \notin held /\ Memory(at) \notin known
    BY <1>0, <1>3, TensorsAssumption DEF NotShared, QnnInv, NotYetListed, Ids, Down
  <2> QED  BY <1>0, <1>1, <1>2, <1>3, <2>1, <2>2, TensorKeeps DEF NotShared, Serving
<1>4. CASE Plain
  <2>1. CurrentTensor'
    BY <1>0, <1>1, <1>4 DEF Plain, QnnInv, CurrentTensor, Served, Down
  <2> QED  BY <1>0, <1>1, <1>2, <1>4, <2>1, TensorKeeps DEF Plain, Serving
<1> QED  BY <1>3, <1>4

\* Moving a buffer into the vector changes what names it and nothing else.
LEMMA PushBackNext == QnnInv /\ PushBack => QnnInv'
<1> SUFFICES ASSUME QnnInv, PushBack PROVE QnnInv'
  OBVIOUS
<1> USE DEF PushBack, env
<1>0. at \in Ids /\ at \in Int /\ Ids \subseteq Int /\ ~Down /\ ~Down'
  BY TensorsAssumption DEF QnnInv, CurrentTensor, Ids, Down
<1>1. buffers \in [Ids -> [host : {"none", "owned", "shared"},
                          tensor : {"none", "raw", "handle"}, named : BOOLEAN]]
  BY DEF QnnInv, TypeOK
<1>2. TypeOK' /\ pc' \in Labels /\ step' >= 1
  <2>1. buffers' \in [Ids -> [host : {"none", "owned", "shared"},
                             tensor : {"none", "raw", "handle"}, named : BOOLEAN]]
    BY <1>0, <1>1
  <2>2. at' \in 1 .. Tensors + 1  BY <1>0, TensorsAssumption DEF Ids
  <2> QED  BY <2>1, <2>2 DEF QnnInv, TypeOK, Labels
<1>3. MembersKnow'  BY DEF QnnInv, MembersKnow, InHand, Down
<1>4. \A b \in Ids : Served(b) => Served(b)'  BY <1>1 DEF Served, Memory, Handle
<1>5. \A b \in Ids : b > at => buffers'[b] = NoBuffer /\ b # at
  BY <1>0, <1>1 DEF QnnInv, OneAfterTheOther
<1>6. OneAfterTheOther'
  <2>1. \A b \in Ids : b < at + 1 => Served(b)
    BY <1>0 DEF QnnInv, OneAfterTheOther, CurrentTensor
  <2> QED  BY <1>0, <1>4, <1>5, <2>1 DEF OneAfterTheOther
<1>7. CurrentTensor'  BY <1>0, <1>5 DEF CurrentTensor
<1>8. ReleasedSoFar'  BY <1>0 DEF ReleasedSoFar, Down
<1>9. NotYetListed'
  <2> SUFFICES ASSUME NEW b \in Ids, b >= at + 1
               PROVE  Handle(b) \notin held /\ Memory(b) \notin known
    BY DEF NotYetListed, Handle, Memory
  <2> QED  BY <1>0 DEF QnnInv, NotYetListed
<1> QED  BY <1>2, <1>3, <1>6, <1>7, <1>8, <1>9 DEF QnnInv

LEMMA RunNext ==
    ASSUME QnnInv, Execute \/ ExecuteReturns
    PROVE  QnnInv'
<1> USE DEF env
<1>0. ~Down /\ ~Down' /\ at \in Int /\ Ids = 1 .. Tensors
  BY TensorsAssumption DEF QnnInv, TypeOK, Down, Execute, ExecuteReturns, Ids
<1>1. buffers \in [Ids -> [host : {"none", "owned", "shared"},
                          tensor : {"none", "raw", "handle"}, named : BOOLEAN]]
  BY DEF QnnInv, TypeOK
<1>2. at > Tensors
  BY DEF QnnInv, CurrentTensor, Execute, ExecuteReturns
<1>3. TypeOK' /\ pc' \in Labels /\ step' >= 1
  <2>1. \A b \in Ids : Bound(buffers[b]) \in [host : {"none", "owned", "shared"},
                                               tensor : {"none", "raw", "handle"}, named : BOOLEAN]
    BY <1>1 DEF Bound
  <2>2. buffers' \in [Ids -> [host : {"none", "owned", "shared"},
                             tensor : {"none", "raw", "handle"}, named : BOOLEAN]]
    BY <1>1, <2>1 DEF Execute, ExecuteReturns
  <2>3. pc' \in Labels /\ UNCHANGED <<env, held, known, shared, at, step>>
    BY DEF Labels, Execute, ExecuteReturns
  <2> QED  BY <2>2, <2>3 DEF QnnInv, TypeOK
<1>4. MembersKnow'
  BY DEF QnnInv, MembersKnow, InHand, Down, Execute, ExecuteReturns
<1>5. \A b \in Ids : Served(b) => Served(b)'
  BY <1>1 DEF Served, Memory, Handle, Execute, ExecuteReturns, Bound
<1>6. OneAfterTheOther'
  <2>1. \A b \in Ids : b < at /\ ~(b > at)  BY <1>0, <1>2, TensorsAssumption
  <2> QED  BY <1>0, <1>5, <2>1 DEF QnnInv, OneAfterTheOther, Execute, ExecuteReturns
<1>7. CurrentTensor'
  <2>1. at \notin Ids  BY <1>0, <1>2, TensorsAssumption
  <2> QED  BY <1>1, <1>2, <2>1 DEF CurrentTensor, Execute, ExecuteReturns, Bound
<1>8. ReleasedSoFar'  BY <1>0 DEF ReleasedSoFar, Down
<1>9. NotYetListed'
  BY <1>0, <1>2, TensorsAssumption DEF NotYetListed, Execute, ExecuteReturns
<1> QED  BY <1>3, <1>4, <1>6, <1>7, <1>8, <1>9 DEF QnnInv

\* The destructor empties the places of ReleaseOrder one after the other.
LEMMA DownNext ==
    ASSUME QnnInv, GraphMissing \/ SessionEnds \/ Release \/ Gone
    PROVE  QnnInv'
<1> USE DEF env
<1>1. CASE GraphMissing \/ SessionEnds
  BY <1>1, DestroyKeeps DEF GraphMissing, SessionEnds, QnnInv, MembersKnow, InHand, Down
<1>2. CASE Release
  <2> USE <1>2 DEF Release
  <2>0. Len(ReleaseOrder) = 10  BY DEF ReleaseOrder
  <2>1. TypeOK' /\ pc' \in Labels /\ step' >= 1  BY DEF QnnInv, TypeOK, Labels
  <2>2. MembersKnow'  BY DEF QnnInv, MembersKnow, InHand, Down
  <2>3. OneAfterTheOther' /\ NotYetListed'  BY DEF OneAfterTheOther, NotYetListed, Down
  <2>4. CurrentTensor'  BY DEF CurrentTensor, Down
  <2>5. ReleasedSoFar'
    <3> SUFFICES ASSUME NEW j \in Places, j < step + 1
                 PROVE  ReleaseOrder[j] \cap known' = {}
      BY DEF ReleasedSoFar, ReleaseOrder, Places, Handles, Memories, Handle, Memory, Resource, Ids
    <3>1. j < step \/ j = step  BY DEF Places, QnnInv, TypeOK
    <3> QED  BY <3>1 DEF QnnInv, ReleasedSoFar, Down
  <2> QED  BY <2>1, <2>2, <2>3, <2>4, <2>5 DEF QnnInv
<1>3. CASE Gone
  <2> USE <1>3 DEF Gone
  <2>0. Len(ReleaseOrder) = 10  BY DEF ReleaseOrder
  <2>1. TypeOK' /\ pc' \in Labels /\ step' >= 1  BY DEF QnnInv, TypeOK, Labels
  <2>2. MembersKnow'  BY DEF QnnInv, MembersKnow, InHand, Down
  <2>3. OneAfterTheOther' /\ NotYetListed'  BY DEF OneAfterTheOther, NotYetListed, Down
  <2>4. CurrentTensor'  BY DEF CurrentTensor, Down
  <2>5. ReleasedSoFar'
    BY <2>0 DEF QnnInv, ReleasedSoFar, Down, TypeOK, ReleaseOrder, Handles, Memories, Handle, Memory, Resource, Ids
  <2> QED  BY <2>1, <2>2, <2>3, <2>4, <2>5 DEF QnnInv
<1> QED  BY <1>1, <1>2, <1>3

LEMMA QnnNext == QnnInv /\ [Next]_vars => QnnInv'
<1> SUFFICES ASSUME QnnInv, [Next]_vars PROVE QnnInv'
  OBVIOUS
<1>1. CASE UNCHANGED vars \/ Terminating
  <2>1. UNCHANGED vars  BY <1>1 DEF Terminating
  <2> QED
    BY <2>1 DEF vars, QnnInv, TypeOK, MembersKnow, InHand, Down, OneAfterTheOther, Served,
                CurrentTensor, ReleasedSoFar, NotYetListed
<1> QED
  BY <1>1, OpenNext, LoadNext, SharedNext, PlainNext, PushBackNext, RunNext, DownNext DEF Next

LEMMA QnnInvariant == Spec => []QnnInv
BY QnnInit, QnnNext, PTL DEF Spec

\* The variables of the runtime keep their types, and what its members know
\* of is really held: nothing is released twice.
THEOREM QnnTyped == Spec => []TypeOK
<1>1. QnnInv => TypeOK  BY DEF QnnInv
<1> QED  BY <1>1, QnnInvariant, PTL

\* Whenever a graph executes, every descriptor refers to memory that is alive
\* and to the place where the session reads and writes, however many tensors
\* were shared, failed to be shared or were plain (execute binds them all).
THEOREM TensorsLiveAlways == Spec => []TensorsLive
<1>1. QnnInv => TensorsLive
  <2> SUFFICES ASSUME QnnInv, pc = "running" PROVE TensorsLive
    BY DEF TensorsLive
  <2>1. at > Tensors /\ \A b \in Ids : buffers[b].named  BY DEF QnnInv, CurrentTensor
  <2>2. \A b \in Ids : b < at
    BY <2>1, TensorsAssumption DEF QnnInv, TypeOK, Ids
  <2>3. \A b \in Ids : Served(b)  BY <2>2 DEF QnnInv, OneAfterTheOther, Down
  <2> QED  BY <2>1, <2>3 DEF TensorsLive, Served
<1> QED  BY <1>1, QnnInvariant, PTL
-----------------------------------------------------------------------------
\* Everything the members can know of has its place in the release.
LEMMA HasPlace ==
    ASSUME NEW r \in Resources, r # Resource("systemContext")
    PROVE  \E j \in Places : r \in ReleaseOrder[j]
<1>1. CASE r \in Memories \cup Handles
  <2>1. r \in ReleaseOrder[1] \/ r \in ReleaseOrder[2]  BY <1>1 DEF ReleaseOrder
  <2> QED  BY <2>1 DEF Places
<1>2. ASSUME NEW n \in Names, r = Resource(n) PROVE \E j \in Places : r \in ReleaseOrder[j]
  <2>1. n \in {"context", "power", "device", "backend", "log", "rpcLib", "systemLib", "qnnLib"}
    BY <1>2 DEF Names
  <2>2. \E j \in 3 .. 10 : Resource(n) \in ReleaseOrder[j]  BY <2>1 DEF ReleaseOrder
  <2> QED  BY <1>2, <2>2 DEF Places
<1> QED  BY <1>1, <1>2 DEF Resources, Memories, Handles

\* An explicit release leaves nothing held, whichever call failed before: not
\* the shared memory of a tensor that could not be registered, not the log
\* or the backend of a device that could not be created.
THEOREM NothingLeaksEver == Spec => []NothingLeaks
<1>1. QnnInv => NothingLeaks
  <2> SUFFICES ASSUME QnnInv, pc = "gone", explicit,
                      NEW r \in held, r \notin IF supported THEN {} ELSE {Resource("systemContext")}
               PROVE  FALSE
    BY DEF NothingLeaks
  <2>1. r \in known  BY DEF QnnInv, MembersKnow, InHand, Down
  <2>2. r \in Resources /\ r # Resource("systemContext")
    BY <2>1 DEF QnnInv, TypeOK, MembersKnow
  <2>3. PICK j \in Places : r \in ReleaseOrder[j]  BY <2>2, HasPlace
  <2>4. j < step  BY DEF QnnInv, ReleasedSoFar, TypeOK, Places
  <2> QED  BY <2>1, <2>3, <2>4 DEF QnnInv, ReleasedSoFar, Down
<1> QED  BY <1>1, QnnInvariant, PTL

\* What rests on a resource has an earlier place in the release.
LEMMA NeedsComeLater ==
    ASSUME NEW r \in Resources, r # Resource("systemContext"),
           NEW k \in Places, NEW x \in Needs(r), x \in ReleaseOrder[k]
    PROVE  \E j \in Places : j < k /\ r \in ReleaseOrder[j]
<1>1. CASE r \in Handles
  <2>1. PICK b \in Ids : r = Handle(b)  BY <1>1 DEF Handles
  <2>2. x \in {Resource("context"), Memory(b)}  BY <2>1 DEF Needs, Handle
  <2>3. k # 1  BY <2>1, <2>2, Apart DEF ReleaseOrder, Handles, Names
  <2>4. 1 \in Places /\ 1 < k  BY <2>3 DEF Places
  <2> QED  BY <1>1, <2>4 DEF ReleaseOrder
<1>2. CASE r \in Memories
  <2>1. PICK b \in Ids : r = Memory(b)  BY <1>2 DEF Memories
  <2>2. x = Resource("rpcLib")  BY <2>1 DEF Needs, Memory
  <2>3. k # 1 /\ k # 2  BY <2>2, Apart DEF ReleaseOrder, Handles, Memories, Names
  <2>4. 2 \in Places /\ 2 < k  BY <2>3 DEF Places
  <2> QED  BY <1>2, <2>4 DEF ReleaseOrder
<1>3. ASSUME NEW n \in Names, r = Resource(n)
      PROVE  \E j \in Places : j < k /\ r \in ReleaseOrder[j]
  <2>1. n \in {"context", "power", "device", "backend", "log", "rpcLib", "systemLib", "qnnLib"}
    BY <1>3 DEF Names
  <2> USE DEF ReleaseOrder, Places, Names
  <2>2. k > 2  BY <1>3, <2>1, Apart DEF Needs, Resource, Handles, Memories, Handle, Memory
  <2> QED  BY <1>3, <2>1, <2>2 DEF Needs, Resource
<1> QED  BY <1>1, <1>2, <1>3 DEF Resources, Memories, Handles

LEMMA OnlyReleasesLose ==
    ASSUME QnnInv, [Next]_vars
    PROVE  held \subseteq held' \/ MetadataRead \/ MappingFails \/ RegisterFails \/ Release
BY DEF Next, vars, Take, Destroy, Open, OpenFails, Opened, PowerCreated, PowerUnavailable,
       SystemFound, SystemMissing, ReadFails, MetadataOpened, MetadataThrows, ContextCreated,
       LoadFails, SharedDecided, GraphMissing, Allocated, Mapped, Registered, NotShared, Plain,
       PushBack, Execute, ExecuteReturns, SessionEnds, Gone, Terminating

LEMMA NoOneNeeds ==
    ASSUME NEW r \in Resources
    PROVE  /\ Resource("systemContext") \notin Needs(r)
           /\ \A b \in Ids : Memory(b) \in Needs(r) => r = Handle(b)
<1>1. ASSUME NEW n \in Names, r = Resource(n)
      PROVE  Needs(r) \subseteq {Resource(m) : m \in Names \ {"systemContext"}}
  BY <1>1 DEF Needs, Resource, Names
<1>2. ASSUME NEW b \in Ids, r = Memory(b) PROVE Needs(r) = {Resource("rpcLib")}
  BY <1>2 DEF Needs, Memory
<1>3. ASSUME NEW b \in Ids, r = Handle(b)
      PROVE  Needs(r) = {Resource("context"), Memory(b)}
  BY <1>3 DEF Needs, Handle
<1> QED  BY <1>1, <1>2, <1>3, Apart DEF Resources, Names

\* Of a file the runtime reads, no step gives a resource back while one that
\* needs it is still held: the destructor's order is right from wherever it
\* starts, and a failed registration frees only the memory nothing refers to.
THEOREM ReleasesInOrder == Spec => ReleasedInOrder
<1>1. ASSUME QnnInv, [Next]_vars, supported, NEW r \in held'
      PROVE  Needs(r) \cap held \subseteq held'
  <2>0. r \in Resources  BY <1>1, QnnNext DEF QnnInv, TypeOK
  <2> SUFFICES ASSUME NEW x \in Needs(r), x \in held, x \notin held' PROVE FALSE
    OBVIOUS
  <2>1. CASE held \subseteq held'  BY <2>1
  <2>2. CASE MetadataRead  BY <2>0, <2>2, NoOneNeeds DEF MetadataRead
  <2>3. CASE MappingFails \/ RegisterFails
    <3>1. at \in Ids /\ x = Memory(at) /\ r \in held
      BY <1>1, <2>3 DEF QnnInv, CurrentTensor, MappingFails, RegisterFails
    <3>2. r = Handle(at)  BY <2>0, <3>1, NoOneNeeds
    <3> QED
      BY <2>3, <1>1, <3>1, <3>2, TensorsAssumption
      DEF QnnInv, NotYetListed, Down, Ids, MappingFails, RegisterFails
  <2>4. CASE Release
    <3>1. r \in held /\ x \in known /\ x \in ReleaseOrder[step] /\ step \in Places
      BY <1>1, <2>4 DEF Release, QnnInv, TypeOK, Places, ReleaseOrder
    <3>2. r \in known /\ r # Resource("systemContext")
      BY <1>1, <2>4, <3>1 DEF Release, QnnInv, MembersKnow, InHand, Down
    <3>3. PICK j \in Places : j < step /\ r \in ReleaseOrder[j]
      BY <2>0, <3>1, <3>2, NeedsComeLater
    <3> QED  BY <1>1, <2>4, <3>2, <3>3 DEF Release, QnnInv, ReleasedSoFar, Down
  <2> QED  BY <1>1, <2>1, <2>2, <2>3, <2>4, OnlyReleasesLose
<1>2. QnnInv /\ [Next]_vars => [supported => \A r \in held' : Needs(r) \cap held \subseteq held']_vars
  BY <1>1
<1> QED  BY <1>2, QnnInvariant, PTL DEF Spec, ReleasedInOrder
=============================================================================
