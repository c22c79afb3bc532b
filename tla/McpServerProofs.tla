--------------------------- MODULE McpServerProofs ---------------------------
(***************************************************************************)
(* What McpServer guarantees for every finite set of callers, of which any *)
(* may have event loops of their own, and any number of registrations:     *)
(* types, and that a caller gets the answer to its own request.            *)
(*                                                                         *)
(* A future and the request it waits for meet under an id of one client.   *)
(* Ids grow (Numbered), so a late answer finds no future but the one it    *)
(* was sent with (Owned), on a client whose counter is not torn; a caller  *)
(* waits for one future at a time (Single), on the client it uses.         *)
(***************************************************************************)
EXTENDS McpServer, FiniteSetTheorems, TLAPS

CallerAssumption ==
    IsFiniteSet(Caller) /\ None \notin Caller \cup Reply /\ MaxConfigs \in Nat \ {0}

-----------------------------------------------------------------------------
(* Type correctness.                                                       *)

\* The callers that may have asked for initialize, and for their call.
Opened == {c \in Caller : place[c] \notin {"idle", "starting"}}
Asked  == {c \in Caller : place[c] \notin {"idle", "starting", "init"}}

\* No client has numbered more requests than were sent.
Few == \A k \in Caller : lastId[k] <= Cardinality(Opened) + Cardinality(Asked)

\* A set of callers with another member is larger.
LEMMA SetSize ==
    ASSUME CallerAssumption, NEW S \in SUBSET Caller, NEW T \in SUBSET Caller, S \subseteq T
    PROVE  /\ Cardinality(S) \in Nat /\ Cardinality(T) \in Nat
           /\ Cardinality(S) <= Cardinality(T)
           /\ S # T => Cardinality(S) < Cardinality(T)
  <1>1. IsFiniteSet(S) /\ IsFiniteSet(T)
    BY FS_Subset DEF CallerAssumption
  <1>2. Cardinality(S) \in Nat /\ Cardinality(T) \in Nat
    BY <1>1, FS_CardinalityType
  <1>3. Cardinality(S) <= Cardinality(T) /\ (Cardinality(T) = Cardinality(S) => S = T)
    BY <1>1, FS_Subset
  <1>4. QED
    BY <1>2, <1>3

\* Callers go on, and those of a request that is sent go past its place.
LEMMA FewStep ==
    ASSUME CallerAssumption, TypeOK, Few, Opened \subseteq Opened', Asked \subseteq Asked',
           \/ UNCHANGED lastId
           \/ /\ \E k \in Caller : lastId' = [lastId EXCEPT ![k] = @ + 1]
              /\ Opened # Opened' \/ Asked # Asked'
    PROVE  Few' /\ lastId' \in [Caller -> 0 .. MaxId]
  <1>1. /\ Opened \in SUBSET Caller /\ Opened' \in SUBSET Caller
        /\ Asked \in SUBSET Caller /\ Asked' \in SUBSET Caller
        /\ Caller \in SUBSET Caller
    BY DEF Opened, Asked
  <1>2. /\ Cardinality(Opened) \in Nat /\ Cardinality(Opened') \in Nat
        /\ Cardinality(Opened) <= Cardinality(Opened')
        /\ Opened # Opened' => Cardinality(Opened) < Cardinality(Opened')
    BY <1>1, SetSize
  <1>3. /\ Cardinality(Asked) \in Nat /\ Cardinality(Asked') \in Nat
        /\ Cardinality(Asked) <= Cardinality(Asked')
        /\ Asked # Asked' => Cardinality(Asked) < Cardinality(Asked')
    BY <1>1, SetSize
  <1>4. /\ Cardinality(Caller) \in Nat
        /\ Cardinality(Opened') <= Cardinality(Caller)
        /\ Cardinality(Asked') <= Cardinality(Caller)
    BY <1>1, SetSize
  <1>5. lastId \in [Caller -> Nat] /\ lastId' \in [Caller -> Nat]
    BY <1>4 DEF TypeOK, MaxId
  <1>6. \A k \in Caller : lastId'[k] <= Cardinality(Opened') + Cardinality(Asked')
    BY <1>2, <1>3, <1>5 DEF Few
  <1>7. Few'
    BY <1>6 DEF Few
  <1>8. QED
    BY <1>4, <1>5, <1>6, <1>7, <1>2, <1>3 DEF MaxId

\* A caller that connects looks at an entry that names a client.
Entered ==
    \A c \in Caller : /\ place[c] \in {"starting", "init"} => published[entry[c]] # None
                      /\ place[c] = "starting" => uses[c] = c

TypeInv == TypeOK /\ Few /\ Entered

LEMMA McpTypeInit == ASSUME CallerAssumption, Init PROVE TypeInv
  <1>1. MaxId \in Nat
    BY FS_CardinalityType DEF CallerAssumption, MaxId
  <1>2. TypeOK
    BY <1>1 DEF Init, TypeOK, CallerAssumption
  <1>3. Few
    <2>1. Opened = {} /\ Asked = {}
      BY DEF Init, Opened, Asked
    <2>2. QED
      BY <2>1, FS_EmptySet DEF Init, Few
  <1>4. Entered
    BY DEF Init, Entered
  <1>5. QED
    BY <1>2, <1>3, <1>4 DEF TypeInv

\* What a request does to a client.
LEMMA RequestType ==
    ASSUME TypeOK, NEW k \in Caller, NEW c \in Caller, NEW what \in {"initialize", "call"},
           Request(k, c, what)
    PROVE  /\ lastId' = [lastId EXCEPT ![k] = @ + 1] \/ UNCHANGED lastId
           /\ futures' \in [Caller -> [RequestId -> Caller \cup {None}]]
           /\ requests' \in [Caller -> SUBSET [id: RequestId, for: Caller,
                                               what: {"initialize", "call"}]]
           /\ number' \in [Caller -> 0 .. MaxId]
           /\ torn' \subseteq Caller
  <1>1. PICK id \in RequestId :
          /\ Numbers(k, c, id)
          /\ number' = [number EXCEPT ![c] = id]
          /\ futures' = [futures EXCEPT ![k][id] = c]
          /\ requests' = IF running'[k]
                THEN [requests EXCEPT ![k] = @ \cup {[id |-> id, for |-> c, what |-> what]}]
                ELSE requests
    BY DEF Request
  <1>2. [id |-> id, for |-> c, what |-> what]
            \in [id: RequestId, for: Caller, what: {"initialize", "call"}]
    OBVIOUS
  <1>3. /\ lastId' = [lastId EXCEPT ![k] = @ + 1] \/ UNCHANGED lastId
        /\ torn' \subseteq Caller
    BY <1>1 DEF Numbers, TypeOK
  <1>4. futures' \in [Caller -> [RequestId -> Caller \cup {None}]]
    BY <1>1 DEF TypeOK
  <1>5. requests' \in [Caller -> SUBSET [id: RequestId, for: Caller,
                                         what: {"initialize", "call"}]]
    BY <1>1, <1>2 DEF TypeOK
  <1>6. number' \in [Caller -> 0 .. MaxId]
    BY <1>1 DEF TypeOK, RequestId
  <1>7. QED
    BY <1>3, <1>4, <1>5, <1>6

\* A call sent over the client found, or refused for want of a process.
LEMMA OverType ==
    ASSUME TypeOK, NEW k \in Caller, NEW c \in Caller, CallOver(c, k) \/ SendCall(c, k)
    PROVE  /\ lastId' = [lastId EXCEPT ![k] = @ + 1] \/ UNCHANGED lastId
           /\ futures' \in [Caller -> [RequestId -> Caller \cup {None}]]
           /\ requests' \in [Caller -> SUBSET [id: RequestId, for: Caller,
                                               what: {"initialize", "call"}]]
           /\ number' \in [Caller -> 0 .. MaxId]
           /\ torn' \subseteq Caller
           /\ running' = running
           /\ got' \in [Caller -> Reply \cup {None}]
           /\ \E p \in {"call", "done"} : place' = [place EXCEPT ![c] = p]
           /\ ending' \in [Caller -> {"none", "result", "failed"}]
  <1>1. CASE SendCall(c, k)
    <2>1. Request(k, c, "call")
      BY <1>1 DEF SendCall
    <2>2. QED
      BY <1>1, <2>1, RequestType DEF SendCall, Fail, TypeOK
  <1>2. CASE /\ Fail(c)
             /\ UNCHANGED <<running, lastId, futures, requests, torn, number, got>>
    BY <1>2 DEF Fail, TypeOK
  <1>3. QED
    BY <1>1, <1>2 DEF CallOver

LEMMA FewHolds ==
    ASSUME CallerAssumption, TypeInv, [Next]_mcpVars
    PROVE  Few' /\ lastId' \in [Caller -> 0 .. MaxId]
  <1> DEFINE Goal == Few' /\ lastId' \in [Caller -> 0 .. MaxId]
             Forward == Opened \subseteq Opened' /\ Asked \subseteq Asked'
  <1> USE DEF TypeInv, entryVars, clientVars, callVars, Fail
  <1>1. ASSUME Forward, UNCHANGED lastId PROVE Goal
    BY <1>1, FewStep
  <1>2. ASSUME NEW k \in Caller, lastId' = [lastId EXCEPT ![k] = @ + 1],
               Forward, Opened # Opened' \/ Asked # Asked'
        PROVE  Goal
    BY <1>2, FewStep
  <1> HIDE DEF Goal
  <1>3. ASSUME NEW c \in Caller, Started(c) PROVE Goal
    <2>1. Forward /\ Opened # Opened'
      <3>1. c \notin Opened /\ c \in Opened'
        BY <1>3 DEF Started, Opened, TypeOK
      <3>2. QED
        BY <1>3, <3>1 DEF Started, Opened, Asked, TypeOK
    <2>2. lastId' = [lastId EXCEPT ![c] = @ + 1] \/ UNCHANGED lastId
      BY <1>3, RequestType DEF Started
    <2>3. QED
      BY <1>1, <1>2, <2>1, <2>2
  <1>4. ASSUME NEW c \in Caller, NEW k \in Caller, CallOver(c, k) \/ SendCall(c, k),
               place[c] \in {"idle", "init"}
        PROVE  Goal
    <2>1. lastId' = [lastId EXCEPT ![k] = @ + 1] \/ UNCHANGED lastId
      BY <1>4, OverType
    <2>2. PICK p \in {"call", "done"} : place' = [place EXCEPT ![c] = p]
      BY <1>4, OverType
    <2>3. c \notin Asked /\ c \in Asked'
      BY <1>4, <2>2 DEF Asked, TypeOK
    <2>4. Forward
      BY <1>4, <2>2 DEF Opened, Asked, TypeOK
    <2>5. QED
      BY <1>1, <1>2, <2>1, <2>3, <2>4
  <1>5. ASSUME NEW c \in Caller, Initialized(c) \/ Share(c) PROVE Goal
    <2>1. CASE Initialized(c)
      <3>1. published[entry[c]] \in Caller
        BY <2>1 DEF Initialized, Entered, TypeOK
      <3>2. QED
        BY <1>4, <2>1, <3>1 DEF Initialized
    <2>2. CASE Share(c) /\ UNCHANGED lastId /\ place' = [place EXCEPT ![c] = "post"]
      <3>1. Forward
        BY <2>2 DEF Share, Opened, Asked, TypeOK
      <3>2. QED
        BY <1>1, <2>2, <3>1
    <2>3. CASE Share(c) /\ CallOver(c, published[configs])
      <3>1. published[configs] \in Caller
        BY <2>3 DEF Share, TypeOK
      <3>2. QED
        BY <1>4, <2>3, <3>1 DEF Share
    <2>4. QED
      BY <1>5, <2>1, <2>2, <2>3 DEF Share
  <1>6. CASE RegisterServer \/ UnregisterServer \/ UNCHANGED mcpVars
    <2>1. place' = place /\ lastId' = lastId
      BY <1>6 DEF RegisterServer, UnregisterServer, mcpVars
    <2>2. QED
      BY <1>1, <2>1 DEF Opened, Asked, Goal
  <1>7. ASSUME NEW k \in Caller, Answer(k) \/ OwnMessage(k) \/ ProcessExits(k) PROVE Goal
    BY <1>1, <1>7 DEF Answer, OwnMessage, ProcessExits, Opened, Asked
  <1>8. ASSUME NEW c \in Caller, Create(c) \/ NotRegistered(c) \/ StartFails(c) \/ CleanedUp(c)
        PROVE Goal
    BY <1>1, <1>8 DEF Create, NotRegistered, StartFails, CleanedUp, Opened, Asked, TypeOK
  <1>9. ASSUME NEW c \in Caller, InitializeRefused(c) \/ RequestTimeout(c) PROVE Goal
    BY <1>1, <1>9 DEF InitializeRefused, RequestTimeout, CleanUp, Opened, Asked, TypeOK
  <1>10. ASSUME NEW c \in Caller, Answered(c) \/ Posted(c) \/ Cancel(c) PROVE Goal
    BY <1>1, <1>10 DEF Answered, Posted, Cancel, Opened, Asked, TypeOK
  <1>11. QED
    BY <1>3, <1>4, <1>5, <1>6, <1>7, <1>8, <1>9, <1>10 DEF Next, Over, Goal

LEMMA FutureGone ==
    ASSUME futures \in [Caller -> [RequestId -> Caller \cup {None}]],
           NEW k \in Caller, NEW id,
           futures' = [futures EXCEPT ![k][id] = None]
    PROVE  futures' \in [Caller -> [RequestId -> Caller \cup {None}]]
  <1>1. [futures[k] EXCEPT ![id] = None] \in [RequestId -> Caller \cup {None}]
    OBVIOUS
  <1>2. QED
    BY <1>1

LEMMA McpTypeStep == ASSUME CallerAssumption, TypeInv, [Next]_mcpVars PROVE TypeInv'
  <1> USE DEF TypeInv, entryVars, clientVars, callVars, Fail
  <1>1. Few' /\ lastId' \in [Caller -> 0 .. MaxId]
    BY FewHolds
  <1> HIDE DEF TypeInv
  <1>0. TypeOK /\ Entered
    BY DEF TypeInv
  <1>e. Entered'
    <2>1. ASSUME NEW c \in Caller, Create(c) PROVE Entered'
      BY <1>0, <2>1 DEF Create, Entered, TypeOK, CallerAssumption
    <2>2. ASSUME NEW c \in Caller, Started(c) PROVE Entered'
      BY <1>0, <2>2 DEF Started, Entered, TypeOK
    <2>3. ASSUME NEW c \in Caller, Initialized(c) PROVE Entered'
      <3>1. published[entry[c]] \in Caller
        BY <1>0, <2>3 DEF Initialized, Entered, TypeOK
      <3>2. PICK p \in {"call", "done"} : place' = [place EXCEPT ![c] = p]
        BY <1>0, <2>3, <3>1, OverType DEF Initialized
      <3>3. QED
        BY <1>0, <2>3, <3>2 DEF Initialized, Entered, TypeOK
    <2>4. ASSUME NEW c \in Caller, Share(c) PROVE Entered'
      <3>1. published[configs] \in Caller
        BY <1>0, <2>4 DEF Share, TypeOK
      <3>2. PICK p \in {"post", "call", "done"} : place' = [place EXCEPT ![c] = p]
        BY <1>0, <2>4, <3>1, OverType DEF Share
      <3>3. QED
        BY <1>0, <2>4, <3>2 DEF Share, Entered, TypeOK
    <2>5. ASSUME NEW c \in Caller,
                 \/ NotRegistered(c) \/ StartFails(c) \/ CleanedUp(c) \/ InitializeRefused(c)
                 \/ Answered(c) \/ RequestTimeout(c) \/ Posted(c) \/ Cancel(c)
          PROVE  Entered'
      BY <1>0, <2>5 DEF NotRegistered, StartFails, CleanedUp, InitializeRefused, Answered,
         RequestTimeout, Posted, Cancel, CleanUp, Entered, TypeOK
    <2>6. CASE UNCHANGED <<published, callVars>>
      BY <1>0, <2>6 DEF Entered
    <2>7. ASSUME NEW k \in Caller, Answer(k) \/ OwnMessage(k) \/ ProcessExits(k) PROVE Entered'
      BY <1>0, <2>7 DEF Answer, OwnMessage, ProcessExits, Entered
    <2>8. QED
      BY <2>1, <2>2, <2>3, <2>4, <2>5, <2>6, <2>7
         DEF Next, Over, RegisterServer, UnregisterServer, mcpVars
  <1> USE DEF TypeInv
  <1>2. CASE RegisterServer \/ UnregisterServer
    <2>1. registered' \in BOOLEAN
      BY <1>2, Zenon DEF RegisterServer, UnregisterServer
    <2>2. configs' \in 1 .. MaxConfigs
      BY <1>2 DEF TypeOK, RegisterServer, UnregisterServer, CallerAssumption
    <2>3. QED
      BY <1>1, <1>e, <1>2, <2>1, <2>2 DEF TypeOK, RegisterServer, UnregisterServer
  <1>3. ASSUME NEW k \in Caller, Answer(k) PROVE TypeInv'
    <2>1. PICK r \in requests[k] :
            /\ requests' = [requests EXCEPT ![k] = @ \ {r}]
            /\ \/ Resolve(k, r.id, [for |-> r.for, what |-> r.what])
               \/ Resolve(k, r.id, [for |-> None, what |-> "error"])
      BY <1>3 DEF Answer
    <2>2. r.id \in RequestId /\ r.for \in Caller /\ r.what \in {"initialize", "call"}
      BY DEF TypeOK
    <2>3. /\ [for |-> r.for, what |-> r.what] \in Reply
          /\ [for |-> None, what |-> "error"] \in Reply
      BY <2>2 DEF Reply
    <2>4. futures' \in [Caller -> [RequestId -> Caller \cup {None}]]
      BY <2>1, <2>2, FutureGone DEF Resolve, TypeOK
    <2>5. got' \in [Caller -> Reply \cup {None}]
      <3>1. got \in [Caller -> Reply \cup {None}]
        BY DEF TypeOK
      <3>2. \A c, answer : [got EXCEPT ![c] = answer] \in [Caller -> Reply \cup {None}]
                            \/ answer \notin Reply
        BY <3>1
      <3>3. \E answer \in Reply :
              got' = got \/ \E c : got' = [got EXCEPT ![c] = answer]
        BY <2>1, <2>3 DEF Resolve
      <3>4. QED
        BY <3>1, <3>2, <3>3
    <2>6. requests' \in [Caller -> SUBSET [id: RequestId, for: Caller,
                                           what: {"initialize", "call"}]]
      BY <2>1 DEF TypeOK
    <2>7. QED
      BY <1>1, <1>e, <1>3, <2>4, <2>5, <2>6 DEF TypeOK, Answer
  <1>4. ASSUME NEW k \in Caller, OwnMessage(k) PROVE TypeInv'
    <2>1. PICK id \in RequestId : Resolve(k, id, [for |-> None, what |-> "own"])
      BY <1>4 DEF OwnMessage
    <2>2. [for |-> None, what |-> "own"] \in Reply
      BY DEF Reply
    <2>3. futures' \in [Caller -> [RequestId -> Caller \cup {None}]]
      BY <2>1, FutureGone DEF Resolve, TypeOK
    <2>4. got' \in [Caller -> Reply \cup {None}]
      BY <2>1, <2>2 DEF TypeOK, Resolve
    <2>5. QED
      BY <1>1, <1>e, <1>4, <2>3, <2>4 DEF TypeOK, OwnMessage
  <1>5. ASSUME NEW k \in Caller, ProcessExits(k) PROVE TypeInv'
    BY <1>1, <1>e, <1>5 DEF TypeOK, ProcessExits
  <1>6. ASSUME NEW c \in Caller, Create(c) PROVE TypeInv'
    BY <1>1, <1>e, <1>6 DEF TypeOK, Create
  <1>7. ASSUME NEW c \in Caller, Share(c) PROVE TypeInv'
    <2>1. published[configs] \in Caller
      BY <1>7 DEF Share, TypeOK
    <2>2. CASE CallOver(c, published[configs])
      <3>1. PICK p \in {"call", "done"} : place' = [place EXCEPT ![c] = p]
        BY <2>1, <2>2, OverType
      <3>2. /\ futures' \in [Caller -> [RequestId -> Caller \cup {None}]]
            /\ requests' \in [Caller -> SUBSET [id: RequestId, for: Caller,
                                                what: {"initialize", "call"}]]
            /\ number' \in [Caller -> 0 .. MaxId] /\ torn' \subseteq Caller
            /\ running' = running /\ got' \in [Caller -> Reply \cup {None}]
            /\ ending' \in [Caller -> {"none", "result", "failed"}]
        BY <2>1, <2>2, OverType
      <3>3. QED
        BY <1>1, <1>e, <1>7, <2>1, <3>1, <3>2 DEF TypeOK, Share
    <2>3. CASE ~CallOver(c, published[configs])
      BY <1>1, <1>e, <1>7, <2>3 DEF TypeOK, Share
    <2>4. QED
      BY <2>2, <2>3
  <1>8. ASSUME NEW c \in Caller, Started(c) PROVE TypeInv'
    <2>1. Request(c, c, "initialize")
      BY <1>8 DEF Started
    <2>2. QED
      BY <1>1, <1>e, <1>8, <2>1, RequestType DEF TypeOK, Started
  <1>9. ASSUME NEW c \in Caller, Initialized(c) PROVE TypeInv'
    <2>1. published[entry[c]] \in Caller
      BY <1>9 DEF Initialized, Entered, TypeOK
    <2>2. CallOver(c, published[entry[c]]) \/ SendCall(c, published[entry[c]])
      BY <1>9 DEF Initialized
    <2>3. PICK p \in {"call", "done"} : place' = [place EXCEPT ![c] = p]
      BY <2>1, <2>2, OverType
    <2>4. /\ futures' \in [Caller -> [RequestId -> Caller \cup {None}]]
          /\ requests' \in [Caller -> SUBSET [id: RequestId, for: Caller,
                                                what: {"initialize", "call"}]]
          /\ number' \in [Caller -> 0 .. MaxId] /\ torn' \subseteq Caller
          /\ running' = running /\ got' \in [Caller -> Reply \cup {None}]
          /\ ending' \in [Caller -> {"none", "result", "failed"}]
      BY <2>1, <2>2, OverType
    <2>5. QED
      BY <1>1, <1>e, <1>9, <2>1, <2>3, <2>4 DEF TypeOK, Initialized
  <1>10. ASSUME NEW c \in Caller, NotRegistered(c) \/ StartFails(c) \/ CleanedUp(c)
         PROVE  TypeInv'
    <2>1. futures' \in [Caller -> [RequestId -> Caller \cup {None}]]
      BY <1>10 DEF TypeOK, NotRegistered, StartFails, CleanedUp
    <2>2. QED
      BY <1>1, <1>e, <1>10, <2>1 DEF TypeOK, NotRegistered, StartFails, CleanedUp
  <1>11. ASSUME NEW c \in Caller, InitializeRefused(c) PROVE TypeInv'
    BY <1>1, <1>e, <1>11 DEF TypeOK, InitializeRefused, CleanUp
  <1>12. ASSUME NEW c \in Caller, RequestTimeout(c) PROVE TypeInv'
    <2>1. futures' \in [Caller -> [RequestId -> Caller \cup {None}]]
      BY <1>12, FutureGone DEF TypeOK, RequestTimeout, Forget
    <2>2. QED
      BY <1>1, <1>e, <1>12, <2>1 DEF TypeOK, RequestTimeout, CleanUp
  <1>13. ASSUME NEW c \in Caller, Answered(c) \/ Posted(c) \/ Cancel(c) PROVE TypeInv'
    <2>1. CASE Answered(c)
      BY <1>1, <1>e, <2>1 DEF TypeOK, Answered
    <2>2. CASE Posted(c)
      BY <1>1, <1>e, <2>2 DEF TypeOK, Posted
    <2>3. CASE Cancel(c)
      BY <1>1, <1>e, <2>3 DEF TypeOK, Cancel
    <2>4. QED
      BY <1>13, <2>1, <2>2, <2>3
  <1>14. CASE UNCHANGED mcpVars
    BY <1>1, <1>e, <1>14 DEF TypeOK, mcpVars
  <1>15. QED
    BY <1>2, <1>3, <1>4, <1>5, <1>6, <1>7, <1>8, <1>9, <1>10, <1>11, <1>12, <1>13, <1>14
       DEF Next, Over

\* Every variable has its type, the ids above all.
THEOREM McpTypeCorrect == ASSUME CallerAssumption PROVE Spec => []TypeOK
  <1>1. Init => TypeInv
    BY McpTypeInit
  <1>2. TypeInv /\ [Next]_mcpVars => TypeInv'
    BY McpTypeStep
  <1>3. QED
    BY <1>1, <1>2, PTL DEF Spec, TypeInv

-----------------------------------------------------------------------------
(* Whose answer is whose.                                                  *)

\* Ids that were not given out have no future and no request.
Numbered ==
    \A k \in Caller :
        /\ \A i \in RequestId : i > lastId[k] => futures[k][i] = None
        /\ \A r \in requests[k] : r.id <= lastId[k]

\* A request and the future under its id are of the same caller, and for its
\* present purpose.
Owned ==
    \A k \in Caller \ torn : \A r \in requests[k] :
        futures[k][r.id] # None => /\ r.for = futures[k][r.id]
                                   /\ place[r.for] = "call" => r.what = "call"

Free(c) == \A k \in Caller, i \in RequestId : futures[k][i] # c

\* A caller waits for one future at most, and for none once it is resolved.
Single ==
    \A c \in Caller :
        /\ place[c] \in {"idle", "starting"} => got[c] = None /\ Free(c)
        /\ place[c] \in {"init", "call"} =>
             \A k \in Caller, i \in RequestId :
                futures[k][i] = c => got[c] = None /\ uses[c] = k /\ number[c] = i

Own(c) == [for |-> c, what |-> "call"]

\* What a caller has been told, and what it has returned.
Told ==
    \A c \in Caller :
        /\ place[c] = "call" /\ got[c] # None /\ got[c].for # None /\ uses[c] \notin torn
             => got[c] = Own(c)
        /\ ending[c] = "result" /\ kind = "stdio"
             => place[c] = "done" /\ (uses[c] \notin torn => got[c] = Own(c))
        /\ place[c] = "post" => kind = "custom"

FutureInv == Numbered /\ Owned /\ Single

\* Steps that send nothing and resolve nothing.
LEMMA FutureKept ==
    ASSUME TypeOK, FutureInv, UNCHANGED <<lastId, got, torn>>,
           \A k \in Caller, i \in RequestId : futures'[k][i] \in {futures[k][i], None},
           \A k \in Caller : requests'[k] \subseteq requests[k],
           \A c \in Caller : \/ /\ place'[c] = place[c] /\ uses'[c] = uses[c]
                                /\ number'[c] = number[c]
                             \/ place'[c] \in {"closing", "post", "done"}
                             \/ place[c] = "idle" /\ place'[c] = "starting",
           None \notin Caller
    PROVE  FutureInv'
  <1> USE DEF FutureInv
  <1>1. Numbered'
    BY DEF Numbered
  <1>2. Owned'
    <2> SUFFICES ASSUME NEW k \in Caller \ torn', NEW r \in requests'[k],
                        futures'[k][r.id] # None
                 PROVE  /\ r.for = futures'[k][r.id]
                        /\ place'[r.for] = "call" => r.what = "call"
      BY DEF Owned
    <2>1. r \in requests[k] /\ r.id \in RequestId /\ r.for \in Caller
      BY DEF TypeOK
    <2>2. QED
      BY <2>1 DEF Owned
  <1>3. Single'
    BY DEF Single, Free
  <1>4. QED
    BY <1>1, <1>2, <1>3

\* A caller without a future sends a request.
LEMMA FutureSent ==
    ASSUME CallerAssumption, TypeOK, lastId' \in [Caller -> 0 .. MaxId], FutureInv,
           NEW k \in Caller, NEW c \in Caller, NEW what \in {"initialize", "call"},
           Request(k, c, what), Free(c), NEW p \in {"init", "call", "done"},
           p = "call" => what = "call", uses' = [uses EXCEPT ![c] = k],
           place' = [place EXCEPT ![c] = p], got' = [got EXCEPT ![c] = None]
    PROVE  FutureInv'
  <1> USE DEF FutureInv, CallerAssumption
  <1>1. PICK id \in RequestId :
          /\ Numbers(k, c, id)
          /\ number' = [number EXCEPT ![c] = id]
          /\ futures' = [futures EXCEPT ![k][id] = c]
          /\ requests' = IF running'[k]
                THEN [requests EXCEPT ![k] = @ \cup {[id |-> id, for |-> c, what |-> what]}]
                ELSE requests
    BY DEF Request
  <1>2. \A l \in Caller, i \in RequestId :
           futures'[l][i] = IF l = k /\ i = id THEN c ELSE futures[l][i]
    BY <1>1 DEF TypeOK
  <1>3. \A l \in Caller : \A r \in requests'[l] :
           \/ r \in requests[l]
           \/ l = k /\ r = [id |-> id, for |-> c, what |-> what]
    BY <1>1 DEF TypeOK
  <1>4. /\ \A l \in Caller : lastId[l] \in Nat /\ lastId'[l] \in Nat /\ lastId[l] <= lastId'[l]
        /\ id <= lastId'[k] /\ id \in Nat
    <2>1. lastId \in [Caller -> Nat] /\ id \in Nat
      BY DEF TypeOK, RequestId
    <2>2. CASE id = lastId[k] + 1 /\ lastId' = [lastId EXCEPT ![k] = id]
      BY <2>1, <2>2
    <2>3. CASE id = lastId[k] /\ UNCHANGED lastId
      BY <2>1, <2>3
    <2>4. QED
      BY <1>1, <2>2, <2>3 DEF Numbers
  <1>5. \A l \in Caller : \A r \in requests[l] : r.id \in RequestId /\ r.id \in Nat /\ r.for \in Caller
    BY DEF TypeOK, RequestId
  <1>t. torn \subseteq torn' /\ (k \notin torn' => id = lastId[k] + 1)
    BY <1>1 DEF Numbers
  <1>6. Numbered'
    <2> SUFFICES ASSUME NEW l \in Caller
                 PROVE  /\ \A i \in RequestId : i > lastId'[l] => futures'[l][i] = None
                        /\ \A r \in requests'[l] : r.id <= lastId'[l]
      BY DEF Numbered
    <2>1. \A i \in RequestId : i > lastId'[l] => futures'[l][i] = None
      BY <1>2, <1>4 DEF Numbered, RequestId
    <2>2. \A r \in requests'[l] : r.id <= lastId'[l]
      BY <1>3, <1>4, <1>5 DEF Numbered
    <2>3. QED
      BY <2>1, <2>2
  <1>7. Owned'
    <2> SUFFICES ASSUME NEW l \in Caller \ torn', NEW r \in requests'[l],
                        futures'[l][r.id] # None
                 PROVE  /\ r.for = futures'[l][r.id]
                        /\ place'[r.for] = "call" => r.what = "call"
      BY DEF Owned
    <2>0. l \in Caller \ torn
      BY <1>t
    <2>1. CASE r \in requests[l]
      <3>1. ~(l = k /\ r.id = id)
        BY <2>1, <1>t, <1>4, <1>5 DEF Numbered
      <3>2. futures'[l][r.id] = futures[l][r.id]
        BY <2>1, <3>1, <1>2, <1>5
      <3>3. r.for # c
        BY <2>0, <2>1, <3>2, <1>5 DEF Owned, Free
      <3>4. QED
        BY <2>0, <2>1, <3>2, <3>3, <1>5 DEF Owned, TypeOK
    <2>2. CASE l = k /\ r = [id |-> id, for |-> c, what |-> what]
      BY <2>2, <1>2 DEF TypeOK
    <2>3. QED
      BY <2>1, <2>2, <1>3
  <1>8. Single'
    <2> SUFFICES ASSUME NEW d \in Caller
                 PROVE  /\ place'[d] \in {"idle", "starting"} => got'[d] = None /\ Free(d)'
                        /\ place'[d] \in {"init", "call"} =>
                             \A l \in Caller, i \in RequestId : futures'[l][i] = d
                                => got'[d] = None /\ uses'[d] = l /\ number'[d] = i
      BY DEF Single
    <2>1. CASE d = c
      <3>1. place'[d] = p /\ got'[d] = None /\ uses'[d] = k /\ number'[d] = id
        BY <2>1, <1>1 DEF TypeOK
      <3>2. \A l \in Caller, i \in RequestId : futures'[l][i] = d => l = k /\ i = id
        BY <2>1, <1>2 DEF Free
      <3>3. QED
        BY <3>1, <3>2
    <2>2. CASE d # c
      <3>1. /\ place'[d] = place[d] /\ got'[d] = got[d] /\ uses'[d] = uses[d]
            /\ number'[d] = number[d]
        BY <2>2, <1>1 DEF TypeOK
      <3>2. \A l \in Caller, i \in RequestId : futures'[l][i] = d => futures[l][i] = d
        BY <2>2, <1>2
      <3>3. Free(d) => Free(d)'
        BY <3>2 DEF Free
      <3>4. QED
        BY <3>1, <3>2, <3>3 DEF Single
    <2>3. QED
      BY <2>1, <2>2
  <1>9. QED
    BY <1>6, <1>7, <1>8

\* A message with an id resolves the future found under it.
LEMMA FutureResolved ==
    ASSUME CallerAssumption, TypeOK, FutureInv, Told, NEW k \in Caller, NEW id \in RequestId,
           NEW answer, answer # None,
           Resolve(k, id, answer), UNCHANGED <<lastId, torn, place, uses, number, kind, ending>>,
           \A l \in Caller : requests'[l] \subseteq requests[l],
           \/ answer.for = None
           \/ k \in torn
           \/ \A c \in Caller : futures[k][id] = c /\ place[c] = "call" => answer = Own(c)
    PROVE  FutureInv' /\ Told'
  <1> USE DEF FutureInv, CallerAssumption
  <1>1. \A l \in Caller, i \in RequestId :
           futures'[l][i] = IF l = k /\ i = id THEN None ELSE futures[l][i]
    BY DEF TypeOK, Resolve
  <1>2. \A c \in Caller : got'[c] = IF /\ futures[k][id] = c /\ place[c] \in {"init", "call"}
                                       /\ got[c] = None
                                    THEN answer ELSE got[c]
    BY DEF TypeOK, Resolve
  <1>3. Numbered'
    BY <1>1 DEF Numbered
  <1>4. Owned'
    <2> SUFFICES ASSUME NEW l \in Caller \ torn', NEW r \in requests'[l],
                        futures'[l][r.id] # None
                 PROVE  /\ r.for = futures'[l][r.id]
                        /\ place'[r.for] = "call" => r.what = "call"
      BY DEF Owned
    <2>1. r \in requests[l] /\ r.id \in RequestId
      BY DEF TypeOK
    <2>2. QED
      BY <2>1, <1>1 DEF Owned
  <1>5. Single'
    <2> SUFFICES ASSUME NEW d \in Caller
                 PROVE  /\ place'[d] \in {"idle", "starting"} => got'[d] = None /\ Free(d)'
                        /\ place'[d] \in {"init", "call"} =>
                             \A l \in Caller, i \in RequestId : futures'[l][i] = d
                                => got'[d] = None /\ uses'[d] = l /\ number'[d] = i
      BY DEF Single
    <2>1. Free(d) => Free(d)'
      BY <1>1 DEF Free
    <2>2. \A l \in Caller, i \in RequestId :
             futures'[l][i] = d => futures[l][i] = d /\ ~(l = k /\ i = id)
      BY <1>1
    <2>3. CASE got'[d] = got[d]
      BY <2>1, <2>2, <2>3 DEF Single
    <2>4. CASE got'[d] # got[d]
      <3>1. futures[k][id] = d /\ place[d] \in {"init", "call"}
        BY <2>4, <1>2
      <3>2. Free(d)'
        BY <3>1, <2>2 DEF Single, Free
      <3>3. QED
        BY <3>1, <3>2, <2>2 DEF Single
    <2>5. QED
      BY <2>3, <2>4
  <1>6. Told'
    <2>1. \A c \in Caller : got'[c] # got[c] => uses[c] = k
      BY <1>2 DEF Single
    <2>2. QED
      BY <1>2, <2>1 DEF Told, Own
  <1>7. QED
    BY <1>3, <1>4, <1>5, <1>6

McpInv == TypeInv /\ FutureInv /\ Told

LEMMA McpInit == ASSUME CallerAssumption, Init PROVE McpInv
  <1>1. FutureInv
    BY DEF Init, FutureInv, Numbered, Owned, Single, Free, CallerAssumption
  <1>2. Told
    BY DEF Init, Told
  <1>3. QED
    BY <1>1, <1>2, McpTypeInit DEF McpInv

LEMMA McpStep == ASSUME CallerAssumption, McpInv, [Next]_mcpVars PROVE McpInv'
  <1>1. TypeInv' /\ lastId' \in [Caller -> 0 .. MaxId]
    BY McpTypeStep, FewHolds DEF McpInv
  <1>2. TypeOK /\ FutureInv /\ Told /\ None \notin Caller
    BY DEF McpInv, TypeInv, CallerAssumption
  <1> DEFINE Quiet ==
        /\ UNCHANGED <<lastId, got, torn>>
        /\ \A k \in Caller, i \in RequestId : futures'[k][i] \in {futures[k][i], None}
        /\ \A k \in Caller : requests'[k] \subseteq requests[k]
        /\ \A c \in Caller : \/ /\ place'[c] = place[c] /\ uses'[c] = uses[c]
                                /\ number'[c] = number[c]
                             \/ place'[c] \in {"closing", "post", "done"}
                             \/ place[c] = "idle" /\ place'[c] = "starting"
  <1>3. ASSUME Quiet, Told' PROVE McpInv'
    BY <1>1, <1>2, <1>3, FutureKept DEF McpInv
  <1> HIDE DEF Quiet
  <1> USE DEF entryVars, clientVars, callVars, Fail
  <1>4. CASE RegisterServer \/ UnregisterServer \/ UNCHANGED mcpVars
    <2>1. Quiet /\ Told'
      BY <1>2, <1>4 DEF RegisterServer, UnregisterServer, mcpVars, Quiet, Told
    <2>2. QED
      BY <2>1, <1>3
  <1>5. ASSUME NEW k \in Caller, Answer(k) PROVE McpInv'
    <2>1. PICK r \in requests[k] :
            /\ requests' = [requests EXCEPT ![k] = @ \ {r}]
            /\ \/ Resolve(k, r.id, [for |-> r.for, what |-> r.what])
               \/ Resolve(k, r.id, [for |-> None, what |-> "error"])
      BY <1>5 DEF Answer
    <2>2. r.id \in RequestId /\ r.for \in Caller /\ r.what \in {"initialize", "call"}
      BY <1>2 DEF TypeOK
    <2>3. /\ \A l \in Caller : requests'[l] \subseteq requests[l]
          /\ UNCHANGED <<lastId, torn, place, uses, number, kind, ending>>
      BY <1>2, <1>5, <2>1 DEF Answer, TypeOK
    <2>4. /\ [for |-> r.for, what |-> r.what] # None
          /\ [for |-> None, what |-> "error"] # None
      BY <2>2 DEF CallerAssumption, Reply
    <2>5. k \in torn \/ \A c \in Caller : futures[k][r.id] = c /\ place[c] = "call"
             => [for |-> r.for, what |-> r.what] = Own(c)
      BY <1>2 DEF FutureInv, Owned, Own
    <2>6. FutureInv' /\ Told'
      BY <1>2, <2>1, <2>2, <2>3, <2>4, <2>5, FutureResolved
    <2>7. QED
      BY <1>1, <2>6 DEF McpInv
  <1>6. ASSUME NEW k \in Caller, OwnMessage(k) PROVE McpInv'
    <2>1. PICK id \in RequestId : Resolve(k, id, [for |-> None, what |-> "own"])
      BY <1>6 DEF OwnMessage
    <2>2. [for |-> None, what |-> "own"] # None
      BY DEF CallerAssumption, Reply
    <2>3. UNCHANGED <<lastId, torn, place, uses, number, kind, ending, requests>>
      BY <1>6 DEF OwnMessage
    <2>4. FutureInv' /\ Told'
      BY <1>2, <2>1, <2>2, <2>3, FutureResolved
    <2>5. QED
      BY <1>1, <2>4 DEF McpInv
  <1>7. ASSUME NEW k \in Caller, ProcessExits(k) PROVE McpInv'
    <2>1. Quiet /\ Told'
      BY <1>2, <1>7 DEF ProcessExits, Quiet, Told, TypeOK
    <2>2. QED
      BY <2>1, <1>3
  <1>8. ASSUME NEW c \in Caller, Create(c) PROVE McpInv'
    <2>1. Quiet /\ Told'
      BY <1>2, <1>8 DEF Create, Quiet, Told, TypeOK
    <2>2. QED
      BY <2>1, <1>3
  <1>s. ASSUME NEW c \in Caller, NEW k \in Caller, CallOver(c, k) \/ SendCall(c, k), Free(c),
               uses' = [uses EXCEPT ![c] = k], place[c] # "done", UNCHANGED kind
        PROVE  McpInv'
    <2>0. Told'
      <3>1. CASE SendCall(c, k)
        <4>1. torn \subseteq torn'
          BY <3>1 DEF SendCall, Request, Numbers
        <4>2. QED
          BY <1>2, <1>s, <3>1, <4>1 DEF SendCall, Told, TypeOK
      <3>2. CASE CallOver(c, k) /\ ~SendCall(c, k)
        BY <1>2, <1>s, <3>2 DEF CallOver, Told, TypeOK
      <3>3. QED
        BY <1>s, <3>1, <3>2
    <2>1. CASE SendCall(c, k)
      <3>1. PICK p \in {"call", "done"} : place' = [place EXCEPT ![c] = p]
        BY <2>1 DEF SendCall
      <3>2. Request(k, c, "call") /\ got' = [got EXCEPT ![c] = None]
        BY <2>1 DEF SendCall
      <3>3. FutureInv'
        BY <1>1, <1>2, <1>s, <3>1, <3>2, FutureSent
      <3>4. QED
        BY <1>1, <2>0, <3>3 DEF McpInv
    <2>2. CASE CallOver(c, k) /\ ~SendCall(c, k)
      <3>1. Quiet
        BY <1>2, <1>s, <2>2 DEF CallOver, Quiet, TypeOK
      <3>2. QED
        BY <2>0, <3>1, <1>3
    <2>3. QED
      BY <1>s, <2>1, <2>2
  <1>9. ASSUME NEW c \in Caller, Share(c) PROVE McpInv'
    <2>1. published[configs] \in Caller /\ Free(c)
      <3>1. published[configs] \in Caller \cup {None}
        BY <1>2 DEF TypeOK
      <3>2. published[configs] # None /\ place[c] = "idle"
        BY <1>9 DEF Share
      <3>3. QED
        BY <1>2, <3>1, <3>2 DEF FutureInv, Single
    <2>2. CASE CallOver(c, published[configs])
      BY <1>9, <1>s, <2>1, <2>2 DEF Share
    <2>3. CASE ~CallOver(c, published[configs])
      <3>1. Quiet /\ Told'
        BY <1>2, <1>9, <2>3 DEF Share, Quiet, Told, TypeOK
      <3>2. QED
        BY <3>1, <1>3
    <2>4. QED
      BY <2>2, <2>3
  <1>10. ASSUME NEW c \in Caller, Started(c) PROVE McpInv'
    <2>1. Free(c) /\ got[c] = None
      BY <1>2, <1>10 DEF Started, FutureInv, Single
    <2>2. got' = [got EXCEPT ![c] = None] /\ uses' = [uses EXCEPT ![c] = c]
      BY <1>2, <1>10, <2>1 DEF Started, TypeOK, McpInv, TypeInv, Entered
    <2>3. place' = [place EXCEPT ![c] = "init"] /\ Request(c, c, "initialize")
      BY <1>10 DEF Started
    <2>4. FutureInv'
      BY <1>1, <1>2, <2>1, <2>2, <2>3, FutureSent
    <2>5. Told'
      <3>1. torn \subseteq torn'
        BY <2>3 DEF Request, Numbers
      <3>2. QED
        BY <1>2, <1>10, <3>1 DEF Started, Told, TypeOK
    <2>6. QED
      BY <1>1, <2>4, <2>5 DEF McpInv
  <1>11. ASSUME NEW c \in Caller, Initialized(c) PROVE McpInv'
    <2>1. published[entry[c]] \in Caller
      BY <1>2, <1>11 DEF Initialized, McpInv, TypeInv, Entered, TypeOK
    <2>2. Free(c)
      BY <1>2, <1>11 DEF Initialized, FutureInv, Single, Free
    <2>3. QED
      BY <1>11, <1>s, <2>1, <2>2 DEF Initialized
  <1>12. ASSUME NEW c \in Caller, NotRegistered(c) \/ StartFails(c) \/ CleanedUp(c)
         PROVE  McpInv'
    <2>1. Quiet
      BY <1>2, <1>12 DEF NotRegistered, StartFails, CleanedUp, Quiet, TypeOK
    <2>2. Told'
      BY <1>2, <1>12 DEF NotRegistered, StartFails, CleanedUp, Told, TypeOK
    <2>3. QED
      BY <2>1, <2>2, <1>3
  <1>13. ASSUME NEW c \in Caller, InitializeRefused(c) PROVE McpInv'
    <2>1. Quiet /\ Told'
      BY <1>2, <1>13 DEF InitializeRefused, CleanUp, Quiet, Told, TypeOK
    <2>2. QED
      BY <2>1, <1>3
  <1>14. ASSUME NEW c \in Caller, RequestTimeout(c) PROVE McpInv'
    <2>1. \A k \in Caller, i \in RequestId : futures'[k][i] \in {futures[k][i], None}
      BY <1>2, <1>14 DEF RequestTimeout, Forget, TypeOK
    <2>2. Quiet
      BY <1>2, <1>14, <2>1 DEF RequestTimeout, CleanUp, Quiet, TypeOK
    <2>3. Told'
      BY <1>2, <1>14 DEF RequestTimeout, CleanUp, Told, TypeOK
    <2>4. QED
      BY <2>2, <2>3, <1>3
  <1>15. ASSUME NEW c \in Caller, Answered(c) PROVE McpInv'
    <2>1. Quiet
      BY <1>2, <1>15 DEF Answered, Quiet, TypeOK
    <2>2. Told'
      BY <1>2, <1>15 DEF Answered, Told, TypeOK
    <2>3. QED
      BY <2>1, <2>2, <1>3
  <1>16. ASSUME NEW c \in Caller, Posted(c) \/ Cancel(c) PROVE McpInv'
    <2>1. Quiet
      BY <1>2, <1>16 DEF Posted, Cancel, Quiet, TypeOK
    <2>2. Told'
      BY <1>2, <1>16 DEF Posted, Cancel, Told, TypeOK
    <2>3. QED
      BY <2>1, <2>2, <1>3
  <1>17. QED
    BY <1>4, <1>5, <1>6, <1>7, <1>8, <1>9, <1>10, <1>11, <1>12, <1>13, <1>14, <1>15, <1>16
       DEF Next, Over

\* mcp_client.py:292-350: a caller that returns a result returns the answer to
\* its own call, whatever is late, refused, cancelled or shared meanwhile.
THEOREM AnswersAreOwn == ASSUME CallerAssumption PROVE Spec => []OwnAnswer
  <1>1. Init => McpInv
    BY McpInit
  <1>2. McpInv /\ [Next]_mcpVars => McpInv'
    BY McpStep
  <1>3. McpInv => OwnAnswer
    BY DEF McpInv, Told, Own, OwnAnswer
  <1>4. QED
    BY <1>1, <1>2, <1>3, PTL DEF Spec
=============================================================================
