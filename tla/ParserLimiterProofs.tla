------------------------ MODULE ParserLimiterProofs ------------------------
(***************************************************************************)
(* For every set of requests and every configured concurrency: the types,  *)
(* the slot accounting and the room left by anonymous requests are         *)
(* invariants of the limiter, and the limiter implements ParserPool.  Inv  *)
(* is inductive; the rest follows from it, because the requests parsing    *)
(* anonymously are among the holders of anonymous tokens, of which there   *)
(* are fewer than Slots.                                                   *)
(***************************************************************************)
EXTENDS ParserLimiter, FiniteSetTheorems, TLAPS

(* Both capacities are positive, and half of a pool of two slots or more   *)
(* is less than the pool.                                                  *)
LEMMA Capacities ==
    /\ Slots \in Nat \ {0}
    /\ AnonSlots \in Nat \ {0}
    /\ Slots >= 2 => AnonSlots < Slots
  BY ConfigAssumption DEF Slots, AnonSlots

(* The sets that are counted are finite. *)
LEMMA FiniteHolders == IsFiniteSet(Parsing) /\ IsFiniteSet(AnonHolders)
  <1>1. Parsing \subseteq Requests /\ AnonHolders \subseteq Requests
    BY RequestsAssumption DEF Parsing, AnonHolders
  <1> QED
    BY <1>1, RequestsAssumption, FS_Subset

(* No request holds a slot at the start. *)
LEMMA InitInv == Init => Inv
  <1> SUFFICES ASSUME Init PROVE Inv
    OBVIOUS
  <1>1. Parsing = {} /\ AnonHolders = {}
    BY RequestsAssumption DEF Init, Parsing, AnonHolders
  <1>2. NoSlotLeak
    BY <1>1, FS_EmptySet DEF Init, NoSlotLeak
  <1>3. TypeOK /\ AnonymousPath
    BY Capacities DEF Init, TypeOK, States, AnonymousPath
  <1> QED
    BY <1>2, <1>3 DEF Inv

(* A step that leaves both counted sets and both channels alone preserves  *)
(* the accounting.                                                         *)
LEMMA SameHolders ==
    ASSUME NoSlotLeak, UNCHANGED <<total, anon>>,
           Parsing' = Parsing, AnonHolders' = AnonHolders
    PROVE  NoSlotLeak'
  BY DEF NoSlotLeak

(* Every step preserves Inv. *)
LEMMA StepInv == Inv /\ [Next]_vars => Inv'
  <1> SUFFICES ASSUME Inv, [Next]_vars PROVE Inv'
    OBVIOUS
  <1> USE Capacities, FiniteHolders, RequestsAssumption DEF Inv, TypeOK
  <1>1. ASSUME NEW r \in Requests, Arrive(r) PROVE Inv'
    <2>1. Parsing' = Parsing /\ AnonHolders' = AnonHolders
      BY <1>1 DEF Arrive, AnonymousPath, Parsing, AnonHolders
    <2>2. TypeOK' /\ AnonymousPath'
      BY <1>1 DEF Arrive, States, AnonymousPath
    <2>3. NoSlotLeak'
      BY <1>1, <2>1, SameHolders DEF Arrive
    <2> QED
      BY <2>2, <2>3
  <1>2. ASSUME NEW r \in Requests, Timeout(r) \/ Disconnect(r) PROVE Inv'
    <2>1. Parsing' = Parsing /\ AnonHolders' = AnonHolders
      BY <1>2 DEF Timeout, Disconnect, AnonymousPath, Parsing, AnonHolders
    <2>2. TypeOK' /\ AnonymousPath'
      BY <1>2 DEF Timeout, Disconnect, States, AnonymousPath
    <2>3. NoSlotLeak'
      BY <1>2, <2>1, SameHolders DEF Timeout, Disconnect
    <2> QED
      BY <2>2, <2>3
  <1>3. ASSUME NEW r \in Requests, AcquireAnon(r) PROVE Inv'
    <2>1. TypeOK' /\ AnonymousPath'
      BY <1>3 DEF AcquireAnon, States, AnonymousPath
    <2>2. Parsing' = Parsing
      BY <1>3 DEF AcquireAnon, Parsing
    <2>3. AnonHolders' = AnonHolders \cup {r} /\ r \notin AnonHolders
      BY <1>3 DEF AcquireAnon, AnonymousPath, AnonHolders
    <2>4. NoSlotLeak'
      BY <1>3, <2>2, <2>3, FS_AddElement DEF AcquireAnon, NoSlotLeak
    <2> QED
      BY <2>1, <2>4
  <1>4. ASSUME NEW r \in Requests, ShedAnon(r) PROVE Inv'
    <2>1. Parsing' = Parsing /\ AnonHolders' = AnonHolders
      BY <1>4 DEF ShedAnon, AnonymousPath, Parsing, AnonHolders
    <2>2. TypeOK' /\ AnonymousPath'
      BY <1>4 DEF ShedAnon, States, AnonymousPath
    <2>3. NoSlotLeak'
      BY <1>4, <2>1, SameHolders DEF ShedAnon
    <2> QED
      BY <2>2, <2>3
  <1>5. ASSUME NEW r \in Requests, AcquireTotal(r) PROVE Inv'
    <2>1. TypeOK' /\ AnonymousPath'
      BY <1>5 DEF AcquireTotal, States, AnonymousPath
    <2>2. Parsing' = Parsing \cup {r} /\ r \notin Parsing
      BY <1>5 DEF AcquireTotal, Parsing
    <2>3. AnonHolders' = AnonHolders
      BY <1>5 DEF AcquireTotal, AnonymousPath, AnonHolders
    <2>4. NoSlotLeak'
      BY <1>5, <2>2, <2>3, FS_AddElement DEF AcquireTotal, NoSlotLeak
    <2> QED
      BY <2>1, <2>4
  <1>6. ASSUME NEW r \in Requests, ShedTotal(r) PROVE Inv'
    <2>1. Parsing' = Parsing /\ AnonHolders' = AnonHolders
      BY <1>6 DEF ShedTotal, AnonymousPath, Parsing, AnonHolders
    <2>2. TypeOK' /\ AnonymousPath'
      BY <1>6 DEF ShedTotal, States, AnonymousPath
    <2>3. NoSlotLeak'
      BY <1>6, <2>1, SameHolders DEF ShedTotal
    <2> QED
      BY <2>2, <2>3
  <1>7. ASSUME NEW r \in Requests, Refund(r) \/ ReleaseAnon(r) PROVE Inv'
    <2>1. TypeOK' /\ AnonymousPath'
      BY <1>7 DEF Refund, ReleaseAnon, States, AnonymousPath
    <2>2. Parsing' = Parsing
      BY <1>7 DEF Refund, ReleaseAnon, Parsing
    <2>3. AnonHolders' = AnonHolders \ {r} /\ r \in AnonHolders
      BY <1>7 DEF Refund, ReleaseAnon, AnonymousPath, AnonHolders
    <2>4. NoSlotLeak'
      BY <1>7, <2>2, <2>3, FS_RemoveElement DEF Refund, ReleaseAnon, NoSlotLeak
    <2> QED
      BY <2>1, <2>4
  <1>8. ASSUME NEW r \in Requests, ReleaseTotal(r) PROVE Inv'
    <2>1. TypeOK' /\ AnonymousPath'
      BY <1>8 DEF ReleaseTotal, States, AnonymousPath
    <2>2. Parsing' = Parsing \ {r} /\ r \in Parsing
      BY <1>8 DEF ReleaseTotal, Parsing
    <2>3. AnonHolders' = AnonHolders
      BY <1>8 DEF ReleaseTotal, AnonymousPath, AnonHolders
    <2>4. NoSlotLeak'
      BY <1>8, <2>2, <2>3, FS_RemoveElement DEF ReleaseTotal, NoSlotLeak
    <2> QED
      BY <2>1, <2>4
  <1>9. CASE UNCHANGED vars
    BY <1>9 DEF vars, AnonymousPath, NoSlotLeak, Parsing, AnonHolders
  <1> QED
    BY <1>1, <1>2, <1>3, <1>4, <1>5, <1>6, <1>7, <1>8, <1>9 DEF Next

(* The accounting holds in every reachable state. *)
THEOREM Accounting == Spec => [](TypeOK /\ NoSlotLeak)
  <1>1. Inv => TypeOK /\ NoSlotLeak
    BY DEF Inv
  <1> QED
    BY InitInv, StepInv, <1>1, PTL DEF Spec

(* Anonymous requests alone never fill a pool of two slots or more. *)
THEOREM RoomForSignedIn == Spec => []AnonymousLeavesRoom
  <1>1. Inv => AnonymousLeavesRoom
    <2> SUFFICES ASSUME Inv, Slots >= 2, total = Slots, Parsing \subseteq Anonymous
                 PROVE  FALSE
      BY DEF AnonymousLeavesRoom
    <2>1. Parsing \subseteq AnonHolders
      BY DEF Parsing, AnonHolders
    <2>2. Cardinality(Parsing) <= Cardinality(AnonHolders)
      BY <2>1, FiniteHolders, FS_Subset
    <2>3. total <= anon
      BY <2>2 DEF Inv, NoSlotLeak
    <2> QED
      BY <2>3, Capacities DEF Inv, TypeOK
  <1> QED
    BY InitInv, StepInv, <1>1, PTL DEF Spec

-----------------------------------------------------------------------------

Stage == [r \in Requests |->
             CASE Waiting(r) -> "waiting"
               [] pc[r] = "parsing" -> "parsing"
               [] OTHER -> "out"]

(* A step that moves one request moves it alone in the pool. *)
LEMMA StageMoves ==
    ASSUME TypeOK, NEW r \in Requests, NEW x \in States, pc' = [pc EXCEPT ![r] = x]
    PROVE  Stage' = [Stage EXCEPT ![r] =
              IF x \in {"anonWait", "totalWait"} THEN "waiting"
              ELSE IF x = "parsing" THEN "parsing" ELSE "out"]
  BY DEF TypeOK, Stage, Waiting, States

(* The pool is as full as the shared channel, and its anonymous share no   *)
(* fuller than the anonymous one without the request that is let in.       *)
LEMMA RoomInPool ==
    ASSUME Inv, NEW r \in Requests, AcquireTotal(r)
    PROVE  /\ Cardinality(Pool!Parsed) < Slots
           /\ r \in Anonymous => Cardinality(Pool!Parsed \cap Anonymous) < AnonSlots
  <1>1. Pool!Parsed = Parsing
    BY DEF Pool!Parsed, Parsing, Waiting
  <1>2. Cardinality(Parsing) < Slots
    BY DEF Inv, NoSlotLeak, AcquireTotal
  <1>3. ASSUME r \in Anonymous PROVE Cardinality(Parsing \cap Anonymous) < AnonSlots
    <2>1. r \in AnonHolders /\ r \notin Parsing
      BY <1>3 DEF AcquireTotal, AnonHolders, Parsing
    <2>2. Parsing \cap Anonymous \subseteq AnonHolders \ {r}
      BY <2>1 DEF Parsing, AnonHolders
    <2>3. /\ IsFiniteSet(AnonHolders \ {r})
          /\ Cardinality(AnonHolders \ {r}) = Cardinality(AnonHolders) - 1
      BY <2>1, FiniteHolders, FS_RemoveElement
    <2>4. Cardinality(Parsing \cap Anonymous) <= Cardinality(AnonHolders \ {r})
      BY <2>2, <2>3, FS_Subset
    <2>5. Cardinality(Parsing \cap Anonymous) \in Nat /\ Cardinality(AnonHolders) = anon
      BY <2>2, <2>3, FS_Subset, FS_CardinalityType DEF Inv, NoSlotLeak
    <2> QED
      BY <2>3, <2>4, <2>5, Capacities DEF Inv, TypeOK
  <1> QED
    BY <1>1, <1>2, <1>3

(* Every step of the limiter is a step of the pool or invisible in it. *)
LEMMA StepPool == Inv /\ [Next]_vars => [Pool!Next]_Stage
  <1> SUFFICES ASSUME Inv, [Next]_vars PROVE [Pool!Next]_Stage
    OBVIOUS
  <1>0. TypeOK
    BY DEF Inv
  <1>1. ASSUME NEW r \in Requests, Arrive(r) PROVE Pool!Come(r)
    <2>1. PICK x \in {"anonWait", "totalWait"} : pc' = [pc EXCEPT ![r] = x]
      BY <1>1 DEF Arrive
    <2>2. Stage' = [Stage EXCEPT ![r] = "waiting"]
      BY <1>0, <2>1, StageMoves DEF States
    <2>3. Stage[r] = "out"
      BY <1>1 DEF Arrive, Stage, Waiting
    <2> QED
      BY <2>2, <2>3 DEF Pool!Come, Pool!Moves, Stage
  <1>2. ASSUME NEW r \in Requests,
               Timeout(r) \/ Disconnect(r) \/ AcquireAnon(r) \/ Refund(r) \/ ReleaseAnon(r)
        PROVE  Stage' = Stage
    BY <1>0, <1>2 DEF Timeout, Disconnect, AcquireAnon, Refund, ReleaseAnon, Stage, Waiting, TypeOK
  <1>3. ASSUME NEW r \in Requests, ShedAnon(r) \/ ShedTotal(r) PROVE Pool!Refuse(r)
    <2>1. PICK x \in {"refund", "idle"} : pc' = [pc EXCEPT ![r] = x]
      BY <1>3 DEF ShedAnon, ShedTotal
    <2>2. Stage' = [Stage EXCEPT ![r] = "out"]
      BY <1>0, <2>1, StageMoves DEF States
    <2>3. Stage[r] = "waiting"
      BY <1>3 DEF ShedAnon, ShedTotal, Stage, Waiting
    <2> QED
      BY <2>2, <2>3 DEF Pool!Refuse, Pool!Moves, Stage
  <1>4. ASSUME NEW r \in Requests, AcquireTotal(r) PROVE Pool!Enter(r)
    <2>1. pc' = [pc EXCEPT ![r] = "parsing"]
      BY <1>4 DEF AcquireTotal
    <2>2. Stage' = [Stage EXCEPT ![r] = "parsing"]
      BY <1>0, <2>1, StageMoves DEF States
    <2>3. Stage[r] = "waiting"
      BY <1>4 DEF AcquireTotal, Stage, Waiting
    <2>4. Pool!Moves(r, "waiting", "parsing")
      BY <2>2, <2>3 DEF Pool!Moves, Stage
    <2>5. /\ Cardinality(Pool!Parsed) < Slots
          /\ r \in Anonymous => Cardinality(Pool!Parsed \cap Anonymous) < AnonSlots
      BY <1>4, RoomInPool
    <2> QED
      BY <2>4, <2>5, Zenon DEF Pool!Enter, Pool!Cardinality, Cardinality
  <1>5. ASSUME NEW r \in Requests, ReleaseTotal(r) PROVE Pool!Leave(r)
    <2>1. PICK x \in {"leaveAnon", "idle"} : pc' = [pc EXCEPT ![r] = x]
      BY <1>5 DEF ReleaseTotal
    <2>2. Stage' = [Stage EXCEPT ![r] = "out"]
      BY <1>0, <2>1, StageMoves DEF States
    <2>3. Stage[r] = "parsing"
      BY <1>5 DEF ReleaseTotal, Stage, Waiting
    <2> QED
      BY <2>2, <2>3 DEF Pool!Leave, Pool!Moves, Stage
  <1>6. CASE UNCHANGED vars
    BY <1>6 DEF vars, Stage, Waiting
  <1> QED
    BY <1>1, <1>2, <1>3, <1>4, <1>5, <1>6 DEF Next, Pool!Next

(* The limiter is a pool with two shares: its two channels, the refund of  *)
(* a lost race and the two receives of a release show nowhere outside.     *)
THEOREM LimiterIsPool == Spec => ImplementsPool
  <1>1. Init => Pool!Init
    BY DEF Init, Pool!Init, Waiting
  <1>2. Inv /\ [Next]_vars => [Pool!Next]_Stage
    BY StepPool
  <1> QED
    BY <1>1, <1>2, InitInv, StepInv, PTL DEF Spec, ImplementsPool, Pool!Spec, Stage
=============================================================================
