-------------------------- MODULE StateStoreProofs --------------------------
(***************************************************************************)
(* For any number of positions and crashes, both state stores implement    *)
(* Store: the file with its rename, and the row with its retries and late  *)
(* statements.                                                             *)
(***************************************************************************)
EXTENDS StateStore, TLAPS

\* Which calls each store makes, and what they hold: a Load saves nothing, a Save
\* has a position that was handed over, and only MySQL executes statements late.
CallShape ==
    /\ pc \in {"boot", "idle", "read"} => arg = Zero
    /\ pc \in {"create", "write", "rename"} => arg \in Position
    /\ arg \in {Zero} \cup handed
    /\ kind = "file" => late = {} /\ pc \notin {"execute", "retry"}
    /\ kind = "mysql" => pc \notin {"read", "create", "write", "rename"}

\* What is stored is whole and was handed to Save: the rename is what makes it so
\* for the file, the statement's atomicity for the row.
OnlyHanded ==
    /\ path \in {Absent} \cup handed /\ row \in {Absent} \cup handed
    /\ late \subseteq handed
    /\ pc = "rename" => tmp = arg

\* Load clones the strings it returns (mysqlstore.go:80-84).
Cloned == ~loaded.view

\* The inductive invariant.
Inv == TypeOK /\ CallShape /\ OnlyHanded /\ Cloned

\* The parts of the next-state relation that the proofs go through one by one.
MysqlStep == Select \/ Replace \/ AttemptFails \/ \E p \in late : LateRuns(p)
CallerStep == Load \/ (\E p \in Position : Save(p)) \/ Crash

----------------------------------------------------------------------------
\* An empty store and a process that has not called it yet.
LEMMA InitInv == Init => Inv
  BY StoreAssumption DEF Init, Inv, TypeOK, CallShape, OnlyHanded, Cloned, Own,
     Position, Zero, Torn, Absent

\* Positions, the zero Position and the two marks are all different.
LEMMA MarksDiffer ==
    /\ Zero \notin Position /\ Torn \notin Position /\ Absent \notin Position
    /\ Torn # Absent /\ Torn # Zero /\ Absent # Zero
  BY StoreAssumption DEF Position, Zero, Torn, Absent

\* The calls of run and of the committer, and a crash, preserve the invariant.
LEMMA CallerInv == Inv /\ CallerStep => Inv'
<1> SUFFICES ASSUME Inv, CallerStep PROVE Inv'
  OBVIOUS
<1> USE StoreAssumption, MarksDiffer DEF Inv, TypeOK, CallShape, OnlyHanded, Cloned,
        stores, caller
<1>1. CASE Load
  BY <1>1 DEF Load
<1>2. ASSUME NEW p \in Position, Save(p) PROVE Inv'
  BY <1>2 DEF Save
<1>3. CASE Crash
  BY <1>3 DEF Crash, Own
<1> QED
  BY <1>1, <1>2, <1>3 DEF CallerStep

\* The steps of FileStore preserve the invariant.
LEMMA FileInv == Inv /\ FileStep => Inv'
<1> SUFFICES ASSUME Inv, FileStep PROVE Inv'
  OBVIOUS
<1> USE StoreAssumption, MarksDiffer DEF Inv, TypeOK, CallShape, OnlyHanded, Cloned,
        stores, caller
<1>1. CASE FileLoad
  <2>1. CASE LoadReturns(Own(Decoded(path))) /\ UNCHANGED buf
    <3>1. Decoded(path) \in Position \cup {Zero}
      BY DEF Decoded
    <3>2. Own(Decoded(path)) \in [view : BOOLEAN, val : Position \cup {Zero}]
      BY <3>1 DEF Own
    <3> QED
      BY <1>1, <2>1, <3>1, <3>2 DEF LoadReturns, Own
  <2>2. CASE Fails /\ UNCHANGED stores
    BY <1>1, <2>2 DEF FileLoad, Fails
  <2> QED
    BY <1>1, <2>1, <2>2 DEF FileLoad
<1>2. CASE FileCreate
  BY <1>2 DEF FileCreate
<1>3. CASE FileWrite
  BY <1>3 DEF FileWrite, Fails
<1>4. CASE FileRename
  BY <1>4 DEF FileRename, SaveReturns, Fails
<1> QED
  BY <1>1, <1>2, <1>3, <1>4 DEF FileStep

\* The steps of MySQLStore and of its server preserve the invariant.
LEMMA MysqlInv == Inv /\ MysqlStep => Inv'
<1> SUFFICES ASSUME Inv, MysqlStep PROVE Inv'
  OBVIOUS
<1> USE StoreAssumption, MarksDiffer DEF Inv, TypeOK, CallShape, OnlyHanded, Cloned,
        stores, caller
<1>1. CASE Select
  BY <1>1 DEF Select, LoadReturns, Clone, Own, Decoded
<1>2. CASE Replace
  BY <1>2 DEF Replace, SaveReturns
<1>3. CASE AttemptFails
  BY <1>3 DEF AttemptFails, Fails
<1>4. ASSUME NEW p \in late, LateRuns(p) PROVE Inv'
  BY <1>4 DEF LateRuns
<1> QED
  BY <1>1, <1>2, <1>3, <1>4 DEF MysqlStep

\* The invariant of the stores holds in every reachable state.
LEMMA StoreInv == Spec => []Inv
<1>1. Inv /\ UNCHANGED vars => Inv'
  BY DEF Inv, TypeOK, CallShape, OnlyHanded, Cloned, vars, stores, caller
<1>2. Inv /\ [Next]_vars => Inv'
  BY <1>1, CallerInv, FileInv, MysqlInv DEF Next, CallerStep, MysqlStep
<1> QED
  BY <1>2, InitInv, PTL DEF Spec

----------------------------------------------------------------------------
\* Every reachable state of the stores is well typed.
THEOREM StoreTypeCorrect == Spec => []TypeOK
  BY StoreInv, PTL DEF Inv

\* The position a run resumes from never changes under it, although the buffer
\* its strings came from is reused by every later query.
THEOREM LoadedStable == Spec => LoadedIsStable
<1>1. Inv /\ Inv' => (loaded' = loaded => Read(loaded)' = Read(loaded))
  BY DEF Inv, Cloned, Read
<1> QED
  BY <1>1, StoreInv, PTL DEF LoadedIsStable

\* What the mapping to Store depends on: the stored position, the positions handed
\* over, the call and its argument, the loaded position.
LEMMA MappedStutter ==
    ASSUME Inv, Inv', UNCHANGED <<kind, arg, handed, loaded>>,
           kind = "file" => path' = path, kind # "file" => row' = row,
           pc \in {"boot", "idle"} <=> pc' \in {"boot", "idle"}
    PROVE  UNCHANGED S!storeVars
  BY DEF S!storeVars, Inv, Cloned, Read

\* A call that reports an error, or whose process dies, is a Fails of Store.
LEMMA MappedFails ==
    ASSUME Inv, Inv', UNCHANGED <<kind, handed, path, row>>,
           pc' \in {"boot", "idle"}, arg' = Zero, loaded' \in {loaded, Own(Zero)}
    PROVE  S!Fails
  BY DEF S!Fails, S!NoCall, Inv, Cloned, Read, Own

\* Every step of the file store or of the row is a step of Store or changes
\* nothing Store knows of.
LEMMA StepImplements == Inv /\ Inv' /\ [Next]_vars => [S!Next]_(S!storeVars)
<1> SUFFICES ASSUME Inv, Inv', [Next]_vars PROVE S!Next \/ UNCHANGED S!storeVars
  OBVIOUS
<1>0. /\ ~loaded.view /\ ~loaded'.view
      /\ Read(loaded) = loaded.val /\ Read(loaded)' = loaded'.val
  BY DEF Inv, Cloned, Read
<1>1. CASE Load
  <2>1. S!Load
    BY <1>1 DEF Load, S!Load, S!NoCall, Inv, CallShape, Cloned, Read, stores, caller
  <2> QED
    BY <2>1 DEF S!Next
<1>2. ASSUME NEW p \in Position, Save(p) PROVE S!Save(p)
  <2>1. p # Zero /\ arg = Zero
    BY <1>2, MarksDiffer DEF Save, Inv, CallShape
  <2> QED
    BY <1>2, <2>1 DEF Save, S!Save, S!NoCall, Inv, Cloned, Read, stores, caller
<1>3. CASE Crash
  <2>1. S!Fails
    BY <1>3, MappedFails DEF Crash
  <2> QED
    BY <2>1 DEF S!Next
<1>4. CASE FileLoad
  <2>1. kind = "file" /\ arg = Zero
    BY <1>4, StoreAssumption DEF FileLoad, Inv, TypeOK, CallShape
  <2>2. CASE LoadReturns(Own(Decoded(path))) /\ UNCHANGED buf
    <3>1. S!LoadReturns
      BY <1>0, <1>4, <2>1, <2>2 DEF LoadReturns, FileLoad, S!LoadReturns, S!NoCall,
                                    Own, Read
    <3> QED
      BY <3>1 DEF S!Next
  <2>3. CASE Fails /\ UNCHANGED stores
    <3>1. S!Fails
      BY <2>1, <2>3, MappedFails DEF Fails, stores, caller
    <3> QED
      BY <3>1 DEF S!Next
  <2> QED
    BY <1>4, <2>2, <2>3 DEF FileLoad
<1>5. CASE FileCreate
  BY <1>5, MappedStutter DEF FileCreate, caller
<1>6. CASE FileWrite
  <2>1. CASE tmp' = arg /\ pc' = "rename" /\ UNCHANGED <<caller, arg>>
    BY <1>6, <2>1, MappedStutter DEF FileWrite, caller
  <2>2. CASE Fails /\ UNCHANGED tmp
    <3>1. S!Fails
      BY <1>6, <2>2, MappedFails DEF FileWrite, Fails, caller
    <3> QED
      BY <3>1 DEF S!Next
  <2> QED
    BY <1>6, <2>1, <2>2 DEF FileWrite
<1>7. CASE FileRename
  <2>1. kind = "file" /\ arg \in Position /\ tmp = arg
    BY <1>7, StoreAssumption DEF FileRename, Inv, TypeOK, CallShape, OnlyHanded
  <2>2. CASE path' = tmp /\ tmp' = Absent /\ SaveReturns
    <3>1. S!SaveReturns
      BY <1>0, <1>7, <2>1, <2>2, MarksDiffer
         DEF FileRename, SaveReturns, S!SaveReturns, S!NoCall, Decoded, Read, caller
    <3> QED
      BY <3>1 DEF S!Next
  <2>3. CASE Fails /\ UNCHANGED <<path, tmp>>
    <3>1. S!Fails
      BY <1>7, <2>3, MappedFails DEF FileRename, Fails, caller
    <3> QED
      BY <3>1 DEF S!Next
  <2> QED
    BY <1>7, <2>2, <2>3 DEF FileRename
<1>8. CASE Select
  <2>1. kind # "file" /\ arg = Zero
    BY <1>8 DEF Select, Inv, CallShape
  <2>2. S!LoadReturns
    BY <1>0, <1>8, <2>1 DEF Select, LoadReturns, S!LoadReturns, S!NoCall, Clone, Own, Read
  <2> QED
    BY <2>2 DEF S!Next
<1>9. CASE Replace
  <2>1. kind # "file" /\ arg \in Position
    BY <1>9 DEF Replace, Inv, TypeOK, CallShape
  <2>2. S!SaveReturns
    BY <1>0, <1>9, <2>1, MarksDiffer
       DEF Replace, SaveReturns, S!SaveReturns, S!NoCall, Decoded, Read, caller
  <2> QED
    BY <2>2 DEF S!Next
<1>10. CASE AttemptFails
  <2>1. CASE pc = "execute" /\ pc' = "retry" /\ UNCHANGED <<caller, arg>>
    BY <1>10, <2>1, MappedStutter DEF AttemptFails, caller
  <2>2. CASE Fails
    <3>1. S!Fails
      BY <1>10, <2>2, MappedFails DEF AttemptFails, Fails, caller
    <3> QED
      BY <3>1 DEF S!Next
  <2> QED
    BY <1>10, <2>1, <2>2 DEF AttemptFails
<1>11. ASSUME NEW p \in late, LateRuns(p) PROVE S!Next \/ UNCHANGED S!storeVars
  <2>1. kind # "file" /\ p \in handed /\ p \in Position
    BY <1>11 DEF Inv, TypeOK, CallShape, OnlyHanded
  <2>2. CASE row' = row
    BY <1>11, <2>2, MappedStutter DEF LateRuns, caller
  <2>3. CASE row' = p
    <3>1. S!TakesEffect
      BY <1>0, <1>11, <2>1, <2>3, MarksDiffer DEF LateRuns, S!TakesEffect, Decoded, caller
    <3> QED
      BY <3>1 DEF S!Next
  <2> QED
    BY <1>11, <2>2, <2>3 DEF LateRuns
<1>12. CASE UNCHANGED vars
  BY <1>12, MappedStutter DEF vars, stores, caller
<1> QED
  BY <1>1, <1>2, <1>3, <1>4, <1>5, <1>6, <1>7, <1>8, <1>9, <1>10, <1>11, <1>12
     DEF Next, FileStep, S!Next

\* Both stores implement Store, for every number of positions and of crashes: what
\* is held was handed to Save, Load returns it, and a Save that returned nil has
\* replaced it.
THEOREM StoresImplementStore == Spec => ImplementsStore
<1>1. Init => S!Init
  BY MarksDiffer DEF Init, S!Init, S!NoCall, Decoded, Read, Own
<1> QED
  BY <1>1, StepImplements, StoreInv, PTL DEF Spec, ImplementsStore, S!Spec
=============================================================================
