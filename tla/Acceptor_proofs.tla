--------------------------- MODULE Acceptor_proofs --------------------------
(***************************************************************************)
(* For any number of connections, threads, cells and descriptors: a        *)
(* thread's cell and its descriptor are its own.  The three invariants are *)
(* inductive together: that descriptors are exclusive needs the cells that *)
(* carry them to be exclusive.                                             *)
(***************************************************************************)
EXTENDS Acceptor, TLAPS

Inv == TypeOK /\ CellsExclusive /\ ConnectionsExclusive

LEMMA Initial == Init => Inv
  BY NameAssumption
  DEF Init, Inv, TypeOK, CellsExclusive, ConnectionsExclusive, ThreadPC, Fd,
      OwnsCell, OwnsFd

LEMMA Step == Inv /\ [Next]_vars => Inv'
  <1> SUFFICES ASSUME Inv, [Next]_vars PROVE Inv'
    OBVIOUS
  <1> USE NameAssumption DEF Inv, OwnsCell, OwnsFd, HandedFd, ThreadPC
  <1>1. CASE MallocCell
    <2>1. TypeOK'
      BY <1>1 DEF MallocCell, TypeOK, CellsExclusive, ConnectionsExclusive
    <2>2. CellsExclusive'
      BY <1>1 DEF MallocCell, TypeOK, CellsExclusive
    <2>3. ConnectionsExclusive'
      BY <1>1 DEF MallocCell, TypeOK, CellsExclusive, ConnectionsExclusive
    <2> QED
      BY <2>1, <2>2, <2>3
  <1>2. CASE MallocFails
    <2>1. TypeOK'
      BY <1>2 DEF MallocFails, Exit, TypeOK, CellsExclusive, ConnectionsExclusive
    <2>2. CellsExclusive'
      BY <1>2 DEF MallocFails, Exit, TypeOK, CellsExclusive
    <2>3. ConnectionsExclusive'
      BY <1>2 DEF MallocFails, Exit, TypeOK, CellsExclusive, ConnectionsExclusive
    <2> QED
      BY <2>1, <2>2, <2>3
  <1>3. CASE AcceptConn
    <2>1. TypeOK'
      BY <1>3 DEF AcceptConn, FreeFd, TypeOK, CellsExclusive, ConnectionsExclusive
    <2>2. CellsExclusive'
      BY <1>3 DEF AcceptConn, FreeFd, TypeOK, CellsExclusive
    <2>3. ConnectionsExclusive'
      BY <1>3 DEF AcceptConn, FreeFd, TypeOK, CellsExclusive, ConnectionsExclusive
    <2> QED
      BY <2>1, <2>2, <2>3
  <1>4. CASE AcceptFails
    <2>1. TypeOK'
      BY <1>4 DEF AcceptFails, Exit, TypeOK, CellsExclusive, ConnectionsExclusive
    <2>2. CellsExclusive'
      BY <1>4 DEF AcceptFails, Exit, TypeOK, CellsExclusive
    <2>3. ConnectionsExclusive'
      BY <1>4 DEF AcceptFails, Exit, TypeOK, CellsExclusive, ConnectionsExclusive
    <2> QED
      BY <2>1, <2>2, <2>3
  <1>5. CASE CreateThread
    <2>1. TypeOK'
      BY <1>5 DEF CreateThread, TypeOK, CellsExclusive, ConnectionsExclusive
    <2>2. CellsExclusive'
      BY <1>5 DEF CreateThread, TypeOK, CellsExclusive
    <2>3. ConnectionsExclusive'
      BY <1>5 DEF CreateThread, TypeOK, CellsExclusive, ConnectionsExclusive
    <2> QED
      BY <2>1, <2>2, <2>3
  <1>6. CASE CreateFails
    <2>1. TypeOK'
      BY <1>6 DEF CreateFails, Exit, TypeOK, CellsExclusive, ConnectionsExclusive
    <2>2. CellsExclusive'
      BY <1>6 DEF CreateFails, Exit, TypeOK, CellsExclusive
    <2>3. ConnectionsExclusive'
      BY <1>6 DEF CreateFails, Exit, TypeOK, CellsExclusive, ConnectionsExclusive
    <2> QED
      BY <2>1, <2>2, <2>3
  <1>7. ASSUME NEW t \in Thread, ReadCell(t) PROVE Inv'
    <2>1. TypeOK'
      BY <1>7 DEF ReadCell, Goto, TypeOK, CellsExclusive, ConnectionsExclusive
    <2>2. CellsExclusive'
      BY <1>7 DEF ReadCell, Goto, TypeOK, CellsExclusive
    <2>3. ConnectionsExclusive'
      BY <1>7 DEF ReadCell, Goto, TypeOK, CellsExclusive, ConnectionsExclusive
    <2> QED
      BY <2>1, <2>2, <2>3
  <1>8. ASSUME NEW t \in Thread, FreeCell(t) PROVE Inv'
    <2>1. TypeOK'
      BY <1>8 DEF FreeCell, Goto, TypeOK, CellsExclusive, ConnectionsExclusive
    <2>2. CellsExclusive'
      BY <1>8 DEF FreeCell, Goto, TypeOK, CellsExclusive
    <2>3. ConnectionsExclusive'
      BY <1>8 DEF FreeCell, Goto, TypeOK, CellsExclusive, ConnectionsExclusive
    <2> QED
      BY <2>1, <2>2, <2>3
  <1>9. ASSUME NEW t \in Thread, CloseConn(t) PROVE Inv'
    <2>1. TypeOK'
      BY <1>9 DEF CloseConn, Goto, TypeOK, CellsExclusive, ConnectionsExclusive
    <2>2. CellsExclusive'
      BY <1>9 DEF CloseConn, Goto, TypeOK, CellsExclusive
    <2>3. ConnectionsExclusive'
      BY <1>9 DEF CloseConn, Goto, TypeOK, CellsExclusive, ConnectionsExclusive
    <2> QED
      BY <2>1, <2>2, <2>3
  <1>10. ASSUME NEW t \in Thread, DoitLocal(t) PROVE Inv'
    <2>1. TypeOK'
      BY <1>10 DEF DoitLocal, Goto, TypeOK, CellsExclusive, ConnectionsExclusive
    <2>2. CellsExclusive'
      BY <1>10 DEF DoitLocal, Goto, TypeOK, CellsExclusive
    <2>3. ConnectionsExclusive'
      BY <1>10 DEF DoitLocal, Goto, TypeOK, CellsExclusive, ConnectionsExclusive
    <2> QED
      BY <2>1, <2>2, <2>3
  <1>11. ASSUME NEW t \in Thread, DoitServer(t) PROVE Inv'
    <2>1. TypeOK'
      BY <1>11 DEF DoitServer, Goto, FreeFd, TypeOK, CellsExclusive, ConnectionsExclusive
    <2>2. CellsExclusive'
      BY <1>11 DEF DoitServer, Goto, FreeFd, TypeOK, CellsExclusive
    <2>3. ConnectionsExclusive'
      BY <1>11 DEF DoitServer, Goto, FreeFd, TypeOK, CellsExclusive, ConnectionsExclusive
    <2> QED
      BY <2>1, <2>2, <2>3
  <1>12. ASSUME NEW t \in Thread, DoitFails(t) PROVE Inv'
    <2>1. TypeOK'
      BY <1>12 DEF DoitFails, Exit, TypeOK, CellsExclusive, ConnectionsExclusive
    <2>2. CellsExclusive'
      BY <1>12 DEF DoitFails, Exit, TypeOK, CellsExclusive
    <2>3. ConnectionsExclusive'
      BY <1>12 DEF DoitFails, Exit, TypeOK, CellsExclusive, ConnectionsExclusive
    <2> QED
      BY <2>1, <2>2, <2>3
  <1>13. CASE UNCHANGED vars
    BY <1>13 DEF vars, TypeOK, CellsExclusive, ConnectionsExclusive
  <1> QED
    BY <1>1, <1>2, <1>3, <1>4, <1>5, <1>6, <1>7, <1>8, <1>9, <1>10, <1>11, <1>12, <1>13
    DEF Next, MainStep, ThreadStep, Doit, Idle

LEMMA Invariance == Spec => []Inv
  BY Initial, Step, PTL DEF Spec

(* Every variable has its type in every reachable state.                   *)
THEOREM TypeCorrect == Spec => []TypeOK
  BY Invariance, PTL DEF Inv

(* The heap cell a thread gets from main is read and freed by it alone.    *)
THEOREM CellHandOff == Spec => []CellsExclusive
  BY Invariance, PTL DEF Inv

(* A descriptor is served by one thread, which is the one to close it.     *)
THEOREM OneThreadPerConnection == Spec => []ConnectionsExclusive
  BY Invariance, PTL DEF Inv

=============================================================================
