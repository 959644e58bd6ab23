---------------------------- MODULE AllocdProofs ----------------------------
(***************************************************************************)
(* Proofs about Allocd, for every set of users, any number of names, and   *)
(* commands that may or may not fail.                                      *)
(***************************************************************************)
EXTENDS Allocd, TLAPS

\* No request of a transaction has been handled yet.
Idle == pc \notin {"txn", "create"} \/ (pc = "txn" /\ requests = 0)

\* Every tap belongs to a session or to the transaction, or is known to be left
\* over; and what pending_add_ still holds between two transactions, because a
\* roll back does not empty it, is not in the kernel any more.
TapsAccounted ==
  /\ Taps \subseteq Names(Owned) \cup Names(pending_add_) \cup leaked
  /\ Idle => Names(pending_add_) \cap links \subseteq leaked

\* A resource has its name in the list of the names in use, until a destroy
\* request takes it away.
NamesHeld ==
  /\ \A r \in Owned \cup pending_add_ : r.name \in active_interfaces_ \cup disowned
  /\ OneOwnerPerName

\* A resource belongs to one session or to the transaction, and has an id that has
\* been given out.
Placed ==
  /\ \A r \in Owned \cup pending_add_ : r.id < global_resource_id_
  /\ \A r \in Owned : r \notin pending_add_
  /\ \A m, p \in managed_resources_ : m[2] = p[2] => m = p

LEMMA DeletesType == \A S : \A d \in Deletes(S) : d \subseteq S \cap links
  BY DEF Deletes

LEMMA EmptyName == <<>> \in IfaceName
<1> DEFINE S == [ty : IfaceType, num : Nat]
<1>1. <<>> \in Seq(S)
  <2> HIDE DEF S
  <2> QED
    OBVIOUS
<1> QED
  BY <1>1 DEF IfaceName

LEMMA InitTypeOK == Init => TypeOK
<1> SUFFICES ASSUME Init PROVE TypeOK
  OBVIOUS
<1>1. ss \in IfaceName
  BY EmptyName, Zenon DEF Init
<1>2. transaction_failed \in BOOLEAN
  BY Zenon DEF Init
<1> QED
  BY <1>1, <1>2 DEF Init, TypeOK, Serving, IfaceType

LEMMA NameOfAttempt ==
  ASSUME TypeOK
  PROVE  /\ IfaceNameOfAttempt \in IfaceName
         /\ IfaceNameOfAttempt[Len(IfaceNameOfAttempt)].ty = iface_type
<1> DEFINE e == [ty |-> iface_type, num |-> global_resource_id_ % kMaxIfaceNameId]
<1>1. e \in [ty : IfaceType, num : Nat]
  BY NameIdAssumption DEF TypeOK
<1>2. ss \in Seq([ty : IfaceType, num : Nat])
  BY DEF TypeOK, IfaceName
<1>3. e.ty = iface_type
  OBVIOUS
<1> HIDE DEF e
<1>4. /\ Append(ss, e) \in Seq([ty : IfaceType, num : Nat])
      /\ Append(ss, e)[Len(Append(ss, e))] = e
  BY <1>1, <1>2
<1>5. IfaceNameOfAttempt = Append(ss, e)
  BY DEF IfaceNameOfAttempt, e
<1> QED
  BY <1>3, <1>4, <1>5 DEF IfaceName

LEMMA NextTypeOK == TypeOK /\ [Next]_vars => TypeOK'
<1> SUFFICES ASSUME TypeOK, [Next]_vars PROVE TypeOK'
  OBVIOUS
<1> USE NameIdAssumption, UserAssumption DEF TypeOK, Serving
<1>1. ASSUME NEW u \in User, Accept(u) PROVE TypeOK'
  BY <1>1 DEF Accept, createVars, idVars, nameVars, sessionVars
<1>2. CASE RecvFails
  BY <1>2 DEF RecvFails, createVars, idVars, nameVars, sessionVars
<1>3. CASE RecvRequest
  BY <1>3, Zenon DEF RecvRequest, createVars, idVars, nameVars, sessionVars
<1>4. CASE JsonHandleIdRequest
  BY <1>4 DEF JsonHandleIdRequest, NextRequest, createVars, nameVars, sessionVars
<1>5. ASSUME Ends, links' \subseteq IfaceName, leaked' \subseteq links' PROVE TypeOK'
  <2>1. ss' \in IfaceName
    BY <1>5, EmptyName, Zenon DEF Ends
  <2>2. transaction_failed' \in BOOLEAN
    BY <1>5, Zenon DEF Ends
  <2> QED
    BY <1>5, <2>1, <2>2 DEF Ends, IfaceType
<1>6. ASSUME NextRequest, Refused PROVE TypeOK'
  BY <1>6 DEF NextRequest, Refused, createVars, idVars, nameVars, sessionVars
<1>7. CASE JsonHandleShutdownRequest
  <2>1. CASE NextRequest /\ Refused
    BY <2>1, <1>6
  <2>2. CASE Ends /\ \E d \in Deletes(Names(Owned)) :
               /\ links' = links \ d
               /\ leaked' = (leaked \cup Names(Owned)) \cap links'
    <3>1. links' \subseteq IfaceName /\ leaked' \subseteq links'
      BY <2>2
    <3> QED
      BY <2>2, <3>1, <1>5
  <2> QED
    BY <1>7, <2>1, <2>2 DEF JsonHandleShutdownRequest
<1>8. ASSUME NEW ty \in IfaceType, JsonHandleCreateInterfaceRequest(ty) PROVE TypeOK'
  <2>1. CASE Refused
    BY <2>1, <1>6, <1>8 DEF JsonHandleCreateInterfaceRequest
  <2>2. CASE ~Refused
    BY <2>2, <1>8, EmptyName DEF JsonHandleCreateInterfaceRequest, NextRequest, idVars,
                                 nameVars, sessionVars
  <2> QED
    BY <2>1, <2>2
<1>9. CASE CreateAttempt
  <2> DEFINE n == IfaceNameOfAttempt
  <2>1. n \in IfaceName
    BY NameOfAttempt
  <2>2. /\ global_resource_id_' \in Nat /\ global_resource_id_' = global_resource_id_ + 1
        /\ UNCHANGED <<client_uid, requests, session_id_, disowned, managed_sessions_,
                       managed_resources_, starts>>
    BY <1>9 DEF CreateAttempt, sessionVars
  <2>3. ASSUME AttemptFailed, pc = "create"
        PROVE  /\ pc' \in {"create", "txn"} /\ transaction_failed' \in BOOLEAN
               /\ iface_type' \in IfaceType /\ ss' \in IfaceName /\ attempts' \in Nat
               /\ pc' = "create" <=> attempts' > 0
    <3>1. ss' \in IfaceName
      BY <2>1, <2>3, EmptyName, Zenon DEF AttemptFailed, CreateReturns
    <3>2. transaction_failed' \in BOOLEAN
      BY <2>3, Zenon DEF AttemptFailed
    <3> QED
      BY <2>1, <2>3, <3>1, <3>2 DEF AttemptFailed, CreateReturns, IfaceType
  <2>4. CASE AddInterfaceInUse
    BY <2>2, <2>3, <2>4 DEF AddInterfaceInUse
  <2>5. CASE AddInterfaceSucceeds
    <3>1. /\ links' \subseteq links \cup {n} /\ leaked' \subseteq links'
      BY <2>5 DEF AddInterfaceSucceeds, Acquired
    <3>2. [id |-> global_resource_id_, name |-> n] \in StaticResource
      BY <2>1 DEF StaticResource
    <3> HIDE DEF n
    <3>3. pending_add_' \subseteq StaticResource
      BY <3>2, <2>5 DEF AddInterfaceSucceeds, n
    <3>4. active_interfaces_' \subseteq IfaceName
      BY <2>1, <2>5 DEF AddInterfaceSucceeds, n
    <3> QED
      BY <2>1, <2>2, <2>5, <3>1, <3>3, <3>4, EmptyName
      DEF AddInterfaceSucceeds, CreateReturns, IfaceType
  <2>6. CASE AddInterfaceFails
    <3>1. links' \subseteq links \cup {n} /\ leaked' \subseteq links'
      BY <2>6 DEF AddInterfaceFails, NotAcquired
    <3> QED
      BY <2>1, <2>2, <2>3, <2>6, <3>1 DEF AddInterfaceFails
  <2> QED
    BY <1>9, <2>4, <2>5, <2>6 DEF CreateAttempt
<1>10. CASE AddInterfaceCrashes
  <2>1. links' \subseteq links \cup {IfaceNameOfAttempt} /\ leaked' \subseteq links' /\ Ends
    BY <1>10 DEF AddInterfaceCrashes
  <2> QED
    BY <2>1, <1>5, NameOfAttempt
<1>11. CASE JsonHandleDestroyInterfaceRequest
  <2>1. CASE Refused
    BY <2>1, <1>6, <1>11 DEF JsonHandleDestroyInterfaceRequest
  <2>2. CASE ~Refused
    <3>1. PICK n \in active_interfaces_ :
            /\ active_interfaces_' = active_interfaces_ \ {n}
            /\ links' \subseteq links /\ managed_resources_' \subseteq managed_resources_
            /\ disowned' \subseteq disowned \cup {n} /\ leaked' = leaked \cap links'
            /\ transaction_failed' \in BOOLEAN
            /\ UNCHANGED <<pc, createVars, idVars, pending_add_, managed_sessions_, starts>>
      BY <2>2, <1>11, Zenon DEF JsonHandleDestroyInterfaceRequest
    <3> QED
      BY <3>1, <1>11 DEF JsonHandleDestroyInterfaceRequest, NextRequest, createVars, idVars
  <2> QED
    BY <2>1, <2>2
<1>12. CASE JsonHandleStopSessionRequest
  <2>1. CASE Refused
    BY <2>1, <1>6, <1>12 DEF JsonHandleStopSessionRequest
  <2>2. CASE ~Refused
    <3>1. /\ links' \subseteq links /\ managed_resources_' \subseteq managed_resources_
          /\ managed_sessions_' \subseteq managed_sessions_ /\ leaked' \subseteq links'
          /\ transaction_failed' \in BOOLEAN
          /\ UNCHANGED <<pc, createVars, idVars, nameVars, pending_add_, starts>>
      BY <2>2, <1>12, Zenon DEF JsonHandleStopSessionRequest
    <3> QED
      BY <3>1, <1>12 DEF JsonHandleStopSessionRequest, NextRequest, createVars, idVars, nameVars
  <2> QED
    BY <2>1, <2>2
<1>13. CASE Commit
  <2>1. [id |-> session_id_, uid |-> client_uid] \in Session
    BY <1>13 DEF Commit, TransactionEnds, Session
  <2>2. managed_resources_' \subseteq Nat \X StaticResource
    BY <1>13 DEF Commit
  <2>3. managed_sessions_' \subseteq Session
    BY <1>13, <2>1 DEF Commit
  <2>4. transaction_failed' \in BOOLEAN
    BY <1>13, Zenon DEF Commit, TransactionEnds
  <2> QED
    BY <1>13, <2>2, <2>3, <2>4 DEF Commit, TransactionEnds, createVars, nameVars
<1>14. CASE RollBack
  BY <1>14, Zenon DEF RollBack, TransactionEnds, createVars, nameVars, sessionVars
<1>15. CASE Killed
  BY <1>15, <1>5 DEF Killed
<1>16. CASE StartAgain
  BY <1>16 DEF StartAgain, txnVars, createVars, idVars, nameVars, sessionVars
<1>17. CASE UNCHANGED vars
  BY <1>17 DEF vars, txnVars, createVars, idVars, nameVars, sessionVars
<1> QED
  BY <1>1, <1>2, <1>3, <1>4, <1>7, <1>8, <1>9, <1>10, <1>11, <1>12, <1>13, <1>14, <1>15,
     <1>16, <1>17 DEF Next, JsonServer

\* Whatever the clients send and whichever commands fail, the state of the daemon
\* has its types, it has a client exactly while it serves one, and its create loop
\* runs exactly while it has an attempt left.
THEOREM TypeCorrect == Spec => []TypeOK
<1>1. Init => TypeOK
  BY InitTypeOK
<1>2. TypeOK /\ [Next]_vars => TypeOK'
  BY NextTypeOK
<1> QED
  BY <1>1, <1>2, PTL DEF Spec

LEMMA TapsFacts ==
  /\ \A x : x \in Taps <=> x \in links /\ x[Len(x)].ty \in {"mtap", "wtap"}
  /\ \A x : x \in Taps' <=> x \in links' /\ x[Len(x)].ty \in {"mtap", "wtap"}
  BY DEF Taps

\* A step that touches neither the interfaces nor the resources.
LEMMA SameTaps ==
  ASSUME TapsAccounted, UNCHANGED <<links, leaked, pending_add_, managed_resources_>>,
         Idle' => Idle
  PROVE  TapsAccounted'
  BY DEF TapsAccounted, Taps, Owned, Names

\* The daemon ends, and every tap that is left is known to be.
LEMMA EndedTaps ==
  ASSUME Ends, Taps' \subseteq leaked'
  PROVE  TapsAccounted'
  BY DEF TapsAccounted, Ends, Names

LEMMA CreateTaps ==
  ASSUME TypeOK, TapsAccounted, CreateAttempt
  PROVE  TapsAccounted'
<1> DEFINE n == IfaceNameOfAttempt
<1>1. UNCHANGED <<managed_resources_, requests>> /\ requests > 0 /\ requests \in Nat
      /\ pc = "create" /\ pc' \in {"create", "txn"}
  BY DEF CreateAttempt, sessionVars, TypeOK, AddInterfaceInUse, AddInterfaceSucceeds,
         AddInterfaceFails, AttemptFailed, CreateReturns
<1>2. n[Len(n)].ty = iface_type
  BY NameOfAttempt
<1>3. Owned' = Owned
  BY <1>1 DEF Owned
<1>4. ~Idle'
  BY <1>1 DEF Idle
<1> HIDE DEF n
<1>5. CASE AddInterfaceInUse
  BY <1>5, <1>1, <1>4, SameTaps DEF AddInterfaceInUse
<1>6. CASE AddInterfaceSucceeds
  <2>1. links' \subseteq links \cup {n} /\ leaked' = leaked
    BY <1>6 DEF AddInterfaceSucceeds, Acquired, n
  <2>2. /\ Names(pending_add_) \subseteq Names(pending_add_')
        /\ iface_type # "wbr" => n \in Names(pending_add_')
    <3> DEFINE r == [id |-> global_resource_id_, name |-> n]
    <3>1. r.name = n
      OBVIOUS
    <3>2. /\ pending_add_ \subseteq pending_add_'
          /\ iface_type # "wbr" => r \in pending_add_'
      BY <1>6 DEF AddInterfaceSucceeds, n
    <3> HIDE DEF r
    <3> QED
      BY <3>1, <3>2 DEF Names
  <2>3. iface_type # "wifiap"
    BY <1>6 DEF AddInterfaceSucceeds
  <2> QED
    BY <1>2, <1>3, <1>4, <2>1, <2>2, <2>3, TapsFacts DEF TapsAccounted
<1>7. CASE AddInterfaceFails
  <2>1. links' \subseteq links \cup {n} /\ leaked' = (leaked \cup {n}) \cap links'
        /\ pending_add_' = pending_add_
    BY <1>7 DEF AddInterfaceFails, NotAcquired, n
  <2> QED
    BY <1>3, <1>4, <2>1, TapsFacts DEF TapsAccounted
<1> QED
  BY <1>5, <1>6, <1>7 DEF CreateAttempt

LEMMA DestroyTaps ==
  ASSUME TypeOK, TapsAccounted, JsonHandleDestroyInterfaceRequest, ~Refused
  PROVE  TapsAccounted'
<1>1. /\ pc = "txn" /\ pc' = pc /\ requests' = requests + 1 /\ requests \in Nat
      /\ pending_add_' = pending_add_ /\ leaked' = leaked \cap links'
  BY DEF JsonHandleDestroyInterfaceRequest, NextRequest, TypeOK
<1>2. ~Idle'
  BY <1>1 DEF Idle
<1>3. CASE links' = links /\ managed_resources_' = managed_resources_
  BY <1>1, <1>2, <1>3, TapsFacts DEF TapsAccounted, Owned
<1>4. CASE \E m \in managed_resources_ :
             links' = links \ {m[2].name} /\ managed_resources_' = managed_resources_ \ {m}
  <2>1. PICK m \in managed_resources_ :
          links' = links \ {m[2].name} /\ managed_resources_' = managed_resources_ \ {m}
    BY <1>4
  <2>2. \A r \in Owned : r \in Owned' \/ r.name = m[2].name
    BY <2>1 DEF Owned
  <2>3. \A x \in Names(Owned) : x \in Names(Owned') \/ x = m[2].name
    BY <2>2 DEF Names
  <2> QED
    BY <1>1, <1>2, <2>1, <2>3, TapsFacts DEF TapsAccounted
<1>5. ASSUME NEW m \in managed_resources_, NEW d \in Deletes({m[2].name}),
             links' = links \ d,
             IF d # {} THEN managed_resources_' = managed_resources_ \ {m}
                       ELSE UNCHANGED managed_resources_
      PROVE  TapsAccounted'
  <2>1. d = {} \/ d = {m[2].name}
    BY DeletesType
  <2> QED
    BY <1>3, <1>4, <1>5, <2>1
<1> QED
  BY <1>3, <1>5, Zenon DEF JsonHandleDestroyInterfaceRequest

LEMMA StopTaps ==
  ASSUME TypeOK, TapsAccounted, JsonHandleStopSessionRequest, ~Refused
  PROVE  TapsAccounted'
<1>1. /\ pc = "txn" /\ pc' = pc /\ requests' = requests + 1 /\ requests \in Nat
      /\ pending_add_' = pending_add_
  BY DEF JsonHandleStopSessionRequest, NextRequest, TypeOK
<1>2. ~Idle'
  BY <1>1 DEF Idle
<1>3. PICK s \in managed_sessions_ :
        /\ links' \subseteq links
        /\ leaked' = (leaked \cup Names(ResourcesOf(s.id))) \cap links'
        /\ managed_resources_' = {m \in managed_resources_ : m[1] # s.id}
  BY DEF JsonHandleStopSessionRequest
<1>4. \A r \in Owned : r \in Owned' \/ r \in ResourcesOf(s.id)
  BY <1>3 DEF Owned, ResourcesOf
<1>5. \A x \in Names(Owned) : x \in Names(Owned') \/ x \in Names(ResourcesOf(s.id))
  BY <1>4 DEF Names
<1> QED
  BY <1>1, <1>2, <1>3, <1>5, TapsFacts DEF TapsAccounted

LEMMA NextTaps == TypeOK /\ TapsAccounted /\ [Next]_vars => TapsAccounted'
<1> SUFFICES ASSUME TypeOK, TapsAccounted, [Next]_vars PROVE TapsAccounted'
  OBVIOUS
<1>1. ASSUME NEW u \in User, Accept(u) PROVE TapsAccounted'
  BY <1>1, SameTaps DEF Accept, sessionVars, Idle
<1>2. CASE RecvFails
  BY <1>2, SameTaps DEF RecvFails, sessionVars, Idle
<1>3. CASE RecvRequest
  BY <1>3, SameTaps DEF RecvRequest, sessionVars, Idle
<1>4. CASE JsonHandleIdRequest
  BY <1>4, SameTaps DEF JsonHandleIdRequest, NextRequest, sessionVars, Idle, TypeOK
<1>5. ASSUME NextRequest, Refused PROVE TapsAccounted'
  BY <1>5, SameTaps DEF NextRequest, Refused, sessionVars, Idle, TypeOK
<1>6. CASE JsonHandleShutdownRequest
  <2>1. CASE NextRequest /\ Refused
    BY <2>1, <1>5
  <2>2. CASE /\ pc = "txn" /\ requests = 0 /\ Ends
             /\ \E d \in Deletes(Names(Owned)) :
                  /\ links' = links \ d
                  /\ leaked' = (leaked \cup Names(Owned)) \cap links'
    <3>1. Idle
      BY <2>2 DEF Idle
    <3>2. Taps' \subseteq leaked'
      BY <2>2, <3>1, TapsFacts DEF TapsAccounted
    <3> QED
      BY <2>2, <3>2, EndedTaps
  <2> QED
    BY <1>6, <2>1, <2>2 DEF JsonHandleShutdownRequest
<1>7. ASSUME NEW ty \in IfaceType, JsonHandleCreateInterfaceRequest(ty) PROVE TapsAccounted'
  <2>1. CASE Refused
    BY <2>1, <1>5, <1>7 DEF JsonHandleCreateInterfaceRequest
  <2>2. CASE ~Refused
    BY <2>2, <1>7, SameTaps
    DEF JsonHandleCreateInterfaceRequest, NextRequest, sessionVars, Idle, TypeOK
  <2> QED
    BY <2>1, <2>2
<1>8. CASE CreateAttempt
  BY <1>8, CreateTaps
<1>9. CASE AddInterfaceCrashes
  BY <1>9, EndedTaps, TapsFacts DEF AddInterfaceCrashes
<1>10. CASE JsonHandleDestroyInterfaceRequest
  BY <1>10, <1>5, DestroyTaps, Zenon DEF JsonHandleDestroyInterfaceRequest
<1>11. CASE JsonHandleStopSessionRequest
  BY <1>11, <1>5, StopTaps, Zenon DEF JsonHandleStopSessionRequest
<1>12. CASE Commit
  <2>1. \A r \in Owned \cup pending_add_ : r \in Owned'
    <3>1. \A r \in pending_add_ : <<session_id_, r>> \in managed_resources_'
      BY <1>12 DEF Commit
    <3>2. ASSUME NEW r \in pending_add_ PROVE r \in Owned'
      <4>1. <<session_id_, r>>[2] = r
        OBVIOUS
      <4> QED
        BY <3>1, <4>1, Zenon DEF Owned
    <3>3. Owned \subseteq Owned'
      BY <1>12 DEF Commit, Owned
    <3> QED
      BY <3>2, <3>3
  <2>2. Names(Owned) \cup Names(pending_add_) \subseteq Names(Owned')
    BY <2>1 DEF Names
  <2>3. Names(pending_add_') = {}
    BY <1>12 DEF Commit, Names
  <2> QED
    BY <1>12, <2>2, <2>3, TapsFacts DEF TapsAccounted, Commit
<1>13. CASE RollBack
  <2>1. /\ links' \subseteq links /\ pending_add_' = pending_add_
        /\ leaked' = (leaked \cup Names(pending_add_)) \cap links'
        /\ Owned' = Owned
    BY <1>13 DEF RollBack, sessionVars, Owned
  <2> QED
    BY <2>1, TapsFacts DEF TapsAccounted
<1>14. CASE Killed
  BY <1>14, EndedTaps, TapsFacts DEF Killed
<1>15. CASE StartAgain
  BY <1>15, SameTaps DEF StartAgain, sessionVars, Idle
<1>16. CASE UNCHANGED vars
  BY <1>16, SameTaps DEF vars, sessionVars, txnVars, Idle
<1> QED
  BY <1>1, <1>2, <1>3, <1>4, <1>6, <1>7, <1>8, <1>9, <1>10, <1>11, <1>12, <1>13, <1>14,
     <1>15, <1>16 DEF Next, JsonServer

\* Between two transactions allocd knows every tap interface of the kernel: it
\* belongs to a session, or a command failed to delete it, or an earlier daemon
\* left it.  Holds for every choice of requests and of the commands that fail.
THEOREM NoTapIsOrphaned == Spec => []NoOrphanTap
<1>1. Init => TypeOK /\ TapsAccounted
  BY InitTypeOK DEF Init, TapsAccounted, Taps, Names
<1>2. TypeOK /\ TapsAccounted /\ [Next]_vars => TypeOK' /\ TapsAccounted'
  BY NextTypeOK, NextTaps
<1>3. TapsAccounted => NoOrphanTap
  BY TapsFacts DEF TapsAccounted, NoOrphanTap, Idle
<1> QED
  BY <1>1, <1>2, <1>3, PTL DEF Spec

\* A step that adds no resource and gives up no name.
LEMMA SameNames ==
  ASSUME TypeOK, NamesHeld, Placed,
         managed_resources_' \subseteq managed_resources_,
         pending_add_' = pending_add_ \/ pending_add_' = {},
         active_interfaces_ \subseteq active_interfaces_' \cup disowned',
         disowned \subseteq disowned',
         global_resource_id_' \in Nat, global_resource_id_ <= global_resource_id_'
  PROVE  NamesHeld' /\ Placed'
<1>1. Owned' \subseteq Owned /\ pending_add_' \subseteq pending_add_
  BY DEF Owned
<1>2. NamesHeld'
  BY <1>1 DEF NamesHeld, OneOwnerPerName
<1>3. \A r \in Owned \cup pending_add_ : r.id \in Nat
  BY DEF TypeOK, Owned, StaticResource
<1>4. Placed'
  BY <1>1, <1>3 DEF Placed, TypeOK
<1> QED
  BY <1>2, <1>4

LEMMA EndedNames == Ends => NamesHeld' /\ Placed'
  BY DEF Ends, NamesHeld, OneOwnerPerName, Placed, Owned

LEMMA CreateNames ==
  ASSUME TypeOK, NamesHeld, Placed, CreateAttempt
  PROVE  NamesHeld' /\ Placed'
<1> DEFINE n == IfaceNameOfAttempt
           r == [id |-> global_resource_id_, name |-> n]
<1>1. /\ UNCHANGED <<managed_resources_, disowned>>
      /\ global_resource_id_' = global_resource_id_ + 1 /\ global_resource_id_ \in Nat
  BY DEF CreateAttempt, sessionVars, TypeOK
<1>2. CASE UNCHANGED <<active_interfaces_, pending_add_>>
  BY <1>1, <1>2, SameNames
<1>3. CASE AddInterfaceSucceeds /\ iface_type = "wbr"
  BY <1>1, <1>3, SameNames DEF AddInterfaceSucceeds
<1>4. CASE AddInterfaceSucceeds /\ iface_type # "wbr"
  <2>1. r.id = global_resource_id_ /\ r.name = n
    OBVIOUS
  <2>2. /\ pending_add_' = pending_add_ \cup {r}
        /\ active_interfaces_' = active_interfaces_ \cup {n} /\ n \notin active_interfaces_
    BY <1>4 DEF AddInterfaceSucceeds
  <2> HIDE DEF n, r
  <2>3. Owned' = Owned /\ \A q \in Owned \cup pending_add_ : q.id \in Nat
    BY <1>1 DEF Owned, TypeOK, StaticResource
  <2>4. \A q \in Owned \cup pending_add_ : q # r /\ (q.name = n => n \in disowned)
    BY <1>1, <2>1, <2>2, <2>3 DEF Placed, NamesHeld
  <2>5. NamesHeld'
    BY <1>1, <2>1, <2>2, <2>3, <2>4 DEF NamesHeld, OneOwnerPerName
  <2>6. Placed'
    BY <1>1, <2>1, <2>2, <2>3, <2>4 DEF Placed
  <2> QED
    BY <2>5, <2>6
<1> QED
  BY <1>2, <1>3, <1>4 DEF CreateAttempt, AddInterfaceInUse, AddInterfaceFails

LEMMA DestroyNames ==
  ASSUME TypeOK, NamesHeld, Placed, JsonHandleDestroyInterfaceRequest, ~Refused
  PROVE  NamesHeld' /\ Placed'
<1>1. UNCHANGED <<pending_add_, global_resource_id_>> /\ global_resource_id_ \in Nat
  BY DEF JsonHandleDestroyInterfaceRequest, idVars, TypeOK
<1>2. PICK n \in active_interfaces_ :
        /\ active_interfaces_' = active_interfaces_ \ {n}
        /\ \/ \E m \in managed_resources_ : \E d \in Deletes({m[2].name}) :
                /\ IF d # {} THEN managed_resources_' = managed_resources_ \ {m}
                             ELSE UNCHANGED managed_resources_
                /\ disowned' = IF d = {n} THEN disowned ELSE disowned \cup {n}
           \/ disowned' = disowned \cup {n} /\ UNCHANGED managed_resources_
  BY Zenon DEF JsonHandleDestroyInterfaceRequest
<1>3. managed_resources_' \subseteq managed_resources_
  BY <1>2, Zenon
<1>4. CASE disowned' = disowned \cup {n}
  BY <1>1, <1>2, <1>3, <1>4, SameNames
<1>5. CASE disowned' # disowned \cup {n}
  <2>1. PICK m \in managed_resources_ :
          /\ n = m[2].name /\ managed_resources_' = managed_resources_ \ {m}
          /\ disowned' = disowned
    <3>0. PICK m \in managed_resources_ : \E d \in Deletes({m[2].name}) :
            /\ IF d # {} THEN managed_resources_' = managed_resources_ \ {m}
                         ELSE UNCHANGED managed_resources_
            /\ disowned' = IF d = {n} THEN disowned ELSE disowned \cup {n}
      BY <1>2, <1>5, Zenon
    <3>1. PICK d \in Deletes({m[2].name}) :
            /\ IF d # {} THEN managed_resources_' = managed_resources_ \ {m}
                         ELSE UNCHANGED managed_resources_
            /\ disowned' = IF d = {n} THEN disowned ELSE disowned \cup {n}
      BY <3>0
    <3>2. d = {n} /\ disowned' = disowned /\ managed_resources_' = managed_resources_ \ {m}
      BY <3>1, <1>5
    <3>3. n = m[2].name
      BY <3>2, DeletesType
    <3> QED
      BY <3>2, <3>3
  <2>2. Owned' \subseteq Owned /\ m[2] \in Owned /\ m[2] \notin Owned'
    BY <2>1 DEF Owned, Placed
  <2>3. \A q \in Owned' \cup pending_add_ : q.name = n => n \in disowned
    BY <2>1, <2>2 DEF NamesHeld, OneOwnerPerName, Placed
  <2>4. NamesHeld'
    BY <1>1, <1>2, <2>1, <2>2, <2>3 DEF NamesHeld, OneOwnerPerName
  <2>5. Placed'
    BY <1>1, <2>1, <2>2 DEF Placed
  <2> QED
    BY <2>4, <2>5
<1> QED
  BY <1>4, <1>5

LEMMA CommitNames ==
  ASSUME TypeOK, NamesHeld, Placed, Commit
  PROVE  NamesHeld' /\ Placed'
<1>1. /\ UNCHANGED <<active_interfaces_, disowned, global_resource_id_>>
      /\ pending_add_' = {}
      /\ managed_resources_' = managed_resources_ \cup ({session_id_} \X pending_add_)
  BY DEF Commit, TransactionEnds, nameVars
<1>2. \A m \in managed_resources_' :
        \/ m \in managed_resources_ /\ m[2] \in Owned
        \/ m[1] = session_id_ /\ m[2] \in pending_add_ /\ m = <<m[1], m[2]>>
  BY <1>1 DEF Owned
<1>3. Owned' \subseteq Owned \cup pending_add_
  BY <1>2 DEF Owned
<1>4. NamesHeld'
  BY <1>1, <1>3 DEF NamesHeld, OneOwnerPerName
<1>5. \A m, p \in managed_resources_' : m[2] = p[2] => m = p
  BY <1>2 DEF Placed
<1> QED
  BY <1>1, <1>3, <1>4, <1>5 DEF Placed

LEMMA NextNames == TypeOK /\ NamesHeld /\ Placed /\ [Next]_vars => NamesHeld' /\ Placed'
<1> SUFFICES ASSUME TypeOK, NamesHeld, Placed, [Next]_vars PROVE NamesHeld' /\ Placed'
  OBVIOUS
<1>1. global_resource_id_ \in Nat
  BY DEF TypeOK
<1>2. CASE /\ UNCHANGED <<active_interfaces_, disowned, global_resource_id_, pending_add_>>
           /\ managed_resources_' \subseteq managed_resources_
  BY <1>1, <1>2, SameNames
<1>3. ASSUME NEW u \in User, Accept(u) PROVE NamesHeld' /\ Placed'
  BY <1>2, <1>3 DEF Accept, nameVars, idVars, sessionVars
<1>4. CASE RecvFails \/ RecvRequest \/ JsonHandleIdRequest \/ Refused
  BY <1>2, <1>4 DEF RecvFails, RecvRequest, JsonHandleIdRequest, Refused, nameVars, idVars,
                    sessionVars
<1>5. ASSUME NEW ty \in IfaceType, JsonHandleCreateInterfaceRequest(ty)
      PROVE  NamesHeld' /\ Placed'
  BY <1>2, <1>4, <1>5 DEF JsonHandleCreateInterfaceRequest, nameVars, idVars, sessionVars
<1>6. CASE Ends
  BY <1>6, EndedNames
<1>7. CASE CreateAttempt
  BY <1>7, CreateNames
<1>8. CASE JsonHandleDestroyInterfaceRequest
  BY <1>4, <1>8, DestroyNames
<1>9. CASE JsonHandleStopSessionRequest
  BY <1>2, <1>4, <1>9 DEF JsonHandleStopSessionRequest, nameVars, idVars
<1>10. CASE Commit
  BY <1>10, CommitNames
<1>11. CASE RollBack \/ StartAgain
  BY <1>2, <1>11 DEF RollBack, TransactionEnds, StartAgain, nameVars, idVars, sessionVars
<1>12. CASE UNCHANGED vars
  BY <1>2, <1>12 DEF vars, nameVars, idVars, sessionVars
<1> QED
  BY <1>3, <1>4, <1>5, <1>6, <1>7, <1>8, <1>9, <1>10, <1>11, <1>12
  DEF Next, JsonServer, JsonHandleShutdownRequest, AddInterfaceCrashes, Killed

\* Two resources of allocd have the same interface name only if a destroy request
\* gave the name up for a resource it did not release, although pending_add_
\* keeps the resources of the transactions that failed.
THEOREM NamesAreExclusive == Spec => []OneOwnerPerName
<1>1. Init => TypeOK /\ NamesHeld /\ Placed
  BY InitTypeOK DEF Init, NamesHeld, OneOwnerPerName, Placed, Owned
<1>2. TypeOK /\ NamesHeld /\ Placed /\ [Next]_vars => TypeOK' /\ NamesHeld' /\ Placed'
  BY NextTypeOK, NextNames
<1>3. NamesHeld => OneOwnerPerName
  BY DEF NamesHeld
<1> QED
  BY <1>1, <1>2, <1>3, PTL DEF Spec

-----------------------------------------------------------------------------
\* What a step does to the client being served, unless it ends with it: the list of
\* requests is received once, a request is handled once, and an attempt that failed
\* leaves one attempt less, whatever the commands answer.
Advances ==
  Serving /\ Serving' =>
    \/ pc = "recv" /\ pc' = "txn" /\ requests' = 0
    \/ /\ {pc, pc'} \subseteq {"txn", "create"}
       /\ \/ requests < requests' /\ requests' <= MaxRequest
          \/ /\ pc = "create" /\ requests' = requests
             /\ pc' = "txn" \/ attempts' < attempts

ServingAdvances == [][Advances]_vars

LEMMA StepAdvances == TypeOK /\ Next => Advances
<1> SUFFICES ASSUME TypeOK, Next, Serving, Serving' PROVE Advances
  BY DEF Advances
<1> USE DEF Advances, Serving
<1>1. requests \in Nat /\ attempts \in Nat /\ MaxRequest \in Nat
  BY BoundsAssumption DEF TypeOK
<1>2. CASE RecvRequest
  BY <1>2 DEF RecvRequest
<1>3. ASSUME NextRequest, pc' \in {"txn", "create"} PROVE Advances
  BY <1>1, <1>3 DEF NextRequest
<1>4. CASE JsonHandleIdRequest
  BY <1>3, <1>4 DEF JsonHandleIdRequest, NextRequest
<1>5. CASE NextRequest /\ Refused
  BY <1>3, <1>5 DEF NextRequest, Refused
<1>6. ASSUME NEW ty \in IfaceType, JsonHandleCreateInterfaceRequest(ty) PROVE Advances
  BY <1>3, <1>5, <1>6 DEF JsonHandleCreateInterfaceRequest
<1>7. CASE CreateAttempt
  <2>1. requests' = requests
    BY <1>7 DEF CreateAttempt
  <2>2. pc = "create"
    BY <1>7 DEF CreateAttempt, AddInterfaceInUse, AddInterfaceSucceeds, AddInterfaceFails
  <2>3. CreateReturns \/ AttemptFailed
    BY <1>7, Zenon DEF CreateAttempt, AddInterfaceInUse, AddInterfaceSucceeds, AddInterfaceFails
  <2>4. (pc' = "txn") \/ (pc' = pc /\ attempts' < attempts)
    BY <1>1, <2>3 DEF CreateReturns, AttemptFailed
  <2> QED
    BY <2>1, <2>2, <2>4
<1>8. CASE JsonHandleDestroyInterfaceRequest
  BY <1>3, <1>5, <1>8 DEF JsonHandleDestroyInterfaceRequest, NextRequest
<1>9. CASE JsonHandleStopSessionRequest
  BY <1>3, <1>5, <1>9 DEF JsonHandleStopSessionRequest, NextRequest
<1>10. CASE Ends \/ RecvFails \/ TransactionEnds
  BY <1>10 DEF Ends, RecvFails, TransactionEnds
<1>11. ASSUME NEW u \in User PROVE ~Accept(u)
  BY DEF Accept
<1>12. ~StartAgain
  BY DEF StartAgain
<1> QED
  BY <1>2, <1>4, <1>5, <1>6, <1>7, <1>8, <1>9, <1>10, <1>11, <1>12, Zenon
  DEF Next, JsonServer, JsonHandleShutdownRequest, AddInterfaceCrashes, Commit, RollBack, Killed

\* While allocd serves a client, every step brings it nearer to the next one, for
\* lists of requests and numbers of attempts of any length: the lexicographic order of
\* the requests left and of the attempts left decreases.  This is the safety half of
\* ServesNextClient.
THEOREM EveryStepAdvances == Spec => ServingAdvances
<1>1. TypeOK /\ [Next]_vars => [Advances]_vars
  BY StepAdvances
<1> QED
  BY InitTypeOK, NextTypeOK, <1>1, PTL DEF Spec, ServingAdvances

=============================================================================
