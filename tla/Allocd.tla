------------------------------- MODULE Allocd -------------------------------
(***************************************************************************)
(* allocd (host/libs/allocd): the daemon that owns the network interfaces  *)
(* of the virtual devices.  A client sends one list of requests, handled   *)
(* as a transaction: if every request succeeds the interfaces it created   *)
(* become a session of the client, otherwise they are released.  The       *)
(* daemon serves one client at a time; the interfaces live in the kernel   *)
(* and outlive it.                                                         *)
(*                                                                         *)
(* The users have names with the same first four letters (vsoc-01,         *)
(* vsoc-02), so that their interfaces compete for the same names.          *)
(***************************************************************************)
EXTENDS Naturals, Sequences

CONSTANTS
  User,             \* the uids of the clients
  NoUser,           \* no client is connected
  kMaxIfaceNameId,  \* how many numbers an interface name can have (63)
  CommandsFail,     \* the ip and iptables commands may fail without a reason
  MaxRequest,       \* bound: requests of a transaction
  MaxResource,      \* bound: resource ids given out when a transaction begins
  MaxSession,       \* bound: session ids given out when a transaction begins
  MaxStart          \* bound: times allocd is started again

ASSUME UserAssumption == NoUser \notin User
ASSUME NameIdAssumption == kMaxIfaceNameId \in Nat \ {0}
ASSUME CommandsAssumption == CommandsFail \in BOOLEAN
ASSUME BoundsAssumption ==
  MaxRequest \in Nat /\ MaxResource \in Nat /\ MaxSession \in Nat /\ MaxStart \in Nat

\* One interface type of each kind: etap is handled as wtap, ebr as wbr, and an
\* unknown type as wifiap.
IfaceType == {"mtap", "wtap", "wbr", "wifiap"}

\* A name is the sequence of the names of the attempts so far: the stream that
\* JsonHandleCreateInterfaceRequest builds it in is not emptied between them.
IfaceName == Seq([ty : IfaceType, num : Nat])
StaticResource == [id : Nat, name : IfaceName]
Session == [id : Nat, uid : User]

VARIABLES
  pc,                  \* accept, recv, silent, txn, create, down
  client_uid,          \* uid of the connected client
  requests,            \* requests of the transaction handled so far
  transaction_failed,
  iface_type,          \* of the interface being created
  ss,                  \* the stream its name is built in
  attempts,            \* the attempts left
  global_resource_id_,
  session_id_,
  active_interfaces_,  \* the names in use
  pending_add_,        \* the resources of the transaction
  managed_sessions_,
  managed_resources_,  \* pairs of a session id and a resource of the session
  links,               \* the names of the interfaces the kernel has
  leaked,              \* interfaces that could not be deleted, or a crash left
  disowned,            \* names a destroy request took from the wrong resource
  starts               \* times allocd was started again

txnVars == <<client_uid, requests, transaction_failed>>
createVars == <<iface_type, ss, attempts>>
idVars == <<global_resource_id_, session_id_>>
sessionVars == <<managed_sessions_, managed_resources_>>
nameVars == <<active_interfaces_, disowned>>
vars == <<pc, txnVars, createVars, idVars, nameVars, pending_add_, sessionVars,
          links, leaked, starts>>

Names(R) == {r.name : r \in R}
Owned == {m[2] : m \in managed_resources_}
ResourcesOf(s) == {m[2] : m \in {p \in managed_resources_ : p[1] = s}}

Init ==
  /\ pc = "accept" /\ client_uid = NoUser /\ requests = 0 /\ transaction_failed = FALSE
  /\ iface_type = "mtap" /\ ss = <<>> /\ attempts = 0
  /\ global_resource_id_ = 0 /\ session_id_ = 0
  /\ active_interfaces_ = {} /\ disowned = {} /\ pending_add_ = {}
  /\ managed_sessions_ = {} /\ managed_resources_ = {}
  /\ links = {} /\ leaked = {} /\ starts = 0

-----------------------------------------------------------------------------
(* The ip commands                                                         *)

\* What "ip link delete" of each interface in S may delete: an interface that
\* is there, unless the command fails.
Deletes(S) == IF CommandsFail THEN SUBSET (S \cap links) ELSE {S \cap links}

\* "ip tuntap add": a name that is not taken and fits in IFNAMSIZ, which "cvd-",
\* the type, the letters of the user and one number fill up.
CanAdd(n) == Len(n) = 1 /\ n \notin links

\* The interfaces after AcquireResource() of an interface n reported success.
\* CreateMobileIface ignores that the gateway could not be added: it destroys
\* the interface, and succeeds.
Acquired(n, ty) ==
  IF CommandsFail /\ ty = "mtap" THEN {links, links \cup {n}} ELSE {links \cup {n}}

\* The interfaces after it reported failure and AddInterface has released the
\* resource, whether or not it was this call that had created the interface.
NotAcquired(n) ==
  {links \ {n}} \cup
  (IF ~CommandsFail THEN {} ELSE {links} \cup (IF CanAdd(n) THEN {links \cup {n}} ELSE {}))

-----------------------------------------------------------------------------
(* The connection                                                          *)

\* The client sends its request, or nothing (silent).
Accept(u) ==
  /\ pc = "accept"
  /\ global_resource_id_ <= MaxResource /\ session_id_ <= MaxSession
  /\ pc' \in {"recv", "silent"} /\ client_uid' = u
  /\ UNCHANGED <<requests, transaction_failed, createVars, idVars, nameVars,
                 pending_add_, sessionVars, links, leaked, starts>>

\* Mutant: the socket has no receive timeout.
RecvFailsWithoutTimeout ==
  /\ pc = "recv"
  /\ pc' = "accept" /\ client_uid' = NoUser
  /\ UNCHANGED <<requests, transaction_failed, createVars, idVars, nameVars,
                 pending_add_, sessionVars, links, leaked, starts>>

\* The request does not come within the 10 seconds of the receive timeout, or it
\* is not valid: the connection is closed.
RecvFails ==
  /\ pc \in {"recv", "silent"}
  /\ pc' = "accept" /\ client_uid' = NoUser
  /\ UNCHANGED <<requests, transaction_failed, createVars, idVars, nameVars,
                 pending_add_, sessionVars, links, leaked, starts>>

RecvRequest ==
  /\ pc = "recv"
  /\ pc' = "txn" /\ requests' = 0 /\ transaction_failed' = FALSE
  /\ UNCHANGED <<client_uid, createVars, idVars, nameVars, pending_add_,
                 sessionVars, links, leaked, starts>>

\* The next request of the transaction: no request is handled after one failed.
NextRequest ==
  /\ pc = "txn" /\ ~transaction_failed /\ requests < MaxRequest
  /\ requests' = requests + 1
  /\ UNCHANGED client_uid

\* The request fails, and has changed nothing.
Refused ==
  /\ transaction_failed' = TRUE
  /\ UNCHANGED <<pc, createVars, idVars, nameVars, pending_add_, sessionVars,
                 links, leaked, starts>>

\* The process ends, and with it everything it kept in memory.
Ends ==
  /\ pc' = "down" /\ client_uid' = NoUser /\ requests' = 0 /\ transaction_failed' = FALSE
  /\ iface_type' = "mtap" /\ ss' = <<>> /\ attempts' = 0
  /\ global_resource_id_' = 0 /\ session_id_' = 0
  /\ active_interfaces_' = {} /\ disowned' = {} /\ pending_add_' = {}
  /\ managed_sessions_' = {} /\ managed_resources_' = {}
  /\ UNCHANGED starts

-----------------------------------------------------------------------------
(* The requests                                                            *)

JsonHandleIdRequest ==
  /\ NextRequest
  /\ session_id_' = session_id_ + 1
  /\ UNCHANGED <<pc, transaction_failed, createVars, global_resource_id_, nameVars,
                 pending_add_, sessionVars, links, leaked, starts>>

\* A request to shut down must be the only one of its list.  JsonServer returns
\* and the destructor of the manager releases the resources of every session.
JsonHandleShutdownRequest ==
  \/ NextRequest /\ Refused
  \/ /\ pc = "txn" /\ requests = 0 /\ MaxRequest > 0
     /\ \E d \in Deletes(Names(Owned)) :
          /\ links' = links \ d
          /\ leaked' = (leaked \cup Names(Owned)) \cap links'
     /\ Ends

\* The uid or the type is missing, the uid is not the one of the socket or has
\* no user name; or the attempts begin.
JsonHandleCreateInterfaceRequest(ty) ==
  /\ NextRequest
  /\ \/ Refused
     \/ /\ pc' = "create" /\ iface_type' = ty /\ ss' = <<>> /\ attempts' = kMaxIfaceNameId
        /\ UNCHANGED <<transaction_failed, idVars, nameVars, pending_add_,
                       sessionVars, links, leaked, starts>>

\* The name of this attempt.
IfaceNameOfAttempt ==
  Append(ss, [ty |-> iface_type, num |-> global_resource_id_ % kMaxIfaceNameId])

\* The loop ends.
CreateReturns == pc' = "txn" /\ iface_type' = "mtap" /\ ss' = <<>> /\ attempts' = 0

\* AddInterface returned false: the next attempt, or the request fails.
AttemptFailed ==
  \/ /\ attempts > 1
     /\ attempts' = attempts - 1 /\ ss' = IfaceNameOfAttempt
     /\ UNCHANGED <<pc, iface_type, transaction_failed>>
  \/ /\ attempts <= 1
     /\ CreateReturns /\ transaction_failed' = TRUE

AddInterfaceInUse ==
  /\ pc = "create" /\ IfaceNameOfAttempt \in active_interfaces_
  /\ AttemptFailed
  /\ UNCHANGED <<links, leaked, active_interfaces_, pending_add_>>

\* A bridge is created but is no resource of the transaction.
AddInterfaceSucceeds ==
  LET n == IfaceNameOfAttempt IN
  /\ pc = "create" /\ n \notin active_interfaces_
  /\ iface_type # "wifiap" /\ CanAdd(n)
  /\ links' \in Acquired(n, iface_type)
  /\ active_interfaces_' = active_interfaces_ \cup {n}
  /\ pending_add_' = IF iface_type = "wbr" THEN pending_add_
                     ELSE pending_add_ \cup {[id |-> global_resource_id_, name |-> n]}
  /\ CreateReturns
  /\ UNCHANGED <<transaction_failed, leaked>>

AddInterfaceFails ==
  LET n == IfaceNameOfAttempt IN
  /\ pc = "create" /\ n \notin active_interfaces_
  /\ iface_type \in {"mtap", "wtap"} /\ (CommandsFail \/ ~CanAdd(n))
  /\ links' \in NotAcquired(n)
  /\ leaked' = (leaked \cup {n}) \cap links'
  /\ AttemptFailed
  /\ UNCHANGED <<active_interfaces_, pending_add_>>

\* One iteration of the loop of JsonHandleCreateInterfaceRequest.
CreateAttempt ==
  /\ AddInterfaceInUse \/ AddInterfaceSucceeds \/ AddInterfaceFails
  /\ global_resource_id_' = global_resource_id_ + 1
  /\ UNCHANGED <<client_uid, requests, session_id_, disowned, sessionVars, starts>>

\* A bridge that could not be created, and a type that is not supported, are not
\* in pending_add_: AddInterface dereferences end() and the daemon crashes.
AddInterfaceCrashes ==
  LET n == IfaceNameOfAttempt IN
  /\ pc = "create" /\ n \notin active_interfaces_
  /\ \/ iface_type = "wifiap" /\ links' = links
     \/ iface_type = "wbr" /\ (CommandsFail \/ ~CanAdd(n))
        /\ links' \in {links} \cup (IF CanAdd(n) THEN {links \cup {n}} ELSE {})
  /\ leaked' = links'
  /\ Ends

\* The request names an interface, a session and a resource id, and nothing says
\* that they belong together.  The name is given up before the session is looked
\* up.
JsonHandleDestroyInterfaceRequest ==
  /\ NextRequest
  /\ \/ Refused
     \/ \E n \in active_interfaces_ :
          /\ active_interfaces_' = active_interfaces_ \ {n}
          /\ \/ \E m \in managed_resources_ : \E d \in Deletes({m[2].name}) :
                /\ links' = links \ d
                /\ IF d # {}
                   THEN /\ managed_resources_' = managed_resources_ \ {m}
                        /\ UNCHANGED transaction_failed
                   ELSE transaction_failed' = TRUE /\ UNCHANGED managed_resources_
                /\ disowned' = IF d = {n} THEN disowned ELSE disowned \cup {n}
             \/ /\ transaction_failed' = TRUE   \* no such session or resource
                /\ disowned' = disowned \cup {n}
                /\ UNCHANGED <<links, managed_resources_>>
          /\ leaked' = leaked \cap links'
          /\ UNCHANGED <<pc, createVars, idVars, pending_add_, managed_sessions_, starts>>

\* No session has a name in its own active_interfaces_, so that no name is
\* released.
JsonHandleStopSessionRequest ==
  /\ NextRequest
  /\ \/ Refused
     \/ \E s \in managed_sessions_ : \E d \in Deletes(Names(ResourcesOf(s.id))) :
          /\ s.uid = client_uid
          /\ links' = links \ d
          /\ leaked' = (leaked \cup Names(ResourcesOf(s.id))) \cap links'
          /\ managed_resources_' = {m \in managed_resources_ : m[1] # s.id}
          /\ IF /\ d = Names(ResourcesOf(s.id))
                /\ \A r, q \in ResourcesOf(s.id) : r.name = q.name => r = q
             THEN managed_sessions_' = managed_sessions_ \ {s} /\ UNCHANGED transaction_failed
             ELSE transaction_failed' = TRUE /\ UNCHANGED managed_sessions_
          /\ UNCHANGED <<pc, createVars, idVars, nameVars, pending_add_, starts>>

-----------------------------------------------------------------------------
(* The end of the transaction                                              *)

TransactionEnds ==
  /\ pc = "txn" /\ requests > 0
  /\ pc' = "accept" /\ client_uid' = NoUser /\ requests' = 0 /\ transaction_failed' = FALSE
  /\ UNCHANGED <<createVars, global_resource_id_, nameVars, starts>>

\* Mutants: a commit that keeps the client, a transaction that fails and is not
\* rolled back, one whose names are given up while its resources are kept.
CommitKeepsClient ==
  /\ pc = "txn" /\ requests > 0 /\ ~transaction_failed
  /\ pc' = "accept" /\ requests' = 0
  /\ session_id_' = session_id_ + 1
  /\ managed_sessions_' = managed_sessions_ \cup {[id |-> session_id_, uid |-> client_uid]}
  /\ managed_resources_' = managed_resources_ \cup ({session_id_} \X pending_add_)
  /\ pending_add_' = {}
  /\ UNCHANGED <<client_uid, transaction_failed, createVars, global_resource_id_,
                 nameVars, links, leaked, starts>>

RollBackReleasesNothing ==
  /\ transaction_failed /\ TransactionEnds
  /\ UNCHANGED <<session_id_, pending_add_, sessionVars, links, leaked>>

RollBackFreesNames ==
  /\ pc = "txn" /\ requests > 0 /\ transaction_failed
  /\ pc' = "accept" /\ client_uid' = NoUser /\ requests' = 0 /\ transaction_failed' = FALSE
  /\ active_interfaces_' = active_interfaces_ \ Names(pending_add_)
  /\ links' = links \ Names(pending_add_) /\ leaked' = leaked \ Names(pending_add_)
  /\ UNCHANGED <<createVars, idVars, disowned, pending_add_, sessionVars, starts>>

Commit ==
  /\ ~transaction_failed /\ TransactionEnds
  /\ session_id_' = session_id_ + 1
  /\ managed_sessions_' = managed_sessions_ \cup {[id |-> session_id_, uid |-> client_uid]}
  /\ managed_resources_' = managed_resources_ \cup ({session_id_} \X pending_add_)
  /\ pending_add_' = {}
  /\ UNCHANGED <<links, leaked>>

\* The resources are released, and stay in pending_add_.
RollBack ==
  /\ transaction_failed /\ TransactionEnds
  /\ \E d \in Deletes(Names(pending_add_)) :
       /\ links' = links \ d
       /\ leaked' = (leaked \cup Names(pending_add_)) \cap links'
  /\ UNCHANGED <<session_id_, pending_add_, sessionVars>>

-----------------------------------------------------------------------------
\* allocd is killed, and started again.
Killed ==
  /\ pc # "down"
  /\ Ends
  /\ leaked' = links
  /\ UNCHANGED links

StartAgain ==
  /\ pc = "down" /\ starts < MaxStart
  /\ pc' = "accept" /\ starts' = starts + 1
  /\ UNCHANGED <<txnVars, createVars, idVars, nameVars, pending_add_, sessionVars,
                 links, leaked>>

\* A step of the daemon that does not wait for a new client.
JsonServer ==
  \/ RecvFails
  \/ RecvRequest
  \/ JsonHandleIdRequest
  \/ JsonHandleShutdownRequest
  \/ \E ty \in IfaceType : JsonHandleCreateInterfaceRequest(ty)
  \/ CreateAttempt
  \/ AddInterfaceCrashes
  \/ JsonHandleDestroyInterfaceRequest
  \/ JsonHandleStopSessionRequest
  \/ Commit
  \/ RollBack

Next ==
  \/ \E u \in User : Accept(u)
  \/ JsonServer
  \/ Killed
  \/ StartAgain

Spec == Init /\ [][Next]_vars

\* The daemon does not stop running by itself.
FairSpec == Spec /\ WF_vars(JsonServer)

-----------------------------------------------------------------------------
Serving == pc \in {"recv", "silent", "txn", "create"}

\* The state has its types; the daemon has a client exactly while it serves one,
\* and an attempt left exactly while it creates an interface.
TypeOK ==
  /\ pc \in {"accept", "recv", "silent", "txn", "create", "down"}
  /\ client_uid \in User \cup {NoUser}
  /\ Serving <=> client_uid # NoUser
  /\ pc = "create" <=> attempts > 0
  /\ pc = "create" => requests > 0
  /\ requests \in Nat /\ transaction_failed \in BOOLEAN
  /\ iface_type \in IfaceType /\ ss \in IfaceName /\ attempts \in Nat
  /\ global_resource_id_ \in Nat /\ session_id_ \in Nat
  /\ active_interfaces_ \subseteq IfaceName /\ disowned \subseteq IfaceName
  /\ pending_add_ \subseteq StaticResource
  /\ managed_sessions_ \subseteq Session
  /\ managed_resources_ \subseteq Nat \X StaticResource
  /\ links \subseteq IfaceName /\ leaked \subseteq links
  /\ starts \in Nat

\* The taps of the kernel: the links whose last type is one of a tap.
Taps == {n \in links : n[Len(n)].ty \in {"mtap", "wtap"}}

\* When no client is being served, every tap interface of the kernel is one that
\* a session owns, or one that a command failed to delete or a dead daemon left
\* behind: a transaction that fails releases what it acquired, whichever of its
\* requests fails, and a request that releases something forgets nothing that is
\* still there.
NoOrphanTap ==
  pc \in {"accept", "down"} => Taps \subseteq Names(Owned) \cup leaked

\* Two resources of the daemon never have the same interface name, so that the
\* release of one does not delete the interface of the other, unless a destroy
\* request has given up the name of a resource that it did not release.
OneOwnerPerName ==
  \A r, q \in Owned \cup pending_add_ :
    r.name = q.name => r = q \/ r.name \in disowned

\* A daemon that serves a client gets back to the others, or ends: neither a
\* client that sends nothing nor names that are all taken hold it forever.
ServesNextClient ==
  Serving ~> pc \in {"accept", "down"}

\* The names of the interfaces of a session that was stopped can be used again:
\* "release the names from the global list for reuse in future requests".
StopReleasesNames ==
  [][\A s \in managed_sessions_ :
       s \notin managed_sessions_' /\ pc' # "down"
         => Names(ResourcesOf(s.id)) \cap active_interfaces_' = {}]_vars

=============================================================================
