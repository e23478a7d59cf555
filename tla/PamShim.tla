------------------------------- MODULE PamShim -------------------------------
(****************************************************************************)
(* The PAM hooks of pam_shim.so: pam_start records the handles opened for   *)
(* the chrome-remote-desktop service in a fixed array, pam_acct_mgmt answers *)
(* PAM_SUCCESS itself for a recorded handle and asks libpam for any other,   *)
(* and pam_end forgets the handle before libpam frees it. libpam may give a  *)
(* freed address to a later handle, of whatever service.                     *)
(****************************************************************************)
EXTENDS Naturals

CONSTANTS
    Handles,   \* addresses libpam gives its handles
    Cap,       \* length of crd_handles, 16 in the code
    NoHandle   \* an array entry never written

ASSUME ShimAssumption == Cap \in Nat /\ NoHandle \notin Handles

VARIABLES
    service,      \* service of each open handle, "closed" for the others
    crd_handles,  \* the array
    n_handles,    \* how many of its entries count
    answer,       \* the last pam_acct_mgmt: its handle and who answered
    turnedAway    \* history: open CRD handles that found the array full

vars == <<service, crd_handles, n_handles, answer, turnedAway>>

Tracked(h) == \E i \in 0..(n_handles - 1) : crd_handles[i] = h

----------------------------------------------------------------------------
\* Faulty form of Records: the test of the array's length is off by one.
RecordsOnePastEnd(srv) == srv = "crd" /\ n_handles < Cap + 1

\* Faulty form of Records: the service is not compared.
RecordsEverything(srv) == n_handles < Cap

\* Whether pam_start records a handle it opened for service srv.
Records(srv) == srv = "crd" /\ n_handles < Cap

\* libpam opens a handle at a free address.
pam_start(h, srv) ==
    /\ service[h] = "closed"
    /\ service' = [service EXCEPT ![h] = srv]
    /\ IF Records(srv)
         THEN /\ crd_handles' = [crd_handles EXCEPT ![n_handles] = h]
              /\ n_handles' = n_handles + 1
         ELSE UNCHANGED <<crd_handles, n_handles>>
    /\ turnedAway' = IF srv = "crd" /\ ~Records(srv) THEN turnedAway \cup {h}
                                                     ELSE turnedAway
    /\ UNCHANGED answer

pam_acct_mgmt(h) ==
    /\ service[h] # "closed"
    /\ answer' = [handle |-> h, by |-> IF Tracked(h) THEN "shim" ELSE "libpam"]
    /\ UNCHANGED <<service, crd_handles, n_handles, turnedAway>>

\* Faulty form of Forget: the last entry is dropped whichever h is.
ForgetLast(i) == crd_handles

\* Entry i is overwritten by the last one that counts.
Forget(i) == [crd_handles EXCEPT ![i] = crd_handles[n_handles - 1]]

FirstIndex(h) ==
    CHOOSE i \in 0..(n_handles - 1) :
        crd_handles[i] = h /\ \A j \in 0..(i - 1) : crd_handles[j] # h

pam_end(h) ==
    /\ service[h] # "closed"
    /\ IF Tracked(h)
         THEN /\ crd_handles' = Forget(FirstIndex(h))
              /\ n_handles' = n_handles - 1
         ELSE UNCHANGED <<crd_handles, n_handles>>
    /\ service' = [service EXCEPT ![h] = "closed"]
    /\ turnedAway' = turnedAway \ {h}
    /\ answer' = [answer EXCEPT !.handle = IF @ = h THEN NoHandle ELSE @]

----------------------------------------------------------------------------
Init ==
    /\ service = [h \in Handles |-> "closed"]
    /\ crd_handles = [i \in 0..(Cap - 1) |-> NoHandle]
    /\ n_handles = 0
    /\ answer = [handle |-> NoHandle, by |-> "libpam"]
    /\ turnedAway = {}

Next == \E h \in Handles :
    \/ \E srv \in {"crd", "other"} : pam_start(h, srv)
    \/ pam_acct_mgmt(h)
    \/ pam_end(h)

Spec == Init /\ [][Next]_vars

----------------------------------------------------------------------------
\* The type invariant; n_handles never passes the end of the array.
TypeOK ==
    /\ service \in [Handles -> {"closed", "crd", "other"}]
    /\ crd_handles \in [0..(Cap - 1) -> Handles \cup {NoHandle}]
    /\ n_handles \in 0..Cap
    /\ answer \in [handle : Handles \cup {NoHandle}, by : {"shim", "libpam"}]
    /\ turnedAway \subseteq Handles

\* The array holds no stale or doubled entry, so an address libpam reuses for
\* another service is never mistaken for a CRD handle.
TrackedAreOpenCRD ==
    /\ \A i \in 0..(n_handles - 1) : service[crd_handles[i]] = "crd"
    /\ \A i, j \in 0..(n_handles - 1) :
           crd_handles[i] = crd_handles[j] => i = j

\* No CRD handle is lost: what pam_end moves around, every open one is still
\* found, except those that came when the array was full.
OpenCRDAreTracked ==
    \A h \in Handles : service[h] = "crd" => Tracked(h) \/ h \in turnedAway

\* pam_acct_mgmt is answered in user space only for an open CRD handle.
AnswersOwnHandles ==
    answer.by = "shim" /\ answer.handle # NoHandle
        => service[answer.handle] = "crd"

\* Not kept by the code when the array is full, the shim's promise: it answers
\* pam_acct_mgmt for every CRD handle.
AnswersEveryCRDHandle ==
    answer.by = "libpam" /\ answer.handle # NoHandle
        => service[answer.handle] # "crd"
=============================================================================
