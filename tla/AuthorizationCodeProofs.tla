----------------------- MODULE AuthorizationCodeProofs -----------------------
(***************************************************************************)
(* Theorems about AuthorizationCode, for any clients, codes and token      *)
(* requests and any lifetimes of codes, locks and consumed records.        *)
(*                                                                         *)
(* What protects a code is split between the record, the lock and the      *)
(* stage of each request; Protected joins the three.                       *)
(***************************************************************************)
EXTENDS AuthorizationCode, TLAPS

\* The stages of a request that has read a usable record of its code.
Reading == {"USABLE", "CONSUMED", "REDEEMED", "TOKENS", "REJECTED"}

\* What is stored or was read of a code is what it was issued with.
Traced ==
    /\ \A k \in Codes :
         records[k] # NoRecord =>
           /\ issued[k].client # NoClient
           /\ records[k].client = issued[k].client
    /\ \A r \in RequestIds :
         requests[r].stage \in Reading =>
           /\ requests[r].code \in Codes
           /\ issued[requests[r].code].client # NoClient
           /\ requests[r].issuedTo = issued[requests[r].code].client

\* A request that can still redeem a code holds its lock, nobody has redeemed
\* that code, and once the record is written back it cannot be read as usable.
Protected ==
    /\ \A k \in Codes : Redeemers(k) # {} => ~Usable(k)
    /\ \A r \in RequestIds :
         requests[r].stage \in {"USABLE", "CONSUMED"} /\ HeldBy(requests[r].code, r)
         => Redeemers(requests[r].code) = {}
    /\ \A r \in RequestIds : requests[r].stage = "CONSUMED" => ~Usable(requests[r].code)

\* The code of a request that has been presented is one of Codes.
Presented == \A r \in RequestIds : requests[r].stage # "IDLE" => requests[r].code \in Codes

Safe == Presented /\ Traced /\ Protected /\ RedeemedOnce /\ TokensToOwner

\* The inductive invariant.
CodeInv == TypeOK /\ Safe

-----------------------------------------------------------------------------
(* How one step writes.                                                    *)

\* Changing the stage of a request changes nothing else of it, and no other.
LEMMA GotoWrites ==
    ASSUME TypeOK, NEW r \in RequestIds, NEW stage \in Stages, Goto(r, stage)
    PROVE  /\ requests' \in [RequestIds -> Request]
           /\ requests'[r].stage = stage
           /\ requests'[r].code = requests[r].code
           /\ requests'[r].client = requests[r].client
           /\ requests'[r].issuedTo = requests[r].issuedTo
           /\ \A q \in RequestIds \ {r} : requests'[q] = requests[q]
<1>1. requests \in [RequestIds -> Request]
  BY DEF TypeOK
<1>2. requests' = [requests EXCEPT ![r].stage = stage]
  BY DEF Goto
<1>3. [requests[r] EXCEPT !.stage = stage] \in Request
  BY <1>1 DEF Request
<1> QED
  BY <1>1, <1>2, <1>3 DEF Request

\* A code whose requests keep their stages, or change them without redeeming
\* it, keeps its redeemers.
LEMMA SameRedeemers ==
    ASSUME NEW k \in Codes,
           \A q \in RequestIds :
             (/\ requests'[q].code = k
              /\ requests'[q].stage \in {"REDEEMED", "TOKENS", "REJECTED"})
             <=> (/\ requests[q].code = k
                  /\ requests[q].stage \in {"REDEEMED", "TOKENS", "REJECTED"})
    PROVE  Redeemers(k)' = Redeemers(k)
BY DEF Redeemers

-----------------------------------------------------------------------------
(* Types.                                                                  *)

\* The record written back is a record.
LEMMA ConsumedRecordTyped ==
    ASSUME TypeOK, NEW k \in Codes, NEW client \in Clients
    PROVE  ConsumedRecord(k, client) \in Record
<1>1. issued[k].expiresAt \in Nat /\ clock + ConsumedTTL \in Nat
  BY TimesAssumption DEF TypeOK
<1> QED
  BY <1>1 DEF ConsumedRecord, Record

\* A new code.
LEMMA IssueTyped ==
    ASSUME TypeOK, NEW k \in Codes, NEW client \in Clients, Issue(k, client)
    PROVE  TypeOK'
<1>0. PICK createdAt \in 0 .. clock :
        /\ records' = [records EXCEPT ![k] =
             [client |-> client, expiresAt |-> createdAt + CodeTTL, consumed |-> FALSE,
              lapsesAt |-> clock + CodeTTL]]
        /\ issued' = [issued EXCEPT ![k] =
             [client |-> client, expiresAt |-> createdAt + CodeTTL]]
  BY DEF Issue
<1>1. clock + CodeTTL \in Nat /\ createdAt + CodeTTL \in Nat
  BY TimesAssumption DEF TypeOK
<1> DEFINE record == [client |-> client, expiresAt |-> createdAt + CodeTTL, consumed |-> FALSE,
                      lapsesAt |-> clock + CodeTTL]
           origin == [client |-> client, expiresAt |-> createdAt + CodeTTL]
<1>2. record \in Record
  BY <1>1 DEF Record
<1>3. origin \in [client : Clients \cup {NoClient}, expiresAt : Nat]
  BY <1>1
<1>4. records' = [records EXCEPT ![k] = record] /\ issued' = [issued EXCEPT ![k] = origin]
  BY <1>0
<1> HIDE DEF record, origin
<1>5. records' \in [Codes -> Record \cup {NoRecord}]
  BY <1>2, <1>4 DEF TypeOK
<1>6. issued' \in [Codes -> [client : Clients \cup {NoClient}, expiresAt : Nat]]
  BY <1>3, <1>4 DEF TypeOK
<1> QED
  BY <1>5, <1>6 DEF TypeOK, Issue

\* A presented code.
LEMMA PresentTyped ==
    ASSUME TypeOK, NEW r \in RequestIds, NEW k \in Codes, NEW client \in Clients,
           Present(r, k, client)
    PROVE  TypeOK'
<1> DEFINE request == [stage |-> "LOCKING", code |-> k, client |-> client, issuedTo |-> NoClient]
<1>1. request \in Request
  BY DEF Request, Stages
<1>2. requests' = [requests EXCEPT ![r] = request]
  BY DEF Present
<1> HIDE DEF request
<1> QED
  BY <1>1, <1>2 DEF TypeOK, Present

\* A lock taken.
LEMMA AcquireTyped ==
    ASSUME TypeOK, Presented, NEW r \in RequestIds, Acquire(r)
    PROVE  TypeOK'
<1> DEFINE k == requests[r].code
           lock == [holder |-> r, lapsesAt |-> clock + LockTTL]
<1>1. k \in Codes
  BY DEF Presented, Acquire
<1>2. clock + LockTTL \in Nat
  BY TimesAssumption DEF TypeOK
<1>3. lock \in Lock
  BY <1>2 DEF Lock
<1>4. locks' = [locks EXCEPT ![k] = lock]
  BY DEF Acquire
<1>5. requests' \in [RequestIds -> Request]
  BY GotoWrites DEF Acquire, Stages
<1> HIDE DEF k, lock
<1> QED
  BY <1>1, <1>3, <1>4, <1>5 DEF TypeOK, Acquire

\* What Get reads.
LEMMA GetTyped ==
    ASSUME TypeOK, Presented, NEW r \in RequestIds, Get(r)
    PROVE  TypeOK'
<1> DEFINE k == requests[r].code
<1>1. k \in Codes
  BY DEF Presented, Get
<1>2. CASE Goto(r, "REFUSED") \/ Goto(r, "USELESS")
  <2>1. requests' \in [RequestIds -> Request]
    BY <1>2, GotoWrites DEF Stages
  <2> QED
    BY <2>1 DEF TypeOK, Get
<1>3. CASE /\ Usable(k)
           /\ requests' = [requests EXCEPT ![r].stage = "USABLE",
                                           ![r].issuedTo = records[k].client]
  <2>1. records[k] \in Record
    BY <1>1, <1>3 DEF Usable, Stored, TypeOK
  <2>2. records[k].client \in Clients
    BY <2>1 DEF Record
  <2>3. [requests[r] EXCEPT !.stage = "USABLE", !.issuedTo = records[k].client] \in Request
    BY <2>2 DEF TypeOK, Request, Stages
  <2>4. requests' \in [RequestIds -> Request]
    BY <1>3, <2>3 DEF TypeOK
  <2> QED
    BY <2>4 DEF TypeOK, Get
<1> QED
  BY <1>2, <1>3 DEF Get

\* A deletion, and the write-back of a record that was read as usable.
LEMMA WriteTyped ==
    ASSUME TypeOK, Presented, Traced, NEW r \in RequestIds, Delete(r) \/ Put(r)
    PROVE  TypeOK'
<1> DEFINE k == requests[r].code
<1>1. k \in Codes
  BY DEF Presented, Delete, Put
<1>2. requests' \in [RequestIds -> Request]
  BY GotoWrites DEF Delete, Put, Stages
<1>3. CASE Delete(r)
  BY <1>1, <1>2, <1>3 DEF Delete, TypeOK
<1>4. CASE Put(r)
  <2>1. requests[r].issuedTo \in Clients
    BY <1>4, <1>1 DEF Put, Traced, Reading, TypeOK
  <2>2. ConsumedRecord(k, requests[r].issuedTo) \in Record
    BY <1>1, <2>1, ConsumedRecordTyped
  <2> QED
    BY <1>1, <1>2, <1>4, <2>2 DEF Put, TypeOK
<1> QED
  BY <1>3, <1>4

\* A lock given back, or not.
LEMMA ReleaseTyped ==
    ASSUME TypeOK, Presented, NEW r \in RequestIds, Release(r)
    PROVE  TypeOK'
<1> DEFINE k == requests[r].code
<1>1. k \in Codes
  BY DEF Presented, Release
<1>2. Released(r, IF requests[r].stage = "CONSUMED" THEN "REDEEMED" ELSE "DENIED") \in Stages
  BY DEF Released, Stages
<1>3. requests' \in [RequestIds -> Request]
  BY <1>2, GotoWrites DEF Release
<1>4. [locks[k] EXCEPT !.holder = NoRequest] \in Lock
  BY <1>1 DEF TypeOK, Lock
<1>5. locks' \in [Codes -> Lock]
  BY <1>1, <1>4 DEF Release, TypeOK
<1> QED
  BY <1>3, <1>5 DEF TypeOK, Release

-----------------------------------------------------------------------------
(* The invariant, one kind of step at a time.                              *)

\* A step that moves one request out of harm's way: it does not start to read
\* or to redeem, no record becomes usable, no one gets hold of a lock with a
\* record already read.
LEMMA QuietStep ==
    ASSUME TypeOK, TypeOK', Safe, NEW r \in RequestIds,
           NEW stage \in Stages \ {"IDLE", "USABLE", "CONSUMED"}, Goto(r, stage),
           requests[r].stage # "IDLE",
           stage \in Reading => requests[r].stage \in Reading,
           stage \in {"REDEEMED", "TOKENS", "REJECTED"} <=>
             requests[r].stage \in {"REDEEMED", "TOKENS", "REJECTED"},
           stage = "TOKENS" =>
             /\ requests[r].stage = "REDEEMED"
             /\ requests[r].client = requests[r].issuedTo,
           UNCHANGED <<clock, issued>>,
           \A k \in Codes : records'[k] = records[k] \/ records'[k] = NoRecord,
           \A q \in RequestIds \ {r} :
             requests[q].code \in Codes /\ HeldBy(requests[q].code, q)'
             => HeldBy(requests[q].code, q)
    PROVE  Safe'
<1> USE DEF Safe
<1>1. /\ requests'[r].stage = stage
      /\ requests'[r].code = requests[r].code
      /\ requests'[r].client = requests[r].client
      /\ requests'[r].issuedTo = requests[r].issuedTo
      /\ \A q \in RequestIds \ {r} : requests'[q] = requests[q]
  BY GotoWrites
<1>2. \A q \in RequestIds : requests'[q].code = requests[q].code
  BY <1>1
<1>3. \A k \in Codes : Usable(k)' => Usable(k)
  BY DEF Usable, Stored
<1>4. \A k : Redeemers(k)' = Redeemers(k)
  BY <1>1 DEF Redeemers
<1>5. Presented'
  BY <1>1 DEF Presented
<1>6. Traced'
  BY <1>1 DEF Traced
<1>7. Protected'
  <2>1. \A k \in Codes : (Redeemers(k) # {} => ~Usable(k))'
    BY <1>3, <1>4 DEF Protected
  <2>2. ASSUME NEW q \in RequestIds,
               (requests[q].stage \in {"USABLE", "CONSUMED"} /\ HeldBy(requests[q].code, q))'
        PROVE  (Redeemers(requests[q].code) = {})'
    <3>1. q # r
      BY <1>1, <2>2
    <3>2. requests[q].stage \in {"USABLE", "CONSUMED"} /\ HeldBy(requests[q].code, q)
      BY <1>1, <2>2, <3>1 DEF Presented
    <3>3. Redeemers(requests[q].code) = {}
      BY <3>2 DEF Protected
    <3> QED
      BY <1>2, <1>4, <3>3
  <2>3. ASSUME NEW q \in RequestIds, (requests[q].stage = "CONSUMED")'
        PROVE  (~Usable(requests[q].code))'
    <3>1. q # r
      BY <1>1, <2>3
    <3>2. requests[q].stage = "CONSUMED" /\ requests[q].code \in Codes
      BY <1>1, <2>3, <3>1 DEF Presented
    <3>3. ~Usable(requests[q].code)
      BY <3>2 DEF Protected
    <3> QED
      BY <1>1, <3>1, <3>2, <3>3 DEF Usable, Stored
  <2> QED
    BY <2>1, <2>2, <2>3 DEF Protected
<1>8. RedeemedOnce'
  BY <1>4 DEF RedeemedOnce
<1>9. TokensToOwner'
  BY <1>1 DEF TokensToOwner, Traced, Reading
<1> QED
  BY <1>5, <1>6, <1>7, <1>8, <1>9

\* A record read as usable has no redeemers yet.
LEMMA GetUsableStep ==
    ASSUME TypeOK, Safe, NEW r \in RequestIds, Get(r), Usable(requests[r].code)
    PROVE  Safe'
<1> USE DEF Safe
<1>0. PICK k \in Codes : k = requests[r].code
  BY DEF Presented, Get
<1>1. /\ requests'[r].stage = "USABLE"
      /\ requests'[r].code = k
      /\ requests'[r].client = requests[r].client
      /\ requests'[r].issuedTo = records[k].client
      /\ \A q \in RequestIds \ {r} : requests'[q] = requests[q]
  <2>1. requests' = [requests EXCEPT ![r].stage = "USABLE", ![r].issuedTo = records[k].client]
    BY <1>0 DEF Get, Usable
  <2> QED
    BY <1>0, <2>1 DEF TypeOK, Request
<1>2. Usable(k) /\ records[k] # NoRecord
  BY <1>0 DEF Usable, Stored
<1>3. \A j : Redeemers(j)' = Redeemers(j)
  BY <1>1 DEF Redeemers, Get
<1>4. Redeemers(k) = {}
  BY <1>2 DEF Protected
<1>5. Presented'
  BY <1>1 DEF Presented
<1>6. clock' = clock /\ records' = records /\ locks' = locks /\ issued' = issued
  BY DEF Get
<1>7. Traced'
  <2>1. issued[k].client # NoClient /\ records[k].client = issued[k].client
    BY <1>2 DEF Traced
  <2>2. ASSUME NEW q \in RequestIds, requests'[q].stage \in Reading
        PROVE  /\ requests'[q].code \in Codes
               /\ issued[requests'[q].code].client # NoClient
               /\ requests'[q].issuedTo = issued[requests'[q].code].client
    <3>1. CASE q = r
      BY <1>1, <2>1, <3>1
    <3>2. CASE q # r
      <4>1. requests'[q] = requests[q]
        BY <1>1, <3>2
      <4>2. requests[q].stage \in Reading
        BY <2>2, <4>1
      <4>3. /\ requests[q].code \in Codes
            /\ issued[requests[q].code].client # NoClient
            /\ requests[q].issuedTo = issued[requests[q].code].client
        BY <4>2 DEF Traced
      <4> QED
        BY <4>1, <4>3
    <3> QED
      BY <3>1, <3>2
  <2> QED
    BY <1>6, <2>2 DEF Traced
<1>8. Protected'
  <2>1. \A j \in Codes : Redeemers(j)' # {} => ~Usable(j)'
    BY <1>6, <1>3 DEF Protected, Usable, Stored
  <2>2. ASSUME NEW q \in RequestIds, requests'[q].stage \in {"USABLE", "CONSUMED"},
               HeldBy(requests[q].code, q)'
        PROVE  Redeemers(requests[q].code)' = {}
    <3>1. CASE q = r
      BY <1>0, <1>1, <1>3, <1>4, <3>1
    <3>2. CASE q # r
      <4>1. requests'[q] = requests[q] /\ HeldBy(requests[q].code, q)
        BY <1>1, <1>6, <2>2, <3>2 DEF HeldBy, Held
      <4> QED
        BY <1>3, <2>2, <4>1 DEF Protected
    <3> QED
      BY <3>1, <3>2
  <2>3. ASSUME NEW q \in RequestIds, requests'[q].stage = "CONSUMED"
        PROVE  ~Usable(requests[q].code)'
    BY <1>1, <1>6, <2>3 DEF Protected, Usable, Stored
  <2> QED
    BY <2>1, <2>2, <2>3 DEF Protected
<1>9. RedeemedOnce' /\ TokensToOwner'
  BY <1>1, <1>3, <1>6 DEF RedeemedOnce, TokensToOwner
<1> QED
  BY <1>5, <1>7, <1>8, <1>9

\* Whoever's turn it was to write, a record written back is not usable.
LEMMA PutStep ==
    ASSUME TypeOK, Safe, NEW r \in RequestIds, Put(r)
    PROVE  Safe'
<1> USE DEF Safe
<1>0. PICK k \in Codes : k = requests[r].code
  BY DEF Presented, Put
<1>1. /\ requests'[r].stage = "CONSUMED"
      /\ requests'[r].code = k
      /\ requests'[r].client = requests[r].client
      /\ requests'[r].issuedTo = requests[r].issuedTo
      /\ \A q \in RequestIds \ {r} : requests'[q] = requests[q]
  BY <1>0, GotoWrites DEF Put, Stages
<1>3. /\ records'[k] = ConsumedRecord(k, requests[r].issuedTo)
      /\ \A j \in Codes \ {k} : records'[j] = records[j]
  BY <1>0 DEF Put, TypeOK
<1>4. records'[k].consumed /\ records'[k].client = requests[r].issuedTo
  BY <1>3 DEF ConsumedRecord
<1>5. \A j : Redeemers(j)' = Redeemers(j)
  BY <1>1 DEF Redeemers, Put
<1>6. ~Usable(k)' /\ \A j \in Codes : Usable(j)' => Usable(j)
  BY <1>0, <1>3, <1>4 DEF Usable, Stored, Put
<1>7. UNCHANGED <<clock, locks, issued>>
  BY DEF Put
<1>8. Presented' /\ Traced'
  BY <1>0, <1>1, <1>3, <1>4, <1>7 DEF Presented, Traced, Reading, Put
<1>9. Protected'
  <2>1. \A j \in Codes : (Redeemers(j) # {} => ~Usable(j))'
    BY <1>5, <1>6 DEF Protected
  <2>2. ASSUME NEW q \in RequestIds, requests'[q].stage \in {"USABLE", "CONSUMED"},
               HeldBy(requests[q].code, q)'
        PROVE  Redeemers(requests[q].code)' = {}
    <3>1. requests'[q].code = requests[q].code /\ requests[q].stage \in {"USABLE", "CONSUMED"}
      BY <1>0, <1>1, <2>2 DEF Put
    <3>2. HeldBy(requests[q].code, q)
      BY <1>7, <2>2, <3>1 DEF HeldBy, Held
    <3> QED
      BY <1>5, <3>1, <3>2 DEF Protected
  <2>3. ASSUME NEW q \in RequestIds, (requests[q].stage = "CONSUMED")'
        PROVE  (~Usable(requests[q].code))'
    <3>1. CASE q = r
      BY <3>1, <1>1, <1>6 DEF Usable, Stored
    <3>2. CASE q # r
      <4>1. requests[q].stage = "CONSUMED" /\ requests'[q] = requests[q]
        BY <1>1, <2>3, <3>2
      <4>2. requests[q].code \in Codes /\ ~Usable(requests[q].code)
        BY <4>1 DEF Protected, Presented
      <4> QED
        BY <1>6, <4>1, <4>2 DEF Usable, Stored
    <3> QED
      BY <3>1, <3>2
  <2> QED
    BY <2>1, <2>2, <2>3 DEF Protected
<1>10. RedeemedOnce' /\ TokensToOwner'
  BY <1>1, <1>5, <1>7 DEF RedeemedOnce, TokensToOwner
<1> QED
  BY <1>8, <1>9, <1>10

\* The release that succeeds is the first to redeem the code.
LEMMA RedeemStep ==
    ASSUME TypeOK, Safe, NEW r \in RequestIds, Release(r),
           requests[r].stage = "CONSUMED", HeldBy(requests[r].code, r)
    PROVE  Safe'
<1> USE DEF Safe
<1>0. PICK k \in Codes : k = requests[r].code
  BY DEF Presented
<1>1. Goto(r, "REDEEMED")
  BY DEF Release, Released
<1>2. /\ requests'[r].stage = "REDEEMED"
      /\ requests'[r].code = k
      /\ requests'[r].client = requests[r].client
      /\ requests'[r].issuedTo = requests[r].issuedTo
      /\ \A q \in RequestIds \ {r} : requests'[q] = requests[q]
  BY <1>0, <1>1, GotoWrites DEF Stages
<1>3. UNCHANGED <<clock, records, issued>>
  BY DEF Release
<1>4. Redeemers(k) = {} /\ ~Usable(k)
  BY <1>0 DEF Protected
<1>5. Redeemers(k)' = {r}
  BY <1>2, <1>4 DEF Redeemers
<1>6. \A j \in Codes \ {k} : Redeemers(j)' = Redeemers(j)
  BY <1>2 DEF Redeemers
<1>7. /\ locks'[k].holder = NoRequest
      /\ \A j \in Codes \ {k} : locks'[j] = locks[j]
  BY <1>0 DEF Release, TypeOK, Lock
<1>8. Presented' /\ Traced'
  BY <1>0, <1>2, <1>3 DEF Presented, Traced, Reading
<1>9. Protected'
  <2>1. \A j \in Codes : (Redeemers(j) # {} => ~Usable(j))'
    BY <1>3, <1>4, <1>6 DEF Protected, Usable, Stored
  <2>2. ASSUME NEW q \in RequestIds,
               (requests[q].stage \in {"USABLE", "CONSUMED"} /\ HeldBy(requests[q].code, q))'
        PROVE  (Redeemers(requests[q].code) = {})'
    <3>1. q # r /\ requests'[q] = requests[q]
      BY <1>2, <2>2
    <3>2. requests[q].code \in Codes
      BY <2>2, <3>1 DEF Presented
    <3>3. requests[q].code # k
      BY <1>7, <2>2, <3>1 DEF HeldBy, Held
    <3>4. HeldBy(requests[q].code, q)
      BY <1>3, <1>7, <2>2, <3>1, <3>2, <3>3 DEF HeldBy, Held
    <3>5. Redeemers(requests[q].code) = {}
      BY <2>2, <3>1, <3>4 DEF Protected
    <3> QED
      BY <1>6, <3>1, <3>2, <3>3, <3>5
  <2>3. \A q \in RequestIds : (requests[q].stage = "CONSUMED" => ~Usable(requests[q].code))'
    BY <1>2, <1>3 DEF Protected, Usable, Stored
  <2> QED
    BY <2>1, <2>2, <2>3 DEF Protected
<1>10. RedeemedOnce'
  BY <1>4, <1>5, <1>6 DEF RedeemedOnce
<1>11. TokensToOwner'
  BY <1>2, <1>3 DEF TokensToOwner
<1> QED
  BY <1>8, <1>9, <1>10, <1>11

\* A new code has no readers and no redeemers.
LEMMA IssueStep ==
    ASSUME TypeOK, Safe, NEW k \in Codes, NEW client \in Clients, Issue(k, client)
    PROVE  Safe'
<1> USE DEF Safe
<1>1. UNCHANGED <<clock, locks, requests>>
  BY DEF Issue
<1>2. /\ issued[k].client = NoClient
      /\ records'[k].client = client
      /\ issued'[k].client = client
      /\ \A j \in Codes \ {k} : records'[j] = records[j] /\ issued'[j] = issued[j]
  BY DEF Issue, TypeOK
<1>3. client # NoClient
  BY AbsenceAssumption
<1>4. \A r \in RequestIds : requests[r].stage \in Reading => requests[r].code # k
  BY <1>2 DEF Traced
<1>5. \A j : Redeemers(j)' = Redeemers(j)
  BY <1>1 DEF Redeemers
<1>6. Redeemers(k) = {}
  BY <1>4 DEF Redeemers, Reading
<1>7. Presented'
  BY <1>1 DEF Presented
<1>8. Traced'
  BY <1>1, <1>2, <1>3, <1>4 DEF Traced
<1>9. Protected'
  <2>1. \A j \in Codes : Redeemers(j)' # {} => ~Usable(j)'
    BY <1>1, <1>2, <1>5, <1>6 DEF Protected, Usable, Stored
  <2>2. \A r \in RequestIds :
          requests'[r].stage \in {"USABLE", "CONSUMED"} /\ HeldBy(requests[r].code, r)'
          => Redeemers(requests[r].code)' = {}
    BY <1>1, <1>5 DEF Protected, HeldBy, Held
  <2>3. \A r \in RequestIds : requests'[r].stage = "CONSUMED" => ~Usable(requests[r].code)'
    <3> SUFFICES ASSUME NEW r \in RequestIds, requests[r].stage = "CONSUMED"
                 PROVE  ~Usable(requests[r].code)'
      BY <1>1
    <3>1. requests[r].code \in Codes \ {k}
      BY <1>4 DEF Presented, Reading
    <3>2. ~Usable(requests[r].code)
      BY DEF Protected
    <3> QED
      BY <1>1, <1>2, <3>1, <3>2 DEF Usable, Stored
  <2> QED
    BY <1>1, <2>1, <2>2, <2>3 DEF Protected
<1>10. RedeemedOnce' /\ TokensToOwner'
  <2>1. RedeemedOnce'
    BY <1>5 DEF RedeemedOnce
  <2>2. TokensToOwner'
    <3> SUFFICES ASSUME NEW r \in RequestIds, requests[r].stage = "TOKENS"
                 PROVE  requests[r].client = issued'[requests[r].code].client
      BY <1>1 DEF TokensToOwner
    <3>1. requests[r].code \in Codes \ {k}
      BY <1>4 DEF Presented, Reading
    <3> QED
      BY <1>2, <3>1 DEF TokensToOwner
  <2> QED
    BY <2>1, <2>2
<1> QED
  BY <1>7, <1>8, <1>9, <1>10

\* A request that is only presented has read nothing.
LEMMA PresentStep ==
    ASSUME TypeOK, Safe, NEW r \in RequestIds, NEW k \in Codes, NEW client \in Clients,
           Present(r, k, client)
    PROVE  Safe'
<1> USE DEF Safe
<1>1. /\ requests'[r].stage = "LOCKING"
      /\ requests'[r].code = k
      /\ \A q \in RequestIds \ {r} : requests'[q] = requests[q]
  BY DEF Present, TypeOK
<1>2. UNCHANGED <<clock, records, locks, issued>> /\ requests[r].stage = "IDLE"
  BY DEF Present
<1>3. \A j : Redeemers(j)' = Redeemers(j)
  BY <1>1, <1>2 DEF Redeemers
<1>4. Presented' /\ Traced'
  BY <1>1, <1>2 DEF Presented, Traced, Reading
<1>5. Protected'
  <2>1. \A j \in Codes : Redeemers(j)' # {} => ~Usable(j)'
    BY <1>2, <1>3 DEF Protected, Usable, Stored
  <2>2. ASSUME NEW q \in RequestIds, requests'[q].stage \in {"USABLE", "CONSUMED"},
               HeldBy(requests[q].code, q)'
        PROVE  Redeemers(requests[q].code)' = {}
    <3>1. q # r /\ requests'[q] = requests[q]
      BY <1>1, <2>2
    <3>2. HeldBy(requests[q].code, q)
      BY <1>2, <2>2, <3>1 DEF HeldBy, Held
    <3> QED
      BY <1>3, <2>2, <3>1, <3>2 DEF Protected
  <2>3. \A q \in RequestIds : requests'[q].stage = "CONSUMED" => ~Usable(requests[q].code)'
    BY <1>1, <1>2 DEF Protected, Usable, Stored
  <2> QED
    BY <2>1, <2>2, <2>3 DEF Protected
<1>6. RedeemedOnce' /\ TokensToOwner'
  BY <1>1, <1>2, <1>3 DEF RedeemedOnce, TokensToOwner
<1> QED
  BY <1>4, <1>5, <1>6

\* Time takes locks and records away and gives none.
LEMMA TickStep ==
    ASSUME TypeOK, Safe, Tick
    PROVE  Safe'
<1> USE DEF Safe
<1>1. UNCHANGED <<records, locks, requests, issued>> /\ clock' = clock + 1
  BY DEF Tick
<1>2. \A k : Redeemers(k)' = Redeemers(k)
  BY <1>1 DEF Redeemers
<1>3. \A k \in Codes : Usable(k)' => Usable(k)
  BY <1>1 DEF Usable, Stored, TypeOK, Record
<1>4. \A r \in RequestIds : requests[r].stage \in {"USABLE", "CONSUMED"} =>
        (HeldBy(requests[r].code, r)' => HeldBy(requests[r].code, r))
  BY <1>1 DEF HeldBy, Held, TypeOK, Lock, Presented
<1>5. Presented' /\ Traced'
  BY <1>1 DEF Presented, Traced
<1>6. Protected'
  BY <1>1, <1>2, <1>3, <1>4 DEF Protected, Presented
<1>7. RedeemedOnce' /\ TokensToOwner'
  BY <1>1, <1>2 DEF RedeemedOnce, TokensToOwner
<1> QED
  BY <1>5, <1>6, <1>7

\* Every step of a request keeps the invariant.
LEMMA RequestStep ==
    ASSUME CodeInv, NEW r \in RequestIds, Handler(r) \/ Crash(r)
    PROVE  CodeInv'
<1> USE DEF CodeInv
<1>0. Presented /\ Traced
  BY DEF Safe
<1>1. CASE Acquire(r)
  <2>1. TypeOK'
    BY <1>0, <1>1, AcquireTyped
  <2>2. Goto(r, "LOCKED") /\ requests[r].stage = "LOCKING" /\ UNCHANGED <<clock, records, issued>>
    BY <1>1 DEF Acquire
  <2>3. \A q \in RequestIds \ {r} : HeldBy(requests[q].code, q)' => HeldBy(requests[q].code, q)
    <3> SUFFICES ASSUME NEW q \in RequestIds \ {r}, HeldBy(requests[q].code, q)'
                 PROVE  HeldBy(requests[q].code, q)
      OBVIOUS
    <3>1. requests'[q].code = requests[q].code
      BY <2>2, GotoWrites DEF Stages
    <3>2. PICK k \in Codes : k = requests[r].code
      BY <1>0, <2>2 DEF Presented
    <3>3. locks' = [locks EXCEPT ![k] = [holder |-> r, lapsesAt |-> clock + LockTTL]]
      BY <1>1, <3>2 DEF Acquire
    <3>4. requests[q].code # k
      BY <3>1, <3>3 DEF HeldBy, Held, TypeOK
    <3> QED
      BY <2>2, <3>1, <3>3, <3>4 DEF HeldBy, Held
  <2> QED
    BY <2>1, <2>2, <2>3, QuietStep DEF Stages, Reading
<1>2. CASE GiveUp(r)
  <2>1. /\ Goto(r, "FAILED") /\ requests[r].stage = "LOCKING"
        /\ UNCHANGED <<clock, records, locks, issued>>
    BY <1>2 DEF GiveUp
  <2>2. /\ requests' \in [RequestIds -> Request]
        /\ \A q \in RequestIds : requests'[q].code = requests[q].code
    BY <2>1, GotoWrites DEF Stages
  <2>3. TypeOK'
    BY <2>1, <2>2 DEF TypeOK
  <2>4. \A q \in RequestIds \ {r} : HeldBy(requests[q].code, q)' => HeldBy(requests[q].code, q)
    BY <2>1, <2>2 DEF HeldBy, Held
  <2> QED
    BY <2>1, <2>3, <2>4, QuietStep DEF Stages, Reading
<1>3. CASE Get(r)
  <2>1. /\ requests[r].stage = "LOCKED"
        /\ UNCHANGED <<clock, records, locks, issued>>
    BY <1>3 DEF Get
  <2>2. TypeOK'
    BY <1>0, <1>3, GetTyped
  <2>3. ASSUME NEW stage \in {"REFUSED", "USELESS"}, Goto(r, stage)
        PROVE  Safe'
    <3>1. \A q \in RequestIds : requests'[q].code = requests[q].code
      BY <2>3, GotoWrites DEF Stages
    <3>2. \A q \in RequestIds \ {r} : HeldBy(requests[q].code, q)' => HeldBy(requests[q].code, q)
      BY <2>1, <3>1 DEF HeldBy, Held
    <3> QED
      BY <2>1, <2>2, <2>3, <3>2, QuietStep DEF Stages, Reading
  <2>4. CASE Usable(requests[r].code)
    BY <1>3, <2>2, <2>4, GetUsableStep
  <2> QED
    BY <1>3, <2>2, <2>3, <2>4 DEF Get
<1>4. CASE Delete(r)
  <2>1. /\ Goto(r, "REFUSED") /\ requests[r].stage \in {"USELESS", "USABLE"}
        /\ UNCHANGED <<clock, locks, issued>>
    BY <1>4 DEF Delete
  <2>2. TypeOK'
    BY <1>0, <1>4, WriteTyped
  <2>3. \A k \in Codes : records'[k] = records[k] \/ records'[k] = NoRecord
    BY <1>4 DEF Delete, TypeOK
  <2>4. \A q \in RequestIds : requests'[q].code = requests[q].code
    BY <2>1, GotoWrites DEF Stages
  <2>5. \A q \in RequestIds \ {r} : HeldBy(requests[q].code, q)' => HeldBy(requests[q].code, q)
    BY <2>1, <2>4 DEF HeldBy, Held
  <2> QED
    BY <2>1, <2>2, <2>3, <2>5, QuietStep DEF Stages, Reading
<1>5. CASE Put(r)
  BY <1>0, <1>5, WriteTyped, PutStep
<1>6. CASE Release(r)
  <2>1. TypeOK'
    BY <1>0, <1>6, ReleaseTyped
  <2>2. CASE requests[r].stage = "CONSUMED" /\ HeldBy(requests[r].code, r)
    BY <1>6, <2>1, <2>2, RedeemStep
  <2>3. CASE ~(requests[r].stage = "CONSUMED" /\ HeldBy(requests[r].code, r))
    <3>1. PICK stage \in {"FAILED", "DENIED"} : Goto(r, stage)
      BY <1>6, <2>3 DEF Release, Released
    <3>2. /\ requests[r].stage \in {"CONSUMED", "REFUSED"}
          /\ UNCHANGED <<clock, records, issued>>
      BY <1>6 DEF Release
    <3>3. \A q \in RequestIds : requests'[q].code = requests[q].code
      BY <3>1, GotoWrites DEF Stages
    <3>4. \A k \in Codes : locks'[k] = locks[k] \/ locks'[k].holder = NoRequest
      BY <1>6 DEF Release, TypeOK, Lock
    <3>5. ASSUME NEW q \in RequestIds \ {r}, requests[q].code \in Codes,
                 HeldBy(requests[q].code, q)'
          PROVE  HeldBy(requests[q].code, q)
      BY <3>2, <3>3, <3>4, <3>5 DEF HeldBy, Held
    <3> QED
      BY <2>1, <3>1, <3>2, <3>5, QuietStep DEF Stages, Reading
  <2> QED
    BY <2>2, <2>3, <2>1
<1>7. CASE Exchange(r) \/ Crash(r)
  <2>1. /\ requests[r].stage # "IDLE"
        /\ UNCHANGED <<clock, records, locks, issued>>
    BY <1>7 DEF Exchange, Crash
  <2>2. PICK stage \in {"TOKENS", "REJECTED", "CRASHED"} :
          /\ Goto(r, stage)
          /\ stage = "TOKENS" => /\ requests[r].stage = "REDEEMED"
                                 /\ requests[r].issuedTo = requests[r].client
          /\ stage = "CRASHED" =>
               requests[r].stage \notin {"REDEEMED", "TOKENS", "REJECTED"}
          /\ stage = "REJECTED" => requests[r].stage = "REDEEMED"
    BY <1>7 DEF Exchange, Crash
  <2>3. /\ requests' \in [RequestIds -> Request]
        /\ \A q \in RequestIds : requests'[q].code = requests[q].code
    BY <2>2, GotoWrites DEF Stages
  <2>4. TypeOK'
    BY <2>1, <2>3 DEF TypeOK
  <2>5. \A q \in RequestIds \ {r} : HeldBy(requests[q].code, q)' => HeldBy(requests[q].code, q)
    BY <2>1, <2>3 DEF HeldBy, Held
  <2> QED
    BY <2>1, <2>2, <2>4, <2>5, QuietStep DEF Stages, Reading
<1> QED
  BY <1>1, <1>2, <1>3, <1>4, <1>5, <1>6, <1>7 DEF Handler

\* Every step keeps the invariant.
LEMMA CodeInvStep == CodeInv /\ [Next]_vars => CodeInv'
<1> SUFFICES ASSUME CodeInv, [Next]_vars PROVE CodeInv'
  OBVIOUS
<1>1. CASE \E r \in RequestIds : Handler(r) \/ Crash(r)
  BY <1>1, RequestStep
<1>2. ASSUME NEW k \in Codes, NEW client \in Clients, Issue(k, client)
      PROVE  CodeInv'
  BY <1>2, IssueTyped, IssueStep DEF CodeInv
<1>3. ASSUME NEW k \in Codes, NEW client \in Clients, NEW r \in RequestIds,
             Present(r, k, client)
      PROVE  CodeInv'
  BY <1>3, PresentTyped, PresentStep DEF CodeInv
<1>4. CASE Tick
  <2>1. TypeOK'
    BY <1>4 DEF CodeInv, TypeOK, Tick
  <2> QED
    BY <1>4, <2>1, TickStep DEF CodeInv
<1>5. CASE UNCHANGED vars
  BY <1>5 DEF vars, CodeInv, TypeOK, Safe, Presented, Traced, Protected, RedeemedOnce,
     TokensToOwner, Redeemers, Usable, Stored, HeldBy, Held
<1> QED
  BY <1>1, <1>2, <1>3, <1>4, <1>5 DEF Next

\* Before the first code.
LEMMA CodeInvInit == Init => CodeInv
<1> SUFFICES ASSUME Init PROVE CodeInv
  OBVIOUS
<1>1. TypeOK
  BY DEF Init, TypeOK, Lock, Request, Stages
<1>2. Safe
  BY DEF Init, Safe, Presented, Traced, Protected, RedeemedOnce, TokensToOwner, Redeemers,
     Reading
<1> QED
  BY <1>1, <1>2 DEF CodeInv

-----------------------------------------------------------------------------
(* Theorems.                                                               *)

\* The invariant holds in every state of every behavior.
THEOREM CodeInvHolds == Spec => []CodeInv
BY CodeInvInit, CodeInvStep, PTL DEF Spec

\* Every reachable state is well formed.
THEOREM TypeCorrect == Spec => []TypeOK
<1>1. CodeInv => TypeOK
  BY DEF CodeInv
<1> QED
  BY <1>1, CodeInvHolds, PTL

\* A code is redeemed at most once: RedisOIDCStore reads and writes back its
\* record under a lock that may lapse in between, for whatever lifetimes.
THEOREM RedeemedOnceHolds == Spec => []RedeemedOnce
<1>1. CodeInv => RedeemedOnce
  BY DEF CodeInv, Safe
<1> QED
  BY <1>1, CodeInvHolds, PTL

\* POST /token issues tokens only to the client its code was issued to.
THEOREM TokensToOwnerHolds == Spec => []TokensToOwner
<1>1. CodeInv => TokensToOwner
  BY DEF CodeInv, Safe
<1> QED
  BY <1>1, CodeInvHolds, PTL

\* No step makes a code usable that was issued and is not usable any more: a
\* stalled write-back finds the record it was read from lapsed, deleted or
\* consumed by another request, and stores a consumed one.
THEOREM NeverUsableAgainHolds == Spec => NeverUsableAgain
<1> DEFINE Gone(k) == issued[k].client # NoClient /\ ~Usable(k)
<1>1. ASSUME CodeInv, [Next]_vars, NEW k \in Codes, Gone(k)
      PROVE  ~Usable(k)'
  <2>1. TypeOK /\ Presented
    BY <1>1 DEF CodeInv, Safe
  <2>2. ASSUME UNCHANGED <<clock, records>>
        PROVE  ~Usable(k)'
    BY <1>1, <2>2 DEF Usable, Stored
  <2>3. ASSUME NEW r \in RequestIds, Handler(r) \/ Crash(r)
        PROVE  ~Usable(k)'
    <3>1. CASE Delete(r)
      BY <1>1, <2>1, <3>1 DEF Delete, Usable, Stored, TypeOK
    <3>2. CASE Put(r)
      <4>1. \/ records'[k] = records[k]
            \/ records'[k] = ConsumedRecord(requests[r].code, requests[r].issuedTo)
        BY <2>1, <3>2 DEF Put, TypeOK
      <4> QED
        BY <1>1, <3>2, <4>1 DEF Put, ConsumedRecord, Usable, Stored
    <3>3. CASE Acquire(r) \/ GiveUp(r) \/ Get(r) \/ Release(r) \/ Exchange(r) \/ Crash(r)
      BY <2>2, <3>3 DEF Acquire, GiveUp, Get, Release, Exchange, Crash
    <3> QED
      BY <2>3, <3>1, <3>2, <3>3 DEF Handler
  <2>4. ASSUME NEW j \in Codes, NEW client \in Clients, Issue(j, client)
        PROVE  ~Usable(k)'
    <3>1. j # k
      BY <1>1, <2>4 DEF Issue
    <3> QED
      BY <1>1, <2>1, <2>4, <3>1 DEF Issue, Usable, Stored, TypeOK
  <2>5. ASSUME NEW r \in RequestIds, NEW j \in Codes, NEW client \in Clients,
               Present(r, j, client)
        PROVE  ~Usable(k)'
    BY <2>2, <2>5 DEF Present
  <2>6. CASE Tick
    BY <1>1, <2>1, <2>6 DEF Tick, Usable, Stored, TypeOK, Record
  <2>7. CASE UNCHANGED vars
    BY <2>2, <2>7 DEF vars
  <2> QED
    BY <1>1, <2>3, <2>4, <2>5, <2>6, <2>7 DEF Next
<1>2. CodeInv /\ [Next]_vars
      => [\A k \in Codes : issued[k].client # NoClient /\ ~Usable(k) => ~Usable(k)']_vars
  BY <1>1
<1> QED
  BY <1>2, CodeInvHolds, PTL DEF Spec, NeverUsableAgain

-----------------------------------------------------------------------------
(* How late a code may be redeemed.                                        *)

\* Records keep the deadline of their code, no lock lasts longer than from now,
\* and the lock under which a record was read as usable was taken in time.
Timely ==
    /\ \A k \in Codes : records[k] # NoRecord => records[k].expiresAt = issued[k].expiresAt
    /\ \A k \in Codes : locks[k].lapsesAt <= clock + LockTTL
    /\ \A r \in RequestIds :
         requests[r].stage \in {"USABLE", "CONSUMED"} /\ HeldBy(requests[r].code, r) =>
           locks[requests[r].code].lapsesAt < issued[requests[r].code].expiresAt + LockTTL

\* Deadlines and lapses are numbers.
LEMMA Numbers ==
    ASSUME TypeOK
    PROVE  /\ clock \in Nat /\ LockTTL \in Nat
           /\ \A k \in Codes : locks[k].lapsesAt \in Nat /\ issued[k].expiresAt \in Nat
<1>1. \A k \in Codes : locks[k] \in Lock
  BY DEF TypeOK
<1> QED
  BY <1>1, TimesAssumption DEF TypeOK, Lock

\* A step that neither reads nor locks, and writes no record of another
\* deadline.
LEMMA TimelyKept ==
    ASSUME TypeOK, TypeOK', Presented, Timely, clock' \in {clock, clock + 1},
           \A k \in Codes : issued[k].client # NoClient => issued'[k] = issued[k],
           \A k \in Codes :
             \/ records'[k] \in {records[k], NoRecord} /\ issued'[k] = issued[k]
             \/ records'[k].expiresAt = issued'[k].expiresAt,
           \A k \in Codes : locks'[k].lapsesAt = locks[k].lapsesAt,
           \A k \in Codes, r \in RequestIds :
             locks'[k].holder = r => locks[k].holder = r,
           \A r \in RequestIds :
             requests'[r].stage \in {"USABLE", "CONSUMED"} =>
               /\ requests[r].stage \in {"USABLE", "CONSUMED"}
               /\ requests'[r].code = requests[r].code
               /\ issued[requests[r].code].client # NoClient
    PROVE  Timely'
<1>1. \A k \in Codes : (records[k] # NoRecord => records[k].expiresAt = issued[k].expiresAt)'
  BY DEF Timely
<1>2. \A k \in Codes : locks'[k].lapsesAt <= clock' + LockTTL
  BY Numbers DEF Timely
<1>3. ASSUME NEW r \in RequestIds, requests'[r].stage \in {"USABLE", "CONSUMED"},
             HeldBy(requests[r].code, r)'
      PROVE  locks'[requests'[r].code].lapsesAt < issued'[requests'[r].code].expiresAt + LockTTL
  <2>1. PICK k \in Codes : k = requests[r].code
    BY <1>3 DEF Presented
  <2>2. /\ requests'[r].code = k /\ requests[r].stage \in {"USABLE", "CONSUMED"}
        /\ issued'[k] = issued[k] /\ locks'[k].lapsesAt = locks[k].lapsesAt
    BY <1>3, <2>1
  <2>3. Held(k)' /\ locks'[k].holder = r
    BY <1>3, <2>2 DEF HeldBy
  <2>4. locks[k].holder = r
    BY <2>3
  <2>5. clock < locks[k].lapsesAt
    BY <2>2, <2>3, Numbers DEF Held
  <2>6. HeldBy(k, r)
    BY <2>4, <2>5, AbsenceAssumption DEF HeldBy, Held
  <2>7. locks[k].lapsesAt < issued[k].expiresAt + LockTTL
    BY <2>1, <2>2, <2>6 DEF Timely
  <2> QED
    BY <2>2, <2>7
<1> QED
  BY <1>1, <1>2, <1>3 DEF Timely

\* A lock taken lasts no longer than from now, and its taker has read nothing.
LEMMA TimelyAcquire ==
    ASSUME CodeInv, CodeInv', Timely, NEW r \in RequestIds, Acquire(r)
    PROVE  Timely'
<1>0. TypeOK /\ TypeOK' /\ Presented
  BY DEF CodeInv, Safe
<1>1. PICK k \in Codes : k = requests[r].code
  BY <1>0 DEF Acquire, Presented
<1>2. /\ requests'[r].stage = "LOCKED"
      /\ \A q \in RequestIds : requests'[q].code = requests[q].code
      /\ \A q \in RequestIds \ {r} : requests'[q] = requests[q]
  BY <1>0, GotoWrites DEF Acquire, Stages
<1>3. UNCHANGED <<clock, records, issued>>
  BY DEF Acquire
<1>4. locks' = [locks EXCEPT ![k] = [holder |-> r, lapsesAt |-> clock + LockTTL]]
  BY <1>1 DEF Acquire
<1>5. /\ locks'[k].holder = r /\ locks'[k].lapsesAt = clock + LockTTL
      /\ \A j \in Codes \ {k} : locks'[j] = locks[j]
  BY <1>0, <1>4 DEF TypeOK
<1>6. \A j \in Codes : locks'[j].lapsesAt <= clock' + LockTTL
  BY <1>0, <1>3, <1>5, Numbers DEF Timely
<1>7. ASSUME NEW q \in RequestIds, requests'[q].stage \in {"USABLE", "CONSUMED"},
             HeldBy(requests[q].code, q)'
      PROVE  locks'[requests'[q].code].lapsesAt < issued'[requests'[q].code].expiresAt + LockTTL
  <2>1. q # r
    BY <1>2, <1>7
  <2>2. requests'[q] = requests[q] /\ requests[q].code \in Codes
    BY <1>0, <1>2, <1>7, <2>1 DEF Presented
  <2>3. requests[q].code # k
    BY <1>5, <1>7, <2>1, <2>2 DEF HeldBy
  <2>4. locks'[requests[q].code] = locks[requests[q].code]
    BY <1>5, <2>2, <2>3
  <2>5. HeldBy(requests[q].code, q)
    BY <1>3, <1>7, <2>2, <2>4 DEF HeldBy, Held
  <2>6. locks[requests[q].code].lapsesAt < issued[requests[q].code].expiresAt + LockTTL
    BY <1>7, <2>2, <2>5 DEF Timely
  <2> QED
    BY <1>3, <2>2, <2>4, <2>6
<1> QED
  BY <1>3, <1>6, <1>7 DEF Timely

\* A record read as usable is read before its deadline, under a lock that ends
\* a lock's lifetime later at most.
LEMMA TimelyGet ==
    ASSUME CodeInv, CodeInv', Timely, NEW r \in RequestIds, Get(r)
    PROVE  Timely'
<1>0. TypeOK /\ TypeOK' /\ Presented
  BY DEF CodeInv, Safe
<1>1. PICK k \in Codes : k = requests[r].code
  BY <1>0 DEF Get, Presented
<1>2. UNCHANGED <<clock, records, locks, issued>>
  BY DEF Get
<1>3. /\ \A q \in RequestIds \ {r} : requests'[q] = requests[q]
      /\ requests'[r].code = k
      /\ requests'[r].stage \in {"USABLE", "CONSUMED"} => Usable(k)
  <2>1. CASE Goto(r, "REFUSED") \/ Goto(r, "USELESS")
    BY <1>0, <1>1, <2>1, GotoWrites DEF Stages
  <2>2. CASE /\ Usable(k)
             /\ requests' = [requests EXCEPT ![r].stage = "USABLE",
                                             ![r].issuedTo = records[k].client]
    BY <1>0, <1>1, <2>2 DEF TypeOK, Request
  <2> QED
    BY <1>1, <2>1, <2>2 DEF Get
<1>4. Usable(k) => locks[k].lapsesAt < issued[k].expiresAt + LockTTL
  <2> SUFFICES ASSUME Usable(k) PROVE locks[k].lapsesAt < issued[k].expiresAt + LockTTL
    OBVIOUS
  <2>1. clock < records[k].expiresAt /\ records[k] # NoRecord
    BY DEF Usable, Stored
  <2>2. clock < issued[k].expiresAt
    BY <2>1 DEF Timely
  <2>3. locks[k].lapsesAt <= clock + LockTTL
    BY DEF Timely
  <2> QED
    BY <1>0, <2>2, <2>3, Numbers
<1>5. ASSUME NEW q \in RequestIds, requests'[q].stage \in {"USABLE", "CONSUMED"},
             HeldBy(requests[q].code, q)'
      PROVE  locks'[requests'[q].code].lapsesAt < issued'[requests'[q].code].expiresAt + LockTTL
  <2>1. CASE q = r
    BY <1>2, <1>3, <1>4, <1>5, <2>1
  <2>2. CASE q # r
    BY <1>2, <1>3, <1>5, <2>2 DEF Timely, HeldBy, Held
  <2> QED
    BY <2>1, <2>2
<1> QED
  BY <1>2, <1>5 DEF Timely

\* Every step keeps it.
LEMMA TimelyStep ==
    ASSUME CodeInv, CodeInv', Timely, [Next]_vars
    PROVE  Timely'
<1>0. TypeOK /\ TypeOK' /\ Presented /\ Traced
  BY DEF CodeInv, Safe
<1>1. \A r \in RequestIds : requests[r].stage \in {"USABLE", "CONSUMED"} =>
        issued[requests[r].code].client # NoClient
  BY <1>0 DEF Traced, Reading
<1>2. clock \in Nat
  BY <1>0 DEF TypeOK
<1>3. ASSUME NEW r \in RequestIds, Acquire(r) \/ Get(r)
      PROVE  Timely'
  BY <1>3, TimelyAcquire, TimelyGet
<1>4. ASSUME NEW r \in RequestIds, NEW stage \in Stages, Goto(r, stage),
             stage \in {"USABLE", "CONSUMED"} => requests[r].stage \in {"USABLE", "CONSUMED"},
             UNCHANGED <<clock, issued>>,
             \A k \in Codes : \/ records'[k] \in {records[k], NoRecord}
                              \/ records'[k].expiresAt = issued[k].expiresAt,
             \A k \in Codes : locks'[k].lapsesAt = locks[k].lapsesAt,
             \A k \in Codes, q \in RequestIds :
               locks'[k].holder = q => locks[k].holder = q
      PROVE  Timely'
  <2>1. /\ requests'[r].stage = stage /\ requests'[r].code = requests[r].code
        /\ \A q \in RequestIds \ {r} : requests'[q] = requests[q]
    BY <1>0, <1>4, GotoWrites
  <2>2. \A q \in RequestIds :
          requests'[q].stage \in {"USABLE", "CONSUMED"} =>
            /\ requests[q].stage \in {"USABLE", "CONSUMED"}
            /\ requests'[q].code = requests[q].code
            /\ issued[requests[q].code].client # NoClient
    BY <1>1, <1>4, <2>1
  <2> QED
    BY <1>0, <1>4, <2>2, TimelyKept
<1>5. ASSUME NEW r \in RequestIds, GiveUp(r) \/ Exchange(r) \/ Crash(r)
      PROVE  Timely'
  <2>1. PICK stage \in {"FAILED", "REJECTED", "TOKENS", "CRASHED"} : Goto(r, stage)
    BY <1>5 DEF GiveUp, Exchange, Crash
  <2>2. UNCHANGED <<clock, records, locks, issued>>
    BY <1>5 DEF GiveUp, Exchange, Crash
  <2> QED
    BY <1>4, <2>1, <2>2 DEF Stages
<1>6. ASSUME NEW r \in RequestIds, Delete(r) \/ Put(r)
      PROVE  Timely'
  <2>1. PICK k \in Codes : k = requests[r].code
    BY <1>0, <1>6 DEF Delete, Put, Presented
  <2>2. UNCHANGED <<clock, locks, issued>>
    BY <1>6 DEF Delete, Put
  <2>3. \A j \in Codes : \/ records'[j] \in {records[j], NoRecord}
                         \/ records'[j].expiresAt = issued[j].expiresAt
    <3>1. CASE Delete(r)
      BY <1>0, <2>1, <3>1 DEF Delete, TypeOK
    <3>2. CASE Put(r)
      <4>1. records' = [records EXCEPT ![k] = ConsumedRecord(k, requests[r].issuedTo)]
        BY <2>1, <3>2 DEF Put
      <4>2. \A j \in Codes \ {k} : records'[j] = records[j]
        BY <1>0, <4>1 DEF TypeOK
      <4>3. records'[k] = ConsumedRecord(k, requests[r].issuedTo)
        BY <1>0, <4>1 DEF TypeOK
      <4>4. records'[k].expiresAt = issued[k].expiresAt
        BY <4>3 DEF ConsumedRecord
      <4> QED
        BY <4>2, <4>4
    <3> QED
      BY <1>6, <3>1, <3>2
  <2>4. PICK stage \in {"REFUSED", "CONSUMED"} :
          Goto(r, stage) /\ (stage = "CONSUMED" => requests[r].stage = "USABLE")
    BY <1>6 DEF Delete, Put
  <2> QED
    BY <1>4, <2>2, <2>3, <2>4 DEF Stages
<1>7. ASSUME NEW r \in RequestIds, Release(r)
      PROVE  Timely'
  <2>1. PICK k \in Codes : k = requests[r].code
    BY <1>0, <1>7 DEF Release, Presented
  <2>2. UNCHANGED <<clock, records, issued>>
    BY <1>7 DEF Release
  <2>3. PICK stage \in {"REDEEMED", "DENIED", "FAILED"} : Goto(r, stage)
    BY <1>7 DEF Release, Released
  <2>4. locks' \in {locks, [locks EXCEPT ![k].holder = NoRequest]}
    BY <1>7, <2>1 DEF Release
  <2>5. /\ \A j \in Codes : locks'[j].lapsesAt = locks[j].lapsesAt
        /\ \A j \in Codes, q \in RequestIds : locks'[j].holder = q => locks[j].holder = q
    <3>1. CASE locks' = locks
      BY <3>1
    <3>2. CASE locks' = [locks EXCEPT ![k].holder = NoRequest]
      <4>1. \A j \in Codes \ {k} : locks'[j] = locks[j]
        BY <1>0, <3>2 DEF TypeOK
      <4>2. locks[k] \in Lock
        BY <1>0 DEF TypeOK
      <4>3. locks'[k] = [locks[k] EXCEPT !.holder = NoRequest]
        BY <1>0, <3>2 DEF TypeOK
      <4>4. locks'[k].lapsesAt = locks[k].lapsesAt /\ locks'[k].holder = NoRequest
        BY <4>2, <4>3 DEF Lock
      <4> QED
        BY <4>1, <4>4, AbsenceAssumption
    <3> QED
      BY <2>4, <3>1, <3>2
  <2> QED
    BY <1>4, <2>2, <2>3, <2>5 DEF Stages
<1>8. ASSUME NEW k \in Codes, NEW client \in Clients, Issue(k, client)
      PROVE  Timely'
  <2>1. UNCHANGED <<clock, locks, requests>> /\ issued[k].client = NoClient
    BY <1>8 DEF Issue
  <2>2. PICK createdAt \in 0 .. clock :
          /\ records' = [records EXCEPT ![k] =
               [client |-> client, expiresAt |-> createdAt + CodeTTL, consumed |-> FALSE,
                lapsesAt |-> clock + CodeTTL]]
          /\ issued' = [issued EXCEPT ![k] =
               [client |-> client, expiresAt |-> createdAt + CodeTTL]]
    BY <1>8 DEF Issue
  <2>3. /\ records'[k].expiresAt = issued'[k].expiresAt
        /\ \A j \in Codes \ {k} : records'[j] = records[j] /\ issued'[j] = issued[j]
    BY <1>0, <2>2 DEF TypeOK
  <2> QED
    BY <1>0, <1>1, <2>1, <2>3, TimelyKept
<1>9. ASSUME NEW r \in RequestIds, NEW k \in Codes, NEW client \in Clients,
             Present(r, k, client)
      PROVE  Timely'
  <2>1. UNCHANGED <<clock, records, locks, issued>>
    BY <1>9 DEF Present
  <2>2. /\ requests'[r].stage = "LOCKING"
        /\ \A q \in RequestIds \ {r} : requests'[q] = requests[q]
    BY <1>0, <1>9 DEF Present, TypeOK
  <2> QED
    BY <1>0, <1>1, <2>1, <2>2, TimelyKept
<1>10. CASE Tick \/ UNCHANGED vars
  <2>1. clock' \in {clock, clock + 1} /\ UNCHANGED <<records, locks, issued, requests>>
    BY <1>10 DEF Tick, vars
  <2> QED
    BY <1>0, <1>1, <2>1, TimelyKept
<1> QED
  BY <1>3, <1>5, <1>6, <1>7, <1>8, <1>9, <1>10 DEF Next, Handler

\* A code is redeemed within the lifetime of a lock from its expiry: Redlock's
\* lock, whose release is checked, bounds how long the holder may have stalled.
THEOREM RedeemedInTimeHolds == Spec => RedeemedInTime
<1>1. Init => Timely
  <2> SUFFICES ASSUME Init PROVE Timely
    OBVIOUS
  <2>1. 0 <= clock + LockTTL
    BY TimesAssumption DEF Init
  <2> QED
    BY <2>1 DEF Init, Timely
<1>2. CodeInv /\ CodeInv' /\ Timely /\ [Next]_vars => Timely'
  BY TimelyStep
<1>3. ASSUME CodeInv, Timely, [Next]_vars, NEW r \in RequestIds,
             requests[r].stage = "CONSUMED", requests'[r].stage = "REDEEMED"
      PROVE  clock < issued[requests[r].code].expiresAt - 1 + LockTTL
  <2>0. TypeOK /\ Presented
    BY <1>3 DEF CodeInv, Safe
  <2>1. PICK k \in Codes : k = requests[r].code
    BY <1>3, <2>0 DEF Presented
  <2>2. HeldBy(k, r)
    <3>1. ASSUME NEW q \in RequestIds, NEW stage \in Stages, Goto(q, stage)
          PROVE  q = r /\ stage = "REDEEMED"
      BY <1>3, <2>0, <3>1, GotoWrites
    <3>2. ASSUME NEW q \in RequestIds, Acquire(q) \/ GiveUp(q) \/ Delete(q) \/ Put(q)
                                       \/ Exchange(q) \/ Crash(q)
          PROVE  FALSE
      <4>1. \E stage \in Stages \ {"REDEEMED"} : Goto(q, stage)
        BY <3>2 DEF Acquire, GiveUp, Delete, Put, Exchange, Crash, Stages
      <4> QED
        BY <3>1, <4>1
    <3>3. ASSUME NEW q \in RequestIds, Get(q)
          PROVE  FALSE
      BY <1>3, <2>0, <3>1, <3>3 DEF Get, Stages, TypeOK
    <3>4. ASSUME NEW q \in RequestIds, Release(q)
          PROVE  HeldBy(k, r)
      <4>1. PICK stage \in Stages :
              /\ Goto(q, stage)
              /\ stage = Released(q, IF requests[q].stage = "CONSUMED" THEN "REDEEMED"
                                                                       ELSE "DENIED")
        BY <3>4 DEF Release, Released, Stages
      <4> QED
        BY <2>1, <3>1, <4>1 DEF Released
    <3>5. ASSUME NEW j \in Codes, NEW client \in Clients, NEW q \in RequestIds,
                 Present(q, j, client)
          PROVE  FALSE
      BY <1>3, <2>0, <3>5 DEF Present, TypeOK
    <3>6. requests' # requests
      BY <1>3
    <3> QED
      BY <1>3, <3>2, <3>3, <3>4, <3>5, <3>6 DEF Next, Handler, Issue, Tick, vars
  <2>3. locks[k].lapsesAt < issued[k].expiresAt + LockTTL
    BY <1>3, <2>1, <2>2 DEF Timely
  <2>4. clock < locks[k].lapsesAt
    BY <2>2 DEF HeldBy, Held
  <2> QED
    BY <2>0, <2>1, <2>3, <2>4, Numbers
<1>4. CodeInv /\ Timely /\ [Next]_vars
      => [\A r \in RequestIds :
            requests[r].stage = "CONSUMED" /\ requests'[r].stage = "REDEEMED"
            => clock < issued[requests[r].code].expiresAt - 1 + LockTTL]_vars
  BY <1>3
<1> QED
  BY <1>1, <1>2, <1>4, CodeInvHolds, PTL DEF Spec, RedeemedInTime


\* One request redeems a code, and no write of any other revives it.
THEOREM UsedOnceHolds == Spec => UsedOnce
<1> QED
  BY RedeemedOnceHolds, NeverUsableAgainHolds, PTL DEF UsedOnce
=============================================================================
