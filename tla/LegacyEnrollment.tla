---------------------------- MODULE LegacyEnrollment ----------------------------
(***************************************************************************)
(* The legacy face enrollment (identity/PrivateIDEnrollmentService.ts): a   *)
(* transaction row is created for a session at the provider, and the        *)
(* provider's SUCCESS webhook completes it in separate statements, with no  *)
(* transaction around them.  Webhooks are repeated, overlap each other and  *)
(* the deadline, and die with the process, which also forgets its sessions. *)
(***************************************************************************)
CONSTANTS Transactions, Webhooks, Faces

VARIABLES
    transactions,  \* status of the enrollment row
    puids,         \* the face that the camera saw for it
    late,          \* rows past expires_at
    sessions,      \* rows whose session this process remembers
    identities,    \* faces that are the PrivateID subject of an identity
    enrolledBy,    \* the row that enrolled a face, or "other", or "none"
    webhooks,      \* deliveries being served
    confirmed,     \* rows for which SUCCESS was answered
    died           \* rows whose face was inserted by a webhook that then died

vars == <<transactions, puids, late, sessions, identities, enrolledBy, webhooks,
          confirmed, died>>

Statuses == {"none", "pending", "completed", "expired"}
Idle == [step |-> "IDLE"]
At(w, step) == webhooks[w].step = step
Row(w) == webhooks[w].row
Puid(w) == puids[Row(w)]
Goto(w, step) == webhooks' = [webhooks EXCEPT ![w].step = step]
Answer(w) == webhooks' = [webhooks EXCEPT ![w] = Idle]
Confirm(w) == confirmed' = confirmed \cup {Row(w)} /\ Answer(w)

\* startEnrollment: session at the provider, row, mark of the session record
Start(t, f) ==
    /\ transactions[t] = "none"
    /\ transactions' = [transactions EXCEPT ![t] = "pending"]
    /\ puids' = [puids EXCEPT ![t] = f]
    /\ sessions' = sessions \cup {t}
    /\ UNCHANGED <<late, identities, enrolledBy, webhooks, confirmed, died>>

\* A SUCCESS webhook that names its session and carries a puid
Deliver(w, t) ==
    /\ webhooks[w] = Idle /\ t \in sessions
    /\ webhooks' = [webhooks EXCEPT ![w] = [step |-> "FIND", row |-> t]]
    /\ UNCHANGED <<transactions, puids, late, sessions, identities, enrolledBy, confirmed, died>>

\* completeEnrollment reads the row once: not pending is answered 409.
Find(w) ==
    /\ At(w, "FIND")
    /\ CASE transactions[Row(w)] # "pending" -> Answer(w)
         [] transactions[Row(w)] = "pending" /\ Row(w) \in late -> Goto(w, "EXPIRE")
         [] OTHER -> Goto(w, "RESOLVE")
    /\ UNCHANGED <<transactions, puids, late, sessions, identities, enrolledBy, confirmed, died>>

\* The row is set to expired whatever it is by now, and SUCCESS is answered.
Expire(w) ==
    /\ At(w, "EXPIRE") /\ Confirm(w)
    /\ transactions' = [transactions EXCEPT ![Row(w)] = "expired"]
    /\ UNCHANGED <<puids, late, sessions, identities, enrolledBy, died>>

Resolve(w) ==
    /\ At(w, "RESOLVE") /\ Goto(w, "INSERT")
    /\ identities' = identities \cup {Puid(w)}
    /\ UNCHANGED <<transactions, puids, late, sessions, enrolledBy, confirmed, died>>

\* Mutant: the unique violation is taken for an enrollment that is done.
InsertedOrTaken(w) ==
    /\ Goto(w, "MARK")
    /\ enrolledBy' = [enrolledBy EXCEPT ![Puid(w)] = IF @ = "none" THEN Row(w) ELSE @]

\* UNIQUE (provider, provider_subject): one row per face, or the webhook fails
Inserted(w) ==
    \/ /\ enrolledBy[Puid(w)] = "none" /\ Goto(w, "MARK")
       /\ enrolledBy' = [enrolledBy EXCEPT ![Puid(w)] = Row(w)]
    \/ enrolledBy[Puid(w)] # "none" /\ Answer(w) /\ UNCHANGED enrolledBy

Insert(w) ==
    /\ At(w, "INSERT") /\ Inserted(w)
    /\ UNCHANGED <<transactions, puids, late, sessions, identities, confirmed, died>>

\* Mutant: the row is only marked while its deadline has not passed.
CompletedInTime(w) ==
    transactions' = IF Row(w) \in late THEN transactions
                    ELSE [transactions EXCEPT ![Row(w)] = "completed"]

Completed(w) == transactions' = [transactions EXCEPT ![Row(w)] = "completed"]

Mark(w) ==
    /\ At(w, "MARK") /\ Confirm(w) /\ Completed(w)
    /\ UNCHANGED <<puids, late, sessions, identities, enrolledBy, died>>

Deadline(t) ==
    /\ transactions[t] # "none" /\ t \notin late /\ late' = late \cup {t}
    /\ UNCHANGED <<transactions, puids, sessions, identities, enrolledBy, webhooks, confirmed, died>>

\* The process restarts: deliveries end where they are, sessions are forgotten.
Restart ==
    /\ sessions # {} /\ sessions' = {}
    /\ died' = died \cup {Row(w) : w \in {v \in Webhooks : At(v, "MARK")}}
    /\ webhooks' = [w \in Webhooks |-> Idle]
    /\ UNCHANGED <<transactions, puids, late, identities, enrolledBy, confirmed>>

\* Some faces were enrolled before.
Init ==
    /\ transactions = [t \in Transactions |-> "none"]
    /\ puids \in [Transactions -> Faces] /\ late = {} /\ sessions = {}
    /\ identities = {} /\ confirmed = {} /\ died = {}
    /\ enrolledBy \in [Faces -> {"none", "other"}]
    /\ webhooks = [w \in Webhooks |-> Idle]

Next ==
    \/ \E t \in Transactions : Deadline(t) \/ \E f \in Faces : Start(t, f)
    \/ \E w \in Webhooks :
        \/ \E t \in Transactions : Deliver(w, t)
        \/ Find(w) \/ Expire(w) \/ Resolve(w) \/ Insert(w) \/ Mark(w)
    \/ Restart

Spec == Init /\ [][Next]_vars

-----------------------------------------------------------------------------
\* However its webhooks overlap, a completed enrollment enrolled its own face, whose
\* subject exists; and SUCCESS is only answered for such a one or past the deadline.
CompletedEnrolled ==
    \A t \in Transactions :
        /\ transactions[t] = "completed" => enrolledBy[puids[t]] = t /\ puids[t] \in identities
        /\ t \in confirmed => t \in late \/ enrolledBy[puids[t]] = t

\* An enrollment whose face is in place stays pending only while its webhook works on
\* it, or for good when that webhook died in between.
EnrolledIsMarked ==
    \A t \in Transactions :
        transactions[t] = "pending" /\ enrolledBy[puids[t]] = t =>
            t \in died \/ \E w \in Webhooks : At(w, "MARK") /\ Row(w) = t

\* The enrollment row and the face it is about agree, whichever webhook wrote which.
EnrollmentsAgree == CompletedEnrolled /\ EnrolledIsMarked
=============================================================================
