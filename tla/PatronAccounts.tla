--------------------------- MODULE PatronAccounts ---------------------------
(***************************************************************************)
(* The prioritized Steam accounts of one patron (api/src/services/patreon, *)
(* api/src/routes/v1/patron and auth): the requests of the patron, the     *)
(* webhooks of Patreon, the OAuth login and the two tasks of the           *)
(* verification job read and write the same rows, one statement at a time, *)
(* without a transaction.  Every write of a row is followed by the removal *)
(* of its Steam account from the cache of is_account_prioritized, unless   *)
(* the future of the writer is dropped, or it is told of an error, between *)
(* the commit and the removal.                                             *)
(*                                                                         *)
(* Time is abstract: the 24 hours of a cooldown and the TTL of a cached    *)
(* answer may end at any moment, the jobs may run at any moment.           *)
(***************************************************************************)
EXTENDS Integers, FiniteSets

CONSTANTS
    Steams,         \* steam_id3 values
    Watched,        \* those whose entries of the cache are followed
    MaxRows,        \* bound: rows ever inserted
    Memberships,    \* pledge (in cents) and activity the member can have at Patreon
    NULL,           \* no slot_override
    SlotOverride,   \* patrons.slot_override
    Requests,       \* handlers of requests of the patron
    Tasks,          \* webhooks, logins and the loop of the retry queue
    Readers,        \* callers of is_account_prioritized
    MaxCalls,       \* bound: calls under way at a time
    MaxChanges,     \* bound: changes of the membership at Patreon
    MaxFaults       \* bound: failed statements and Patreon requests

ASSUME PatronAssumption ==
    /\ IsFiniteSet(Steams) /\ Steams # {} /\ Watched \subseteq Steams /\ MaxRows \in Nat
    /\ Memberships \subseteq [pledge : Int, active : BOOLEAN] /\ Memberships # {}
    /\ NULL \notin Int /\ SlotOverride \in Nat \cup {NULL}
    /\ Requests \cap (Tasks \cup {"verify"}) = {}
    /\ Readers \cap (Requests \cup Tasks \cup {"verify"}) = {}
    /\ MaxCalls \in Nat /\ MaxChanges \in Nat /\ MaxFaults \in Nat

VARIABLES
    rows,         \* prioritized_steam_accounts, in the order of created_at
    membership,   \* the patron's pledge and status in the database
    patreon,      \* the same at Patreon
    mail,         \* payloads of webhooks that have not arrived
    call,         \* call[p]: what p is executing
    cached,       \* the cache of is_account_prioritized
    stale,        \* history: entries outdated when stored, or whose removal was skipped
    alone,        \* history: the call during which no other was under way and no cooldown ended
    retryQueue,   \* entries of the retry queue, all of this patron
    token,        \* Patreon still takes the refresh token of the database
    changes, faults

database == <<rows, membership>>
vars == <<database, patreon, mail, call, cached, stale, alone, retryQueue, token, changes, faults>>

Rows == 1..MaxRows
Syncs == {"verify"} \cup Tasks
Procs == Requests \cup Syncs \cup Readers

AnySteam == CHOOSE s \in Steams : TRUE
AnyMembership == CHOOSE m \in Memberships : TRUE

\* A process between two calls.  Fields a call does not use keep these values.
Idle == [pc |-> "idle", kind |-> "none", row |-> 0, steam |-> AnySteam, limit |-> 0,
         count |-> 0, own |-> FALSE, ids |-> {}, evict |-> {}, then |-> "idle",
         m |-> AnyMembership]

Calls ==
    [pc : {"idle", "find", "active", "cooldown", "reactivate", "insert", "delete", "hardDelete",
           "evict", "refresh", "fetch", "store", "listActive", "softDelete", "countActive", "listDeleted",
           "reactivateAll", "expire", "load", "keep"},
     kind : {"none", "add", "delete", "replace", "reactivate", "verify", "retry", "login", "webhook", "read"},
     row : 0..MaxRows, steam : Steams, limit : Int, count : Nat, own : BOOLEAN,
     ids : SUBSET Rows, evict : SUBSET Watched, then : {"idle", "insert", "countActive", "expire"},
     m : Memberships]

Active == {r \in Rows : rows[r].status = "active"}
Gone == [steam |-> AnySteam, user |-> FALSE, recent |-> FALSE, status |-> "gone"]

Deleted == {r \in Rows : rows[r].status = "deleted"}
InCooldown == {r \in Deleted : rows[r].recent}
Unused == {r \in Rows : rows[r].status = "unused"}
Prioritized(s) == \E r \in Active : rows[r].steam = s

TypeOK ==
    /\ rows \in [Rows -> [steam : Steams, user : BOOLEAN, recent : BOOLEAN,
                          status : {"unused", "active", "deleted", "gone"}]]
    /\ membership \in Memberships /\ patreon \in Memberships /\ mail \subseteq Memberships
    /\ call \in [Procs -> Calls]
    /\ cached \in [Watched -> {"none", "yes", "no"}]
    /\ stale \subseteq Watched /\ alone \subseteq Procs
    /\ retryQueue \in Nat /\ token \in BOOLEAN
    /\ changes \in 0..MaxChanges /\ faults \in 0..MaxFaults
    \* The partial unique index on (patron_id, steam_id3).
    /\ \A r, q \in Active : rows[r].steam = rows[q].steam => r = q

Init ==
    /\ rows = [r \in Rows |-> [steam |-> AnySteam, user |-> FALSE, recent |-> FALSE,
                               status |-> "unused"]]
    /\ membership \in Memberships
    /\ patreon = membership
    /\ mail = {}
    /\ call = [p \in Procs |-> Idle]
    /\ cached = [s \in Watched |-> "none"]
    /\ stale = {} /\ alone = {}
    /\ retryQueue = 0 /\ token = TRUE /\ changes = 0 /\ faults = 0

-----------------------------------------------------------------------------
(* calculate_slot_limit                                                    *)

RoundedSlots(pledge) == (pledge + 75) \div 150

SlotLimit(m) ==
    IF SlotOverride # NULL THEN SlotOverride
    ELSE IF m.pledge <= 0 THEN 0
    ELSE IF RoundedSlots(m.pledge) < 1 THEN 1
    ELSE IF RoundedSlots(m.pledge) > 50 THEN 50
    ELSE RoundedSlots(m.pledge)

\* The patron pays, or has been given slots.
Entitled(m) == m.active \/ (SlotOverride # NULL /\ SlotOverride > 0)

-----------------------------------------------------------------------------
(* Statements on the rows, and the removals from the cache that follow.    *)

Goto(p, pc) ==
    call' = [call EXCEPT ![p] = IF pc = "idle" THEN Idle
                                ELSE [@ EXCEPT !.pc = pc, !.evict = {}, !.then = "idle"]]

SteamsOf(changed) == {rows[r].steam : r \in changed}

\* Mutant: the cache is left alone after the write.
NotEvicting(steams) == {}

Evicting(steams) == steams \cap Watched

\* The call c has written rows of these accounts; it goes on to next when their entries
\* are gone.
AfterEviction(c, steams, next) ==
    IF Evicting(steams) # {}
    THEN [c EXCEPT !.pc = "evict", !.ids = {}, !.evict = Evicting(steams), !.then = next]
    ELSE IF next = "idle" THEN Idle ELSE [c EXCEPT !.pc = next, !.ids = {}]

ThenEvict(p, steams, next) == call' = [call EXCEPT ![p] = AfterEviction(@, steams, next)]

Evict(p) ==
    /\ call[p].pc = "evict"
    /\ \E s \in call[p].evict :
          /\ cached' = [cached EXCEPT ![s] = "none"]
          /\ stale' = stale \ {s}
          /\ IF call[p].evict = {s} THEN Goto(p, call[p].then)
             ELSE call' = [call EXCEPT ![p] = [@ EXCEPT !.evict = call[p].evict \ {s}]]
    /\ UNCHANGED <<database, patreon, mail, alone, retryQueue, token, changes, faults>>

\* What a step that only touches p's call leaves alone.
ReadsOnly ==
    UNCHANGED <<database, patreon, mail, cached, stale, alone, retryQueue, token, changes, faults>>

AfterSync(p) == IF call[p].kind = "verify" THEN "expire" ELSE "idle"

\* Where p goes on when a statement fails, or Patreon does not answer: a request ends, a
\* sync goes on with what does not depend on the statement.
OnError(p) ==
    CASE call[p].pc \in {"listActive", "softDelete"} -> "countActive"
      [] call[p].pc \in {"refresh", "fetch", "store", "countActive", "listDeleted", "reactivateAll"}
            -> AfterSync(p)
      [] OTHER -> "idle"

Fault == faults < MaxFaults /\ faults' = faults + 1

\* The entry says something else than the rows do.
Disagrees(s) == cached[s] # "none" /\ ~(cached[s] = "yes" <=> Prioritized(s))

\* The entries of these accounts stay although their rows were written.
Skips(steams) == stale' = stale \cup {s \in Evicting(steams) : Disagrees(s)'}

\* p's statement has written rows of these accounts.  Either it goes on to remove their
\* entries, or the connection breaks before the answer arrives and p sees an error.
Committed(p, steams, next) ==
    /\ UNCHANGED <<membership, patreon, mail, cached, alone, retryQueue, token, changes>>
    /\ \/ ThenEvict(p, steams, next) /\ UNCHANGED <<stale, faults>>
       \/ Fault /\ Goto(p, OnError(p)) /\ Skips(steams)

UnderWay == {p \in Procs : call[p] # Idle}

\* A call begins: it is alone unless another one has begun and not ended.
Begin(p, first) ==
    /\ p \notin UnderWay /\ Cardinality(UnderWay) < MaxCalls
    /\ call' = [call EXCEPT ![p] = first]
    /\ alone' = IF p \in Readers THEN alone ELSE IF UnderWay \subseteq Readers THEN {p} ELSE {}

Reactivated(r) == [rows[r] EXCEPT !.status = "active", !.user = FALSE, !.recent = FALSE]

\* Mutant: without the partial unique index.
NoIndex(ids) == FALSE

\* The update would leave two active rows of one Steam account.
Violates(ids) ==
    \E r \in ids, q \in Active \cup ids : r # q /\ rows[r].steam = rows[q].steam

-----------------------------------------------------------------------------
(* Requests of the patron.                                                 *)

\* add_steam_account reads the patron first.
StartAdd(p, s) ==
    /\ Begin(p, [Idle EXCEPT !.pc = "find", !.kind = "add", !.steam = s,
                             !.limit = SlotLimit(membership)])
    /\ UNCHANGED <<database, patreon, mail, cached, stale, retryQueue, token, changes, faults>>

\* The most recently deleted row of the account; one in cooldown needs no slot.
FindDeleted(p) ==
    /\ call[p].pc = "find"
    /\ LET found == {r \in Deleted : rows[r].steam = call[p].steam}
           latest == IF found \cap InCooldown # {} THEN found \cap InCooldown ELSE found
       IN  \/ found = {} /\ Goto(p, "active")
           \/ \E r \in latest :
                 call' = [call EXCEPT ![p] =
                    [@ EXCEPT !.row = r, !.pc = IF rows[r].recent THEN "reactivate" ELSE "active"]]
    /\ ReadsOnly

CountActive(p) ==
    /\ call[p].pc = "active"
    /\ call' = [call EXCEPT ![p] = [@ EXCEPT !.count = Cardinality(Active), !.pc = "cooldown"]]
    /\ ReadsOnly

\* Mutant: off by one.
OneTooMany(used, limit) == used > limit

SlotsAreFull(used, limit) == used >= limit

\* A reactivation does not count its own row among those in cooldown.
CountCooldown(p) ==
    /\ call[p].pc = "cooldown"
    /\ LET own == IF call[p].own /\ call[p].row \notin Deleted \ InCooldown THEN 1 ELSE 0
           used == call[p].count + Cardinality(InCooldown) - own
       IN  IF SlotsAreFull(used, call[p].limit) THEN Goto(p, "idle")
           ELSE call' = [call EXCEPT ![p] =
                    [@ EXCEPT !.count = 0, !.own = FALSE,
                              !.pc = IF call[p].row # 0 THEN "reactivate" ELSE "insert"]]
    /\ ReadsOnly

\* reactivate_account: nothing, or an error, if the row is no longer deleted or
\* the account is active in another row.
ReactivateAccount(p) ==
    /\ call[p].pc = "reactivate"
    /\ LET r == call[p].row
       IN  IF r \in Deleted /\ ~Violates({r})
           THEN /\ rows' = [rows EXCEPT ![r] = Reactivated(r)]
                /\ Committed(p, SteamsOf({r}), "idle")
           ELSE Goto(p, "idle") /\ ReadsOnly

\* An insertion fails if the account is active already, or at the bound MaxRows.
AddSteamAccount(p) ==
    /\ call[p].pc = "insert"
    /\ IF Prioritized(call[p].steam) \/ Unused = {}
       THEN Goto(p, "idle") /\ ReadsOnly
       ELSE \E r \in Unused :
               /\ \A q \in Unused : r <= q
               /\ rows' = [rows EXCEPT ![r] = [@ EXCEPT !.steam = call[p].steam, !.status = "active"]]
               /\ Committed(p, {call[p].steam}, "idle")

\* delete_steam_account; the id of any other row is answered with an error.
StartDelete(p, r) ==
    /\ r \in Active
    /\ Begin(p, [Idle EXCEPT !.pc = "delete", !.kind = "delete", !.row = r])
    /\ UNCHANGED <<database, patreon, mail, cached, stale, retryQueue, token, changes, faults>>

\* soft_delete_account
DeleteSteamAccount(p) ==
    /\ call[p].pc = "delete"
    /\ LET r == call[p].row
       IN  IF r \in Active
           THEN /\ rows' = [rows EXCEPT ![r] =
                       [@ EXCEPT !.status = "deleted", !.user = TRUE, !.recent = TRUE]]
                /\ Committed(p, SteamsOf({r}), "idle")
           ELSE Goto(p, "idle") /\ ReadsOnly

\* replace_steam_account: the row is deleted and its cooldown over.
StartReplace(p, r, s) ==
    /\ r \in Deleted \ InCooldown
    /\ Begin(p, [Idle EXCEPT !.pc = "hardDelete", !.kind = "replace", !.row = r, !.steam = s])
    /\ UNCHANGED <<database, patreon, mail, cached, stale, retryQueue, token, changes, faults>>

\* hard_delete_account, whatever the row has become.
HardDeleteAccount(p) ==
    /\ call[p].pc = "hardDelete"
    /\ LET r == call[p].row
       IN  IF r \in Active \cup Deleted
           THEN /\ rows' = [rows EXCEPT ![r] = Gone]
                /\ Committed(p, SteamsOf({r}), "insert")
           ELSE Goto(p, "idle") /\ ReadsOnly

\* reactivate_steam_account reads the patron and the row.
StartReactivate(p, r) ==
    /\ r \in Deleted
    /\ Begin(p, [Idle EXCEPT !.pc = "active", !.kind = "reactivate", !.row = r,
                             !.own = rows[r].recent, !.limit = SlotLimit(membership)])
    /\ UNCHANGED <<database, patreon, mail, cached, stale, retryQueue, token, changes, faults>>

Request(p) ==
    \/ \E s \in Steams : StartAdd(p, s)
    \/ \E r \in Rows : StartDelete(p, r) \/ StartReactivate(p, r)
    \/ \E r \in Rows, s \in Steams : StartReplace(p, r, s)

RequestStep(p) ==
    \/ FindDeleted(p) \/ CountActive(p) \/ CountCooldown(p)
    \/ ReactivateAccount(p) \/ AddSteamAccount(p)
    \/ DeleteSteamAccount(p) \/ HardDeleteAccount(p)

-----------------------------------------------------------------------------
(* Patreon, and what follows its news.                                     *)

\* The member changes the pledge, or leaves; a webhook is sent.
MembershipChanges ==
    /\ changes < MaxChanges
    /\ changes' = changes + 1
    /\ patreon' \in Memberships \ {patreon}
    /\ mail' = mail \cup {patreon'}
    /\ UNCHANGED <<database, call, cached, stale, alone, retryQueue, token, faults>>

\* Webhooks arrive in any order; the payload is what was true when they were sent.
StartWebhook(p) ==
    /\ \E m \in mail :
          /\ Begin(p, [Idle EXCEPT !.pc = "store", !.kind = "webhook", !.m = m])
          /\ mail' = mail \ {m}
    /\ UNCHANGED <<database, patreon, cached, stale, retryQueue, token, changes, faults>>

\* run_verification, with one patron.  A run that cannot read the patrons does nothing.
StartVerification ==
    /\ Begin("verify", [Idle EXCEPT !.pc = "refresh", !.kind = "verify"])
    /\ UNCHANGED <<database, patreon, mail, cached, stale, retryQueue, token, changes, faults>>

\* process_retry_queue: one loop.
StartRetry(p) ==
    /\ retryQueue > 0 /\ retryQueue' = retryQueue - 1
    /\ \A q \in Tasks : call[q].kind # "retry"
    /\ Begin(p, [Idle EXCEPT !.pc = "fetch", !.kind = "retry"])
    /\ UNCHANGED <<database, patreon, mail, cached, stale, token, changes, faults>>

StartLogin(p) ==
    /\ Begin(p, [Idle EXCEPT !.pc = "fetch", !.kind = "login"])
    /\ UNCHANGED <<database, patreon, mail, cached, stale, retryQueue, token, changes, faults>>

\* maybe_refresh_token: without a token that Patreon takes, the patron is neither synced
\* nor queued again until the next login.
RefreshToken(p) ==
    /\ call[p].pc = "refresh"
    /\ Goto(p, IF token THEN "fetch" ELSE AfterSync(p))
    /\ ReadsOnly

GetMembership(p) ==
    /\ call[p].pc = "fetch"
    /\ call' = [call EXCEPT ![p] = [@ EXCEPT !.pc = "store", !.m = patreon]]
    /\ ReadsOnly

\* A retry uses the access token of the attempt that failed, which may have been replaced:
\* it can fail however often it is queued again.
RetryFails(p) ==
    /\ call[p].pc = "fetch" /\ call[p].kind = "retry"
    /\ retryQueue' = retryQueue + 1
    /\ Goto(p, "idle")
    /\ UNCHANGED <<database, patreon, mail, cached, stale, alone, token, changes, faults>>

\* A login stores what it was told, with new tokens, and leaves the accounts to the jobs.
\* The statement may have been executed although an error is reported.
UpdatePatronMembership(p) ==
    /\ call[p].pc = "store"
    /\ membership' = call[p].m
    /\ token' = (token \/ call[p].kind = "login")
    /\ \/ Goto(p, IF call[p].kind = "login" THEN "idle" ELSE "listActive") /\ UNCHANGED faults
       \/ Fault /\ Goto(p, OnError(p))
    /\ UNCHANGED <<rows, patreon, mail, cached, stale, alone, retryQueue, changes>>

\* The first n rows of a set, in the order of created_at.
Oldest(set, n) == {r \in set : Cardinality({q \in set : q < r}) < n}

\* Mutant: only the pledge is looked at.
StatusIgnored(m) == Oldest(Active, Cardinality(Active) - SlotLimit(m))

ToSoftDelete(m) ==
    IF Entitled(m) THEN Oldest(Active, Cardinality(Active) - SlotLimit(m)) ELSE Active

\* handle_downgrade_or_cancellation
ListActive(p) ==
    /\ call[p].pc = "listActive"
    /\ LET ids == ToSoftDelete(call[p].m)
       IN  call' = [call EXCEPT ![p] =
                    [@ EXCEPT !.ids = ids, !.pc = IF ids = {} THEN "countActive" ELSE "softDelete"]]
    /\ ReadsOnly

SoftDeleteAccounts(p) ==
    /\ call[p].pc = "softDelete"
    /\ LET ids == call[p].ids \cap Active
       IN  /\ rows' = [r \in Rows |-> IF r \in ids
                                      THEN [rows[r] EXCEPT !.status = "deleted", !.recent = TRUE]
                                      ELSE rows[r]]
           /\ Committed(p, SteamsOf(ids), "countActive")

\* handle_reactivation
CountForReactivation(p) ==
    /\ call[p].pc = "countActive"
    /\ IF Entitled(call[p].m) /\ Cardinality(Active) < SlotLimit(call[p].m)
       THEN call' = [call EXCEPT ![p] =
                    [@ EXCEPT !.pc = "listDeleted", !.ids = {},
                              !.count = SlotLimit(call[p].m) - Cardinality(Active)]]
       ELSE Goto(p, AfterSync(p))
    /\ ReadsOnly

\* Mutant: whoever deleted them.
AnyDeleted == Deleted

Reactivatable == {r \in Deleted : ~rows[r].user}

ListDeleted(p) ==
    /\ call[p].pc = "listDeleted"
    /\ LET ids == Oldest(Reactivatable, call[p].count)
       IN  IF ids = {} THEN Goto(p, AfterSync(p))
           ELSE call' = [call EXCEPT ![p] = [@ EXCEPT !.ids = ids, !.count = 0, !.pc = "reactivateAll"]]
    /\ ReadsOnly

\* reactivate_accounts: one statement for all rows, which fails as a whole.
ReactivateAccounts(p) ==
    /\ call[p].pc = "reactivateAll"
    /\ LET ids == call[p].ids \cap Deleted
       IN  IF Violates(ids) THEN Goto(p, AfterSync(p)) /\ ReadsOnly
           ELSE /\ rows' = [r \in Rows |-> IF r \in ids THEN Reactivated(r) ELSE rows[r]]
                /\ Committed(p, SteamsOf(ids), AfterSync(p))

HardDeleteExpiredAccounts(p) ==
    /\ call[p].pc = "expire"
    /\ LET ids == Deleted \ InCooldown
       IN  /\ rows' = [r \in Rows |-> IF r \in ids THEN Gone ELSE rows[r]]
           /\ Committed(p, SteamsOf(ids), "idle")

SyncStep(p) ==
    \/ RefreshToken(p) \/ GetMembership(p) \/ RetryFails(p) \/ UpdatePatronMembership(p)
    \/ ListActive(p) \/ SoftDeleteAccounts(p)
    \/ CountForReactivation(p) \/ ListDeleted(p) \/ ReactivateAccounts(p)
    \/ HardDeleteExpiredAccounts(p)

\* A statement, or a request to Patreon, fails without effect; the patron is queued again
\* when the hourly job cannot ask for the membership.  A refresh that fails may have
\* replaced the refresh token at Patreon: the new one is lost.
Fails(p) ==
    /\ Fault
    /\ call[p].pc \notin {"idle", "evict", "keep"}
    /\ retryQueue' = retryQueue + (IF call[p].pc = "fetch" /\ call[p].kind = "verify" THEN 1 ELSE 0)
    /\ token' \in IF call[p].pc = "refresh" THEN {token, FALSE} ELSE {token}
    /\ Goto(p, OnError(p))
    /\ UNCHANGED <<database, patreon, mail, cached, stale, alone, changes>>

\* Handlers run in the future of their connection; webhooks and jobs are tasks of their own.
Handlers == {"add", "delete", "replace", "reactivate", "login", "read"}

\* The client is gone and the handler with it, between any two of its steps.
Dropped(p) ==
    /\ call[p].kind \in Handlers
    /\ call' = [call EXCEPT ![p] = Idle]
    /\ stale' = stale \cup {s \in call[p].evict : Disagrees(s)}
    /\ UNCHANGED <<database, patreon, mail, cached, alone, retryQueue, token, changes, faults>>

-----------------------------------------------------------------------------
(* is_account_prioritized: one loader of an account at a time.             *)

StartRead(p, s) ==
    /\ cached[s] = "none"
    /\ \A q \in Readers \cap UnderWay : call[q].steam # s
    /\ Begin(p, [Idle EXCEPT !.pc = "load", !.kind = "read", !.steam = s])
    /\ UNCHANGED <<database, patreon, mail, cached, stale, retryQueue, token, changes, faults>>

Load(p) ==
    /\ call[p].pc = "load"
    /\ call' = [call EXCEPT ![p] = [@ EXCEPT !.pc = "keep", !.own = Prioritized(call[p].steam)]]
    /\ ReadsOnly

Keep(p) ==
    /\ call[p].pc = "keep"
    /\ LET s == call[p].steam
       IN  /\ cached' = [cached EXCEPT ![s] = IF call[p].own THEN "yes" ELSE "no"]
           /\ stale' = IF call[p].own = Prioritized(s) THEN stale \ {s} ELSE stale \cup {s}
    /\ Goto(p, "idle")
    /\ UNCHANGED <<database, patreon, mail, alone, retryQueue, token, changes, faults>>

-----------------------------------------------------------------------------
(* Time.                                                                   *)

TtlEnds(s) ==
    /\ cached[s] # "none"
    /\ cached' = [cached EXCEPT ![s] = "none"]
    /\ stale' = stale \ {s}
    /\ UNCHANGED <<database, patreon, mail, call, alone, retryQueue, token, changes, faults>>

CooldownEnds(r) ==
    /\ r \in InCooldown
    /\ rows' = [rows EXCEPT ![r] = [@ EXCEPT !.recent = FALSE]]
    /\ alone' = {}
    /\ UNCHANGED <<membership, patreon, mail, call, cached, stale, retryQueue, token, changes, faults>>

-----------------------------------------------------------------------------
Step(p) == RequestStep(p) \/ SyncStep(p) \/ Load(p) \/ Keep(p) \/ Evict(p)

Next ==
    \/ \E p \in Requests : Request(p)
    \/ \E p \in Tasks : StartWebhook(p) \/ StartRetry(p) \/ StartLogin(p)
    \/ StartVerification
    \/ \E p \in Readers, s \in Watched : StartRead(p, s)
    \/ \E p \in Procs : Step(p) \/ Fails(p) \/ Dropped(p)
    \/ \E s \in Watched : TtlEnds(s)
    \/ \E r \in Rows : CooldownEnds(r)
    \/ MembershipChanges

Spec == Init /\ [][Next]_vars

-----------------------------------------------------------------------------
Used == Cardinality(Active) + Cardinality(InCooldown)

\* The statement of p that gives its account a slot.
TakesSlot(p) ==
    /\ call[p].kind \in {"add", "reactivate"}
    /\ call[p].pc \in {"insert", "reactivate"}
    /\ rows' # rows /\ call'[p] # call[p]

\* An addition or a reactivation during which no other call writes respects the
\* rule of steam_accounts.rs:65: afterwards accounts that are active or in
\* cooldown do not exceed the limit, unless they did before and are not more.
LimitHoldsAlone ==
    [][\A p \in alone \cap Requests :
          TakesSlot(p) => Used' <= call[p].limit \/ Used' <= Used]_vars

\* The same rule, whatever else is under way.
LimitHolds ==
    [][\A p \in Requests : TakesSlot(p) => Used' <= call[p].limit \/ Used' <= Used]_vars

\* Accounts the patron has deleted are not reactivated by a sync (the comment of
\* migration 09) that no other call interrupts.
UserDeletionStands ==
    [][\A p \in alone \cap Syncs : call'[p] # call[p] =>
          \A r \in Deleted : rows[r].user => rows'[r].status # "active"]_vars

\* An entry of the cache disagrees with the rows only while a writer is about to remove it,
\* or from one of the three causes that stale records, until its TTL ends or it is removed:
\* a loader stored what it read before a write, or a write was committed and its handler
\* dropped, or told of an error, before the removal (steam_accounts_repository.rs:533).
CacheIsExact ==
    \A s \in Watched \ stale : Disagrees(s) => \E p \in Procs : s \in call[p].evict

Allowed(m) == IF Entitled(m) THEN SlotLimit(m) ELSE 0

\* p is done with handle_downgrade_or_cancellation.
EndsDowngrade(p) ==
    /\ call[p].pc \in {"listActive", "softDelete"}
    /\ "countActive" \in {call'[p].pc, call'[p].then}
    /\ faults' = faults

\* A sync that no other call interrupts leaves no more active accounts than the membership
\* it was told of pays for, however many were there, and its reactivation does not exceed
\* that number again (membership.rs:11-121).
SyncRespectsPledge ==
    [][\A p \in alone \cap Syncs :
          EndsDowngrade(p) \/ (call[p].pc = "reactivateAll" /\ rows' # rows)
              => Cardinality(Active') <= Allowed(call[p].m)]_vars
=============================================================================
