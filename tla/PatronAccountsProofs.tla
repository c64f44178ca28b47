------------------------ MODULE PatronAccountsProofs ------------------------
(***************************************************************************)
(* Proofs about the patron's accounts, for any number of accounts, rows,    *)
(* requests, tasks and readers and every membership: types with the unique  *)
(* index, the cache of is_account_prioritized, which agrees with the rows   *)
(* but for the entries that CacheIsExact excepts, and what holds of a       *)
(* request and of a sync that no other writer interrupts.                   *)
(***************************************************************************)
EXTENDS PatronAccounts, FiniteSetTheorems, TLAPS

RowType == [steam : Steams, user : BOOLEAN, recent : BOOLEAN,
            status : {"unused", "active", "deleted", "gone"}]

PCs == {"idle", "find", "active", "cooldown", "reactivate", "insert", "delete", "hardDelete",
        "evict", "refresh", "fetch", "store", "listActive", "softDelete", "countActive", "listDeleted",
        "reactivateAll", "expire", "load", "keep"}
Nexts == {"idle", "insert", "countActive", "expire"}

RowsTyped == rows \in [Rows -> RowType]

\* The partial unique index on (patron_id, steam_id3).
Unique == \A r, q \in Active : rows[r].steam = rows[q].steam => r = q

CallsTyped == call \in [Procs -> Calls]

\* Only a call that is removing entries has entries to remove.
EvictsThere == \A p \in Procs : call[p].pc # "evict" => call[p].evict = {}

\* Answers are loaded and kept for the accounts whose entries are followed.
Reads(c) == c.pc \in {"load", "keep"} => c.steam \in Watched
ReadsWatched == \A p \in Procs : Reads(call[p])

Rest ==
    /\ membership \in Memberships /\ patreon \in Memberships /\ mail \subseteq Memberships
    /\ cached \in [Watched -> {"none", "yes", "no"}]
    /\ stale \subseteq Watched /\ alone \subseteq Procs
    /\ retryQueue \in Nat /\ token \in BOOLEAN
    /\ changes \in 0..MaxChanges /\ faults \in 0..MaxFaults

Inv == Rest /\ RowsTyped /\ Unique /\ CallsTyped /\ EvictsThere /\ ReadsWatched /\ CacheIsExact

-----------------------------------------------------------------------------
(* Calls.                                                                  *)

LEMMA Defaults ==
  /\ AnySteam \in Steams /\ AnyMembership \in Memberships
  /\ Idle \in Calls /\ Idle.evict = {} /\ Idle.pc = "idle"
<1>1. AnySteam \in Steams /\ AnyMembership \in Memberships
  BY PatronAssumption DEF AnySteam, AnyMembership
<1>2. 0 \in 0..MaxRows
  BY PatronAssumption
<1> QED
  BY <1>1, <1>2 DEF Idle, Calls

\* Another value of some fields.
LEMMA CallWith ==
  ASSUME NEW c \in Calls, NEW pc \in PCs
  PROVE  /\ [c EXCEPT !.pc = pc] \in Calls
         /\ [c EXCEPT !.pc = pc].evict = c.evict
         /\ [c EXCEPT !.pc = pc].pc = pc
BY DEF Calls, PCs

LEMMA CallMoves ==
  ASSUME NEW c \in Calls, NEW pc \in PCs
  PROVE  LET d == [c EXCEPT !.pc = pc, !.evict = {}, !.then = "idle"]
         IN  d \in Calls /\ d.evict = {} /\ d.pc = pc
<1> DEFINE d == [c EXCEPT !.pc = pc, !.evict = {}, !.then = "idle"]
<1>1. {} \in SUBSET Watched
  OBVIOUS
<1>2. d \in Calls
  BY <1>1 DEF Calls, PCs
<1>3. d.evict = {} /\ d.pc = pc
  BY DEF Calls
<1> QED
  BY <1>2, <1>3

LEMMA OneCall ==
  ASSUME CallsTyped, NEW p \in Procs, NEW c \in Calls, call' = [call EXCEPT ![p] = c]
  PROVE  /\ CallsTyped' /\ call'[p] = c
         /\ \A q \in Procs \ {p} : call'[q] = call[q]
BY DEF CallsTyped

LEMMA GotoGoes ==
  ASSUME CallsTyped, NEW p \in Procs, NEW pc \in PCs \ {"evict"}, Goto(p, pc)
  PROVE  /\ CallsTyped' /\ call'[p].evict = {} /\ call'[p].pc = pc
         /\ \A q \in Procs \ {p} : call'[q] = call[q]
<1> DEFINE c == IF pc = "idle" THEN Idle ELSE [call[p] EXCEPT !.pc = pc, !.evict = {}, !.then = "idle"]
<1>1. call[p] \in Calls
  BY DEF CallsTyped
<1>2. c \in Calls /\ c.evict = {} /\ c.pc = pc
  <2>1. CASE pc = "idle"
    BY <2>1, Defaults
  <2>2. CASE pc # "idle"
    BY <1>1, <2>2, CallMoves
  <2> QED
    BY <2>1, <2>2
<1>3. call' = [call EXCEPT ![p] = c]
  BY DEF Goto
<1> HIDE DEF c
<1> QED
  BY <1>2, <1>3, OneCall

LEMMA AfterEvictionIs ==
  ASSUME NEW c \in Calls, c.evict = {}, NEW steams, NEW next \in Nexts
  PROVE  /\ AfterEviction(c, steams, next) \in Calls
         /\ AfterEviction(c, steams, next).pc \in Nexts \cup {"evict"}
         /\ AfterEviction(c, steams, next).evict = steams \cap Watched
         /\ AfterEviction(c, steams, next).pc # "evict" => AfterEviction(c, steams, next).evict = {}
<1>1. CASE Evicting(steams) # {}
  <2>1. Evicting(steams) \in SUBSET Watched
    BY DEF Evicting
  <2>2. AfterEviction(c, steams, next)
          = [c EXCEPT !.pc = "evict", !.ids = {}, !.evict = Evicting(steams), !.then = next]
    BY <1>1 DEF AfterEviction
  <2>3. /\ AfterEviction(c, steams, next) \in Calls
        /\ AfterEviction(c, steams, next).evict = Evicting(steams)
        /\ AfterEviction(c, steams, next).pc = "evict"
    BY <2>1, <2>2 DEF Calls, Nexts
  <2> QED
    BY <2>3 DEF Evicting
<1>2. CASE Evicting(steams) = {}
  <2>1. steams \cap Watched = {}
    BY <1>2 DEF Evicting
  <2>2. CASE next = "idle"
    BY <1>2, <2>1, <2>2, Defaults DEF AfterEviction, Nexts
  <2>3. CASE next # "idle"
    <3>1. AfterEviction(c, steams, next) = [c EXCEPT !.pc = next, !.ids = {}]
      BY <1>2, <2>3 DEF AfterEviction
    <3>2. /\ AfterEviction(c, steams, next) \in Calls
          /\ AfterEviction(c, steams, next).evict = {}
          /\ AfterEviction(c, steams, next).pc = next
      BY <3>1 DEF Calls, Nexts
    <3> QED
      BY <2>1, <3>2
  <2> QED
    BY <2>2, <2>3
<1> QED
  BY <1>1, <1>2

-----------------------------------------------------------------------------
(* What a step of one call may do for Inv to last.                         *)

Effect(p) ==
    /\ CallsTyped' /\ RowsTyped' /\ Unique'
    /\ \A q \in Procs \ {p} : call'[q] = call[q]
    /\ call[p].evict = {}
    /\ call'[p].pc # "evict" => call'[p].evict = {}
    /\ Reads(call'[p])
    /\ \A s \in Watched : \/ s \in call'[p].evict
                          \/ Prioritized(s)' <=> Prioritized(s)
                          \/ Disagrees(s)' => s \in stale'

Untouched == UNCHANGED cached /\ stale \subseteq stale' /\ Rest'

LEMMA EffectKeeps ==
  ASSUME Inv, NEW p \in Procs, Effect(p), Untouched
  PROVE  Inv'
<1>1. EvictsThere' /\ ReadsWatched'
  BY DEF Effect, EvictsThere, ReadsWatched, Reads, Inv
<1>2. ASSUME NEW s \in Watched \ stale', Disagrees(s)'
      PROVE  \E q \in Procs : s \in call'[q].evict
  <2>1. CASE s \in call'[p].evict
    BY <2>1
  <2>2. CASE Prioritized(s)' <=> Prioritized(s)
    <3>1. Disagrees(s) /\ s \notin stale
      BY <1>2, <2>2 DEF Disagrees, Untouched
    <3>2. PICK q \in Procs : s \in call[q].evict
      BY <3>1 DEF Inv, CacheIsExact
    <3>3. q # p /\ call'[q] = call[q]
      BY <3>2 DEF Effect
    <3> QED
      BY <3>2, <3>3
  <2>3. CASE Disagrees(s)' => s \in stale'
    BY <1>2, <2>3
  <2> QED
    BY <2>1, <2>2, <2>3 DEF Effect
<1>3. CacheIsExact'
  BY <1>2 DEF CacheIsExact
<1> QED
  BY <1>1, <1>3 DEF Inv, Effect, Untouched

\* Rows outside ids keep what counts, and those of ids are, and become, rows of steams.
LEMMA OnlyThese ==
  ASSUME NEW ids \in SUBSET Rows, NEW steams,
         \A r \in Rows \ ids : rows'[r].steam = rows[r].steam /\ rows'[r].status = rows[r].status,
         \A r \in ids : /\ rows[r].status = "active" => rows[r].steam \in steams
                        /\ rows'[r].status = "active" => rows'[r].steam \in steams
  PROVE  \A s \in Watched : s \in (steams \cap Watched) \/ (Prioritized(s)' <=> Prioritized(s))
<1> SUFFICES ASSUME NEW s \in Watched, s \notin steams PROVE Prioritized(s)' <=> Prioritized(s)
  OBVIOUS
<1>1. ASSUME NEW r \in Rows
      PROVE  rows'[r].status = "active" /\ rows'[r].steam = s <=> rows[r].status = "active" /\ rows[r].steam = s
  BY <1>1
<1> QED
  BY <1>1 DEF Prioritized, Active

LEMMA FewerActive ==
  ASSUME Unique,
         \A r \in Rows : rows'[r].status = "active" => rows[r].status = "active" /\ rows'[r].steam = rows[r].steam
  PROVE  Unique'
BY DEF Unique, Active

LEMMA Finite ==
  /\ IsFiniteSet(Active) /\ Cardinality(Active) \in Nat
  /\ IsFiniteSet(InCooldown) /\ Cardinality(InCooldown) \in Nat
<1>1. IsFiniteSet(Rows)
  BY PatronAssumption, FS_Interval DEF Rows
<1>2. Active \subseteq Rows /\ InCooldown \subseteq Rows
  BY DEF Active, InCooldown, Deleted
<1> QED
  BY <1>1, <1>2, FS_Subset, FS_CardinalityType

LEMMA Limits ==
  ASSUME NEW m \in Memberships PROVE SlotLimit(m) \in Int
BY PatronAssumption DEF SlotLimit, RoundedSlots

\* A step that leaves the rows alone, and has nothing to remove from the cache.
LEMMA Calling ==
  ASSUME Inv, NEW p \in Procs, NEW c \in Calls, c.evict = {}, Reads(c), call[p].evict = {},
         call' = [call EXCEPT ![p] = c], UNCHANGED rows
  PROVE  Effect(p)
<1>1. CallsTyped' /\ call'[p] = c /\ \A q \in Procs \ {p} : call'[q] = call[q]
  BY OneCall DEF Inv
<1>2. RowsTyped' /\ Unique'
  BY DEF Inv, RowsTyped, Unique, Active
<1>3. \A s \in Watched : Prioritized(s)' <=> Prioritized(s)
  BY DEF Prioritized, Active
<1> QED
  BY <1>1, <1>2, <1>3 DEF Effect

LEMMA Going ==
  ASSUME Inv, NEW p \in Procs, NEW pc \in PCs \ {"evict", "load", "keep"}, call[p].evict = {},
         Goto(p, pc), UNCHANGED rows
  PROVE  Effect(p)
<1>1. CallsTyped' /\ call'[p].evict = {} /\ Reads(call'[p]) /\ \A q \in Procs \ {p} : call'[q] = call[q]
  BY GotoGoes DEF Inv, Reads
<1>2. RowsTyped' /\ Unique'
  BY DEF Inv, RowsTyped, Unique, Active
<1>3. \A s \in Watched : Prioritized(s)' <=> Prioritized(s)
  BY DEF Prioritized, Active
<1> QED
  BY <1>1, <1>2, <1>3 DEF Effect

LEMMA RestKept ==
  ASSUME Inv, ReadsOnly PROVE Untouched
BY DEF Inv, ReadsOnly, database, Rest, Untouched

LEMMA OnErrorIs ==
  ASSUME NEW p PROVE OnError(p) \in {"countActive", "expire", "idle"}
BY DEF OnError, AfterSync

\* A statement that is committed changes nothing but rows, marks and the count of faults.
LEMMA CommittedKeeps ==
  ASSUME Inv, NEW p, NEW steams, NEW next, Committed(p, steams, next)
  PROVE  Untouched
<1>1. faults' \in 0..MaxFaults
  BY PatronAssumption DEF Committed, Fault, Inv, Rest
<1>2. stale \subseteq stale' /\ stale' \subseteq Watched
  BY DEF Committed, Skips, Evicting, Inv, Rest
<1> QED
  BY <1>1, <1>2 DEF Committed, Inv, Rest, Untouched

\* A step that writes the rows ids, of the accounts steams.
LEMMA Writing ==
  ASSUME Inv, NEW p \in Procs, NEW c \in Calls, c.evict = {}, call[p].evict = {},
         NEW steams, NEW next \in Nexts, NEW ids \in SUBSET Rows,
         call' = [call EXCEPT ![p] = AfterEviction(c, steams, next)],
         RowsTyped', Unique',
         \A r \in Rows \ ids : rows'[r].steam = rows[r].steam /\ rows'[r].status = rows[r].status,
         \A r \in ids : /\ rows[r].status = "active" => rows[r].steam \in steams
                        /\ rows'[r].status = "active" => rows'[r].steam \in steams
  PROVE  Effect(p)
<1> DEFINE d == AfterEviction(c, steams, next)
<1>1. d \in Calls /\ d.evict = steams \cap Watched /\ (d.pc # "evict" => d.evict = {}) /\ Reads(d)
  BY AfterEvictionIs DEF Reads, Nexts
<1>2. \A s \in Watched : s \in (steams \cap Watched) \/ (Prioritized(s)' <=> Prioritized(s))
  BY OnlyThese
<1>3. call' = [call EXCEPT ![p] = d]
  OBVIOUS
<1> HIDE DEF d
<1>4. CallsTyped' /\ call'[p] = d /\ \A q \in Procs \ {p} : call'[q] = call[q]
  BY <1>1, <1>3, OneCall DEF Inv
<1> QED
  BY <1>1, <1>2, <1>4 DEF Effect

LEMMA ThenWriting ==
  ASSUME Inv, NEW p \in Procs, call[p].evict = {},
         NEW steams, NEW next \in Nexts, NEW ids \in SUBSET Rows, Committed(p, steams, next),
         RowsTyped', Unique',
         \A r \in Rows \ ids : rows'[r].steam = rows[r].steam /\ rows'[r].status = rows[r].status,
         \A r \in ids : /\ rows[r].status = "active" => rows[r].steam \in steams
                        /\ rows'[r].status = "active" => rows'[r].steam \in steams
  PROVE  Effect(p) /\ Untouched
<1>1. call[p] \in Calls
  BY DEF Inv, CallsTyped
<1>2. CASE ThenEvict(p, steams, next)
  <2>1. call' = [call EXCEPT ![p] = AfterEviction(call[p], steams, next)]
    BY <1>2 DEF ThenEvict
  <2> QED
    BY <1>1, <2>1, Writing, CommittedKeeps
<1>3. CASE Goto(p, OnError(p)) /\ Skips(steams)
  <2>1. /\ CallsTyped' /\ call'[p].evict = {} /\ Reads(call'[p])
        /\ \A q \in Procs \ {p} : call'[q] = call[q]
    BY <1>3, OnErrorIs, GotoGoes DEF Inv, Reads, PCs
  <2>2. \A s \in Watched : s \in (steams \cap Watched) \/ (Prioritized(s)' <=> Prioritized(s))
    BY OnlyThese
  <2>3. \A s \in steams \cap Watched : Disagrees(s)' => s \in stale'
    BY <1>3 DEF Skips, Evicting
  <2> QED
    BY <2>1, <2>2, <2>3, CommittedKeeps DEF Effect
<1> QED
  BY <1>2, <1>3 DEF Committed

LEMMA ThenWritingAll ==
  ASSUME Inv, NEW p \in Procs, call[p].evict = {},
         NEW next \in Nexts, NEW ids \in SUBSET Rows, Committed(p, SteamsOf(ids), next),
         RowsTyped', Unique',
         \A r \in Rows \ ids : rows'[r] = rows[r],
         \A r \in ids : rows'[r].status = "active" => rows'[r].steam = rows[r].steam
  PROVE  Effect(p) /\ Untouched
<1> DEFINE steams == SteamsOf(ids)
<1>1. \A r \in Rows \ ids : rows'[r].steam = rows[r].steam /\ rows'[r].status = rows[r].status
  OBVIOUS
<1>2. \A r \in ids :
        /\ rows[r].status = "active" => rows[r].steam \in steams
        /\ rows'[r].status = "active" => rows'[r].steam \in steams
  BY DEF SteamsOf
<1>3. Committed(p, steams, next)
  OBVIOUS
<1> HIDE DEF steams
<1> QED
  BY <1>1, <1>2, <1>3, ThenWriting

LEMMA ThenWritingOne ==
  ASSUME Inv, NEW p \in Procs, call[p].evict = {},
         NEW steams, NEW next \in Nexts, NEW r \in Rows, Committed(p, steams, next),
         RowsTyped', Unique',
         \A q \in Rows \ {r} : rows'[q] = rows[q],
         rows[r].status = "active" => rows[r].steam \in steams,
         rows'[r].status = "active" => rows'[r].steam \in steams
  PROVE  Effect(p) /\ Untouched
<1> DEFINE ids == {r}
<1>1. ids \in SUBSET Rows
  OBVIOUS
<1>2. \A q \in Rows \ ids : rows'[q].steam = rows[q].steam /\ rows'[q].status = rows[q].status
  OBVIOUS
<1>3. \A q \in ids : /\ rows[q].status = "active" => rows[q].steam \in steams
                     /\ rows'[q].status = "active" => rows'[q].steam \in steams
  OBVIOUS
<1> HIDE DEF ids
<1> QED
  BY <1>1, <1>2, <1>3, ThenWriting

-----------------------------------------------------------------------------
(* The steps of requests.                                                  *)

LEMMA NothingToEvict ==
  ASSUME Inv, NEW p \in Procs, call[p].pc # "evict" PROVE call[p] \in Calls /\ call[p].evict = {}
BY DEF Inv, CallsTyped, EvictsThere

\* A row that becomes active again, under the index.
LEMMA ReactivatedRows ==
  ASSUME Inv, NEW ids \in SUBSET Deleted, ~Violates(ids),
         rows' = [r \in Rows |-> IF r \in ids THEN Reactivated(r) ELSE rows[r]]
  PROVE  /\ RowsTyped' /\ Unique'
         /\ \A r \in Rows \ ids : rows'[r] = rows[r]
         /\ \A r \in ids : rows'[r].steam = rows[r].steam
<1>1. ids \subseteq Rows
  BY DEF Deleted
<1>2. \A r \in ids : /\ Reactivated(r) \in RowType /\ Reactivated(r).steam = rows[r].steam
                     /\ Reactivated(r).status = "active"
  BY <1>1 DEF Reactivated, Inv, RowsTyped, RowType
<1>3. \A r \in Rows : rows'[r] = IF r \in ids THEN Reactivated(r) ELSE rows[r]
  OBVIOUS
<1>4. RowsTyped'
  BY <1>2 DEF Inv, RowsTyped
<1>5. \A r \in Rows : r \in Active' <=> r \in Active \/ r \in ids
  BY <1>2, <1>3 DEF Active
<1>6. \A r \in Rows : rows'[r].steam = rows[r].steam
  BY <1>2, <1>3
<1>7. \A r, q \in Active \cup ids : rows[r].steam = rows[q].steam => r = q
  BY <1>1 DEF Violates, Inv, Unique
<1>8. Unique'
  BY <1>5, <1>6, <1>7 DEF Unique, Active
<1> QED
  BY <1>3, <1>4, <1>6, <1>8, <1>1

LEMMA RequestSteps ==
  ASSUME Inv, NEW p \in Procs, RequestStep(p)
  PROVE  Effect(p) /\ Untouched
<1>1. CASE FindDeleted(p)
  <2>1. call[p] \in Calls /\ call[p].evict = {} /\ UNCHANGED rows /\ Untouched
    BY <1>1, NothingToEvict, RestKept DEF FindDeleted, ReadsOnly, database
  <2>2. CASE Goto(p, "active")
    BY <2>1, <2>2, Going DEF PCs
  <2>3. CASE \E r \in Deleted : call' = [call EXCEPT ![p] =
                 [@ EXCEPT !.row = r, !.pc = IF rows[r].recent THEN "reactivate" ELSE "active"]]
    <3>1. PICK r \in Deleted : call' = [call EXCEPT ![p] =
                 [call[p] EXCEPT !.row = r, !.pc = IF rows[r].recent THEN "reactivate" ELSE "active"]]
      BY <2>3
    <3>2. r \in 0..MaxRows
      BY PatronAssumption DEF Deleted, Rows
    <3> DEFINE pc == IF rows[r].recent THEN "reactivate" ELSE "active"
               c == [call[p] EXCEPT !.row = r, !.pc = pc]
    <3>3. pc \in {"reactivate", "active"}
      OBVIOUS
    <3> HIDE DEF pc
    <3>4. c \in Calls /\ c.evict = {} /\ Reads(c)
      BY <2>1, <3>2, <3>3 DEF Calls, Reads
    <3>5. call' = [call EXCEPT ![p] = c]
      BY <3>1 DEF pc
    <3> HIDE DEF c
    <3> QED
      BY <2>1, <3>4, <3>5, Calling
  <2> QED
    BY <1>1, <2>2, <2>3 DEF FindDeleted
<1>2. CASE CountActive(p)
  <2>1. call[p] \in Calls /\ call[p].evict = {} /\ UNCHANGED rows /\ Untouched
    BY <1>2, NothingToEvict, RestKept DEF CountActive, ReadsOnly, database
  <2> DEFINE c == [call[p] EXCEPT !.count = Cardinality(Active), !.pc = "cooldown"]
  <2>2. c \in Calls /\ c.evict = {} /\ Reads(c)
    BY <2>1, Finite DEF Calls, Reads
  <2>3. call' = [call EXCEPT ![p] = c]
    BY <1>2 DEF CountActive
  <2> HIDE DEF c
  <2> QED
    BY <2>1, <2>2, <2>3, Calling
<1>3. CASE CountCooldown(p)
  <2>1. call[p] \in Calls /\ call[p].evict = {} /\ UNCHANGED rows /\ Untouched
    BY <1>3, NothingToEvict, RestKept DEF CountCooldown, ReadsOnly, database
  <2>2. CASE Goto(p, "idle")
    BY <2>1, <2>2, Going DEF PCs
  <2>3. CASE ~Goto(p, "idle")
    <3> DEFINE pc == IF call[p].row # 0 THEN "reactivate" ELSE "insert"
               c == [call[p] EXCEPT !.count = 0, !.own = FALSE, !.pc = pc]
    <3>1. pc \in {"reactivate", "insert"}
      OBVIOUS
    <3>2. call' = [call EXCEPT ![p] = c]
      BY <1>3, <2>3 DEF CountCooldown
    <3> HIDE DEF pc
    <3>3. c \in Calls /\ c.evict = {} /\ Reads(c)
      BY <2>1, <3>1 DEF Calls, Reads
    <3> HIDE DEF c
    <3> QED
      BY <2>1, <3>2, <3>3, Calling
  <2> QED
    BY <2>2, <2>3
<1>4. CASE ReactivateAccount(p)
  <2> DEFINE r == call[p].row
  <2>1. call[p] \in Calls /\ call[p].evict = {}
    BY <1>4, NothingToEvict DEF ReactivateAccount
  <2>2. CASE r \in Deleted /\ ~Violates({r})
    <3>1. rows' = [rows EXCEPT ![r] = Reactivated(r)] /\ Committed(p, SteamsOf({r}), "idle")
      BY <1>4, <2>2 DEF ReactivateAccount
    <3> HIDE DEF r
    <3>2. rows' = [q \in Rows |-> IF q \in {r} THEN Reactivated(q) ELSE rows[q]]
      BY <3>1 DEF Inv, RowsTyped
    <3>3. {r} \in SUBSET Deleted /\ {r} \in SUBSET Rows
      BY <2>2 DEF Deleted
    <3>4. /\ RowsTyped' /\ Unique'
          /\ \A q \in Rows \ {r} : rows'[q] = rows[q]
          /\ \A q \in {r} : rows'[q].steam = rows[q].steam
      BY <2>2, <3>2, <3>3, ReactivatedRows
    <3>5. \A q \in {r} : rows[q].steam \in SteamsOf({r})
      BY DEF SteamsOf
    <3>6. rows'[r].steam \in SteamsOf({r}) /\ rows[r].steam \in SteamsOf({r}) /\ r \in Rows
      BY <3>3, <3>4, <3>5
    <3>7. "idle" \in Nexts
      BY DEF Nexts
    <3>8. Committed(p, SteamsOf({r}), "idle")
      BY <3>1
    <3> QED
      BY <2>1, <3>4, <3>6, <3>7, <3>8, ThenWritingOne
  <2>3. CASE ~(r \in Deleted /\ ~Violates({r}))
    <3>1. ReadsOnly /\ Goto(p, "idle")
      BY <1>4, <2>3 DEF ReactivateAccount
    <3> QED
      BY <2>1, <3>1, Going, RestKept DEF PCs, ReadsOnly, database
  <2> QED
    BY <2>2, <2>3
<1>5. CASE AddSteamAccount(p)
  <2> DEFINE s == call[p].steam
  <2>1. call[p] \in Calls /\ call[p].evict = {}
    BY <1>5, NothingToEvict DEF AddSteamAccount
  <2>2. s \in Steams
    BY <2>1 DEF Calls
  <2>3. CASE Prioritized(s) \/ Unused = {}
    <3>1. ReadsOnly /\ Goto(p, "idle")
      BY <1>5, <2>3 DEF AddSteamAccount
    <3> QED
      BY <2>1, <3>1, Going, RestKept DEF PCs, ReadsOnly, database
  <2>4. CASE ~(Prioritized(s) \/ Unused = {})
    <3>1. PICK r \in Unused : /\ rows' = [rows EXCEPT ![r] = [rows[r] EXCEPT !.steam = s, !.status = "active"]]
                             /\ Committed(p, {s}, "idle")
      BY <1>5, <2>4 DEF AddSteamAccount
    <3> HIDE DEF s
    <3> DEFINE row == [rows[r] EXCEPT !.steam = s, !.status = "active"]
    <3>2. r \in Rows /\ rows[r] \in RowType /\ rows[r].status = "unused"
      BY DEF Unused, Inv, RowsTyped
    <3>3. row \in RowType /\ row.steam = s /\ row.status = "active"
      BY <2>2, <3>2 DEF RowType
    <3>4. rows' = [rows EXCEPT ![r] = row]
      BY <3>1
    <3> HIDE DEF row
    <3>5. rows'[r] = row /\ (\A q \in Rows \ {r} : rows'[q] = rows[q]) /\ RowsTyped'
      BY <3>2, <3>3, <3>4 DEF Inv, RowsTyped
    <3>6. Active' = Active \cup {r}
      BY <3>2, <3>3, <3>5 DEF Active
    <3>7. \A q \in Active : rows[q].steam # s /\ rows'[q] = rows[q] /\ q \in Rows
      BY <2>4, <3>2, <3>5 DEF Prioritized, Active
    <3>8. Unique'
      <4>1. \A q, t \in Active : rows[q].steam = rows[t].steam => q = t
        BY DEF Inv, Unique
      <4>2. \A q, t \in Active \cup {r} : rows'[q].steam = rows'[t].steam => q = t
        BY <3>3, <3>5, <3>7, <4>1
      <4> QED
        BY <3>6, <4>2 DEF Unique
    <3>9. "idle" \in Nexts
      BY DEF Nexts
    <3>10. Committed(p, {s}, "idle") /\ rows[r].status # "active" /\ rows'[r].steam \in {s}
      BY <3>1, <3>2, <3>3, <3>5
    <3> QED
      BY <2>1, <3>2, <3>5, <3>8, <3>9, <3>10, ThenWritingOne
  <2> QED
    BY <2>3, <2>4
<1>6. CASE HardDeleteAccount(p)
  <2> DEFINE r == call[p].row
  <2>1. call[p] \in Calls /\ call[p].evict = {}
    BY <1>6, NothingToEvict DEF HardDeleteAccount
  <2>2. CASE r \in Active \cup Deleted
    <3>1. rows' = [rows EXCEPT ![r] = Gone] /\ Committed(p, SteamsOf({r}), "insert")
      BY <1>6, <2>2 DEF HardDeleteAccount
    <3> HIDE DEF r
    <3>2. r \in Rows
      BY <2>2 DEF Active, Deleted
    <3>3. Gone \in RowType /\ Gone.status # "active"
      BY Defaults DEF Gone, RowType
    <3>4. rows'[r] = Gone /\ (\A q \in Rows \ {r} : rows'[q] = rows[q]) /\ RowsTyped'
      BY <3>1, <3>2, <3>3 DEF Inv, RowsTyped
    <3>5. Unique'
      <4>1. \A q \in Rows : rows'[q].status = "active" => rows[q].status = "active" /\ rows'[q].steam = rows[q].steam
        BY <3>3, <3>4
      <4> QED
        BY <4>1, FewerActive DEF Inv
    <3>6. rows[r].steam \in SteamsOf({r})
      BY DEF SteamsOf
    <3>7. "insert" \in Nexts
      BY DEF Nexts
    <3>8. Committed(p, SteamsOf({r}), "insert") /\ rows'[r].status # "active"
      BY <3>1, <3>3, <3>4
    <3> QED
      BY <2>1, <3>2, <3>4, <3>5, <3>6, <3>7, <3>8, ThenWritingOne
  <2>3. CASE r \notin Active \cup Deleted
    <3>1. ReadsOnly /\ Goto(p, "idle")
      BY <1>6, <2>3 DEF HardDeleteAccount
    <3> QED
      BY <2>1, <3>1, Going, RestKept DEF PCs, ReadsOnly, database
  <2> QED
    BY <2>2, <2>3
<1>7. CASE DeleteSteamAccount(p)
  <2> DEFINE r == call[p].row
             row == [rows[r] EXCEPT !.status = "deleted", !.user = TRUE, !.recent = TRUE]
  <2>1. call[p] \in Calls /\ call[p].evict = {}
    BY <1>7, NothingToEvict DEF DeleteSteamAccount
  <2>2. CASE r \in Active
    <3>1. rows' = [rows EXCEPT ![r] = row] /\ Committed(p, SteamsOf({r}), "idle")
      BY <1>7, <2>2 DEF DeleteSteamAccount
    <3>2. r \in Rows
      BY <2>2 DEF Active
    <3>3. row \in RowType /\ row.status = "deleted"
      BY <3>2 DEF Inv, RowsTyped, RowType
    <3> HIDE DEF r, row
    <3>4. rows'[r] = row /\ (\A q \in Rows \ {r} : rows'[q] = rows[q]) /\ RowsTyped'
      BY <3>1, <3>2, <3>3 DEF Inv, RowsTyped
    <3>5. Unique'
      <4>1. \A q \in Rows : rows'[q].status = "active" => rows[q].status = "active" /\ rows'[q].steam = rows[q].steam
        BY <3>3, <3>4
      <4> QED
        BY <4>1, FewerActive DEF Inv
    <3>6. rows[r].steam \in SteamsOf({r})
      BY DEF SteamsOf
    <3>7. "idle" \in Nexts
      BY DEF Nexts
    <3>8. Committed(p, SteamsOf({r}), "idle") /\ rows'[r].status # "active"
      BY <3>1, <3>3, <3>4
    <3> QED
      BY <2>1, <3>2, <3>4, <3>5, <3>6, <3>7, <3>8, ThenWritingOne
  <2>3. CASE r \notin Active
    <3>1. ReadsOnly /\ Goto(p, "idle")
      BY <1>7, <2>3 DEF DeleteSteamAccount
    <3> QED
      BY <2>1, <3>1, Going, RestKept DEF PCs, ReadsOnly, database
  <2> QED
    BY <2>2, <2>3
<1> QED
  BY <1>1, <1>2, <1>3, <1>4, <1>5, <1>6, <1>7 DEF RequestStep

-----------------------------------------------------------------------------
(* The steps of syncs.                                                     *)

LEMMA ToSoftDeleteRows ==
  ASSUME NEW m PROVE ToSoftDelete(m) \in SUBSET Rows
BY DEF ToSoftDelete, Oldest, Active

LEMMA SyncSteps ==
  ASSUME Inv, NEW p \in Procs, SyncStep(p)
  PROVE  Effect(p) /\ Untouched
<1>0. /\ AfterSync(p) \in PCs \ {"evict", "load", "keep"} /\ AfterSync(p) \in Nexts
      /\ {"idle", "active", "countActive", "listActive"} \subseteq PCs \ {"evict", "load", "keep"}
  BY DEF AfterSync, PCs, Nexts
<1>1. CASE GetMembership(p)
  <2>1. call[p] \in Calls /\ call[p].evict = {} /\ UNCHANGED rows /\ Untouched
    BY <1>1, NothingToEvict, RestKept DEF GetMembership, ReadsOnly, database
  <2> DEFINE c == [call[p] EXCEPT !.pc = "store", !.m = patreon]
  <2>2. patreon \in Memberships
    BY DEF Inv, Rest
  <2>3. c \in Calls /\ c.evict = {} /\ Reads(c)
    BY <2>1, <2>2 DEF Calls, Reads
  <2>4. call' = [call EXCEPT ![p] = c]
    BY <1>1 DEF GetMembership
  <2> HIDE DEF c
  <2> QED
    BY <2>1, <2>3, <2>4, Calling
<1>2. CASE UpdatePatronMembership(p)
  <2>1. call[p] \in Calls /\ call[p].evict = {} /\ UNCHANGED rows
    BY <1>2, NothingToEvict DEF UpdatePatronMembership
  <2>2. call[p].m \in Memberships
    BY <2>1 DEF Calls
  <2>3. Untouched
    BY <1>2, <2>2, PatronAssumption DEF UpdatePatronMembership, Fault, Untouched, Inv, Rest
  <2>4. \E pc \in {"countActive", "expire", "idle", "listActive"} : Goto(p, pc)
    BY <1>2, OnErrorIs DEF UpdatePatronMembership
  <2> QED
    BY <2>1, <2>3, <2>4, Going DEF PCs
<1>3. CASE ListActive(p)
  <2>1. call[p] \in Calls /\ call[p].evict = {} /\ UNCHANGED rows /\ Untouched
    BY <1>3, NothingToEvict, RestKept DEF ListActive, ReadsOnly, database
  <2> DEFINE ids == ToSoftDelete(call[p].m)
             pc == IF ids = {} THEN "countActive" ELSE "softDelete"
             c == [call[p] EXCEPT !.ids = ids, !.pc = pc]
  <2>2. call' = [call EXCEPT ![p] = c]
    BY <1>3 DEF ListActive
  <2>3. ids \in SUBSET Rows /\ pc \in {"countActive", "softDelete"}
    BY ToSoftDeleteRows
  <2> HIDE DEF ids, pc
  <2>4. c \in Calls /\ c.evict = {} /\ Reads(c)
    BY <2>1, <2>3 DEF Calls, Reads
  <2> HIDE DEF c
  <2> QED
    BY <2>1, <2>2, <2>4, Calling
<1>4. CASE SoftDeleteAccounts(p)
  <2> DEFINE ids == call[p].ids \cap Active
             row(r) == [rows[r] EXCEPT !.status = "deleted", !.recent = TRUE]
  <2>1. call[p] \in Calls /\ call[p].evict = {}
    BY <1>4, NothingToEvict DEF SoftDeleteAccounts
  <2>2. ids \in SUBSET Rows
    BY DEF Active
  <2>3. /\ rows' = [r \in Rows |-> IF r \in ids THEN row(r) ELSE rows[r]]
        /\ Committed(p, SteamsOf(ids), "countActive")
    BY <1>4 DEF SoftDeleteAccounts
  <2>4. \A r \in Rows : row(r) \in RowType /\ row(r).status = "deleted"
    BY DEF Inv, RowsTyped, RowType
  <2> HIDE DEF ids, row
  <2>5. \A r \in Rows : rows'[r] = IF r \in ids THEN row(r) ELSE rows[r]
    BY <2>3
  <2>6. RowsTyped'
    BY <2>3, <2>4 DEF Inv, RowsTyped
  <2>7. Unique'
    <3>1. \A q \in Rows : rows'[q].status = "active" => rows[q].status = "active" /\ rows'[q].steam = rows[q].steam
      BY <2>4, <2>5
    <3> QED
      BY <3>1, FewerActive DEF Inv
  <2>8. \A r \in Rows \ ids : rows'[r] = rows[r]
    BY <2>5
  <2>9. \A r \in ids : rows'[r].status = "active" => rows'[r].steam = rows[r].steam
    BY <2>2, <2>4, <2>5
  <2>10. Committed(p, SteamsOf(ids), "countActive") /\ "countActive" \in Nexts
    BY <2>3 DEF Nexts
  <2> QED
    BY <2>1, <2>2, <2>6, <2>7, <2>8, <2>9, <2>10, ThenWritingAll
<1>5. CASE CountForReactivation(p)
  <2>1. call[p] \in Calls /\ call[p].evict = {} /\ UNCHANGED rows /\ Untouched
    BY <1>5, NothingToEvict, RestKept DEF CountForReactivation, ReadsOnly, database
  <2>2. CASE Goto(p, AfterSync(p))
    BY <1>0, <2>1, <2>2, Going
  <2>3. CASE ~Goto(p, AfterSync(p))
    <3> DEFINE n == SlotLimit(call[p].m) - Cardinality(Active)
               c == [call[p] EXCEPT !.pc = "listDeleted", !.ids = {}, !.count = n]
    <3>1. Cardinality(Active) < SlotLimit(call[p].m) /\ call' = [call EXCEPT ![p] = c]
      BY <1>5, <2>3 DEF CountForReactivation
    <3>2. SlotLimit(call[p].m) \in Int /\ Cardinality(Active) \in Nat
      <4>1. call[p].m \in Memberships
        BY <2>1 DEF Calls
      <4> QED
        BY <4>1, Limits, Finite
    <3>3. n \in Nat
      BY <3>1, <3>2
    <3> HIDE DEF n
    <3>4. c \in Calls /\ c.evict = {} /\ Reads(c)
      BY <2>1, <3>3 DEF Calls, Reads
    <3>5. call' = [call EXCEPT ![p] = c]
      BY <3>1
    <3> HIDE DEF c
    <3> QED
      BY <2>1, <3>4, <3>5, Calling
  <2> QED
    BY <2>2, <2>3
<1>6. CASE ListDeleted(p)
  <2>1. call[p] \in Calls /\ call[p].evict = {} /\ UNCHANGED rows /\ Untouched
    BY <1>6, NothingToEvict, RestKept DEF ListDeleted, ReadsOnly, database
  <2>2. CASE Goto(p, AfterSync(p))
    BY <1>0, <2>1, <2>2, Going
  <2>3. CASE ~Goto(p, AfterSync(p))
    <3> DEFINE ids == Oldest(Reactivatable, call[p].count)
               c == [call[p] EXCEPT !.ids = ids, !.count = 0, !.pc = "reactivateAll"]
    <3>1. call' = [call EXCEPT ![p] = c]
      BY <1>6, <2>3 DEF ListDeleted
    <3>2. ids \in SUBSET Rows
      BY DEF Oldest, Reactivatable, Deleted
    <3> HIDE DEF ids
    <3>3. c \in Calls /\ c.evict = {} /\ Reads(c)
      BY <2>1, <3>2 DEF Calls, Reads
    <3> HIDE DEF c
    <3> QED
      BY <2>1, <3>1, <3>3, Calling
  <2> QED
    BY <2>2, <2>3
<1>7. CASE ReactivateAccounts(p)
  <2> DEFINE ids == call[p].ids \cap Deleted
  <2>1. call[p] \in Calls /\ call[p].evict = {}
    BY <1>7, NothingToEvict DEF ReactivateAccounts
  <2>2. ids \in SUBSET Deleted /\ ids \in SUBSET Rows
    BY DEF Deleted
  <2>3. CASE Violates(ids)
    <3>1. ReadsOnly /\ Goto(p, AfterSync(p))
      BY <1>7, <2>3 DEF ReactivateAccounts
    <3> QED
      BY <1>0, <2>1, <3>1, Going, RestKept DEF ReadsOnly, database
  <2>4. CASE ~Violates(ids)
    <3>1. /\ rows' = [r \in Rows |-> IF r \in ids THEN Reactivated(r) ELSE rows[r]]
          /\ Committed(p, SteamsOf(ids), AfterSync(p))
      BY <1>7, <2>4 DEF ReactivateAccounts
    <3> HIDE DEF ids
    <3>2. /\ RowsTyped' /\ Unique'
          /\ \A q \in Rows \ ids : rows'[q] = rows[q]
          /\ \A q \in ids : rows'[q].steam = rows[q].steam
      BY <2>2, <2>4, <3>1, ReactivatedRows
    <3>3. Committed(p, SteamsOf(ids), AfterSync(p))
      BY <3>1
    <3> QED
      BY <1>0, <2>1, <2>2, <3>2, <3>3, ThenWritingAll
  <2> QED
    BY <2>3, <2>4
<1>8. CASE HardDeleteExpiredAccounts(p)
  <2> DEFINE ids == Deleted \ InCooldown
  <2>1. call[p] \in Calls /\ call[p].evict = {}
    BY <1>8, NothingToEvict DEF HardDeleteExpiredAccounts
  <2>2. ids \in SUBSET Rows
    BY DEF Deleted
  <2>3. /\ rows' = [r \in Rows |-> IF r \in ids THEN Gone ELSE rows[r]]
        /\ Committed(p, SteamsOf(ids), "idle")
    BY <1>8 DEF HardDeleteExpiredAccounts
  <2>4. Gone \in RowType /\ Gone.status # "active"
    BY Defaults DEF Gone, RowType
  <2> HIDE DEF ids
  <2>5. \A r \in Rows : rows'[r] = IF r \in ids THEN Gone ELSE rows[r]
    BY <2>3
  <2>6. RowsTyped'
    BY <2>3, <2>4 DEF Inv, RowsTyped
  <2>7. Unique'
    <3>1. \A q \in Rows : rows'[q].status = "active" => rows[q].status = "active" /\ rows'[q].steam = rows[q].steam
      BY <2>4, <2>5
    <3> QED
      BY <3>1, FewerActive DEF Inv
  <2>8. \A r \in Rows \ ids : rows'[r] = rows[r]
    BY <2>5
  <2>9. \A r \in ids : rows'[r].status = "active" => rows'[r].steam = rows[r].steam
    BY <2>2, <2>4, <2>5
  <2>10. Committed(p, SteamsOf(ids), "idle") /\ "idle" \in Nexts
    BY <2>3 DEF Nexts
  <2> QED
    BY <2>1, <2>2, <2>6, <2>7, <2>8, <2>9, <2>10, ThenWritingAll
<1>9. CASE RefreshToken(p)
  <2>1. call[p].evict = {} /\ UNCHANGED rows /\ Untouched
    BY <1>9, NothingToEvict, RestKept DEF RefreshToken, ReadsOnly, database
  <2>2. \E pc \in {"fetch", "expire", "idle"} : Goto(p, pc)
    BY <1>9 DEF RefreshToken, AfterSync
  <2> QED
    BY <2>1, <2>2, Going DEF PCs
<1>10. CASE RetryFails(p)
  <2>1. call[p].evict = {} /\ UNCHANGED rows /\ Goto(p, "idle")
    BY <1>10, NothingToEvict DEF RetryFails, database
  <2>2. Untouched
    BY <1>10 DEF RetryFails, database, Untouched, Inv, Rest
  <2> QED
    BY <2>1, <2>2, Going DEF PCs
<1> QED
  BY <1>1, <1>2, <1>3, <1>4, <1>5, <1>6, <1>7, <1>8, <1>9, <1>10 DEF SyncStep

LEMMA FailsStep ==
  ASSUME Inv, NEW p \in Procs, Fails(p)
  PROVE  Effect(p) /\ Untouched
<1>0. /\ call[p].pc # "evict" /\ faults < MaxFaults /\ faults' = faults + 1
      /\ UNCHANGED <<rows, membership, patreon, mail, cached, stale, alone, changes>>
      /\ token' \in {token, FALSE}
      /\ retryQueue' = retryQueue + (IF call[p].pc = "fetch" /\ call[p].kind = "verify" THEN 1 ELSE 0)
  BY DEF Fails, Fault, database
<1>1. call[p].evict = {}
  BY <1>0, NothingToEvict
<1>2. Untouched
  <2>1. retryQueue' \in {retryQueue, retryQueue + 1}
    BY <1>0 DEF Inv, Rest
  <2>2. retryQueue' \in Nat /\ faults' \in 0..MaxFaults
    BY <1>0, <2>1, PatronAssumption DEF Inv, Rest
  <2>3. token' \in BOOLEAN
    BY <1>0 DEF Inv, Rest
  <2> QED
    BY <1>0, <2>2, <2>3 DEF Inv, Rest, Untouched
<1>3. \E pc \in {"countActive", "expire", "idle"} : Goto(p, pc)
  BY OnErrorIs DEF Fails
<1> QED
  BY <1>0, <1>1, <1>2, <1>3, Going DEF PCs

\* Whoever is dropped leaves a mark on the entries it would have removed.
LEMMA DroppedStep ==
  ASSUME Inv, NEW p \in Procs, Dropped(p)
  PROVE  Inv'
<1>1. /\ call' = [call EXCEPT ![p] = Idle]
      /\ stale' = stale \cup {s \in call[p].evict : Disagrees(s)}
      /\ UNCHANGED <<rows, membership, patreon, mail, cached, alone, retryQueue, token, changes, faults>>
  BY DEF Dropped, database
<1>2. CallsTyped' /\ call'[p] = Idle /\ \A q \in Procs \ {p} : call'[q] = call[q]
  BY <1>1, Defaults, OneCall DEF Inv
<1>3. EvictsThere' /\ ReadsWatched'
  BY <1>2, Defaults DEF Inv, EvictsThere, ReadsWatched, Reads
<1>4. RowsTyped' /\ Unique' /\ \A t \in Watched : Disagrees(t)' <=> Disagrees(t)
  BY <1>1 DEF Inv, RowsTyped, Unique, Active, Disagrees, Prioritized
<1>5. Rest'
  <2>1. call[p].evict \subseteq Watched
    BY DEF Inv, CallsTyped, Calls
  <2> QED
    BY <1>1, <2>1 DEF Inv, Rest
<1>6. CacheIsExact'
  <2> SUFFICES ASSUME NEW t \in Watched \ stale', Disagrees(t)'
               PROVE  \E q \in Procs : t \in call'[q].evict
    BY DEF CacheIsExact
  <2>1. Disagrees(t) /\ t \notin stale /\ t \notin call[p].evict
    BY <1>1, <1>4
  <2>2. PICK q \in Procs : t \in call[q].evict
    BY <2>1 DEF Inv, CacheIsExact
  <2> QED
    BY <1>2, <2>1, <2>2
<1> QED
  BY <1>2, <1>3, <1>4, <1>5, <1>6 DEF Inv

-----------------------------------------------------------------------------
(* Calls that begin.                                                       *)

LEMMA Beginning ==
  ASSUME Inv, NEW p \in Procs, NEW c \in Calls, Begin(p, c)
  PROVE  /\ call[p].evict = {} /\ call' = [call EXCEPT ![p] = c] /\ alone' \subseteq Procs
<1>1. call[p] = Idle
  BY DEF Begin, UnderWay
<1>2. alone \subseteq Procs
  BY DEF Inv, Rest
<1> QED
  BY <1>1, <1>2, Defaults DEF Begin

LEMMA RequestStarts ==
  ASSUME Inv, NEW p \in Requests, Request(p)
  PROVE  Effect(p) /\ Untouched
<1>0. p \in Procs
  BY DEF Procs
<1>1. CASE \E s \in Steams : StartAdd(p, s)
  <2>1. PICK s \in Steams : StartAdd(p, s)
    BY <1>1
  <2> DEFINE c == [Idle EXCEPT !.pc = "find", !.kind = "add", !.steam = s, !.limit = SlotLimit(membership)]
  <2>2. SlotLimit(membership) \in Int
    BY Limits DEF Inv, Rest
  <2>3. c \in Calls /\ c.evict = {} /\ Reads(c)
    BY <2>2, Defaults DEF Calls, Reads
  <2>4. Begin(p, c) /\ UNCHANGED <<rows, membership, patreon, mail, cached, stale, retryQueue, token, changes, faults>>
    BY <2>1 DEF StartAdd, database
  <2> HIDE DEF c
  <2>5. call[p].evict = {} /\ call' = [call EXCEPT ![p] = c] /\ alone' \subseteq Procs
    BY <1>0, <2>3, <2>4, Beginning
  <2>6. Untouched
    BY <2>4, <2>5 DEF Inv, Rest, Untouched
  <2> QED
    BY <1>0, <2>3, <2>4, <2>5, <2>6, Calling
<1>2. CASE \E r \in Rows : StartDelete(p, r)
  <2>1. PICK r \in Rows : StartDelete(p, r)
    BY <1>2
  <2> DEFINE c == [Idle EXCEPT !.pc = "delete", !.kind = "delete", !.row = r]
  <2>2. r \in 0..MaxRows
    BY PatronAssumption DEF Rows
  <2>3. c \in Calls /\ c.evict = {} /\ Reads(c)
    BY <2>2, Defaults DEF Calls, Reads
  <2>4. Begin(p, c) /\ UNCHANGED <<rows, membership, patreon, mail, cached, stale, retryQueue, token, changes, faults>>
    BY <2>1 DEF StartDelete, database
  <2> HIDE DEF c
  <2>5. call[p].evict = {} /\ call' = [call EXCEPT ![p] = c] /\ alone' \subseteq Procs
    BY <1>0, <2>3, <2>4, Beginning
  <2>6. Untouched
    BY <2>4, <2>5 DEF Inv, Rest, Untouched
  <2> QED
    BY <1>0, <2>3, <2>4, <2>5, <2>6, Calling
<1>3. CASE \E r \in Rows : StartReactivate(p, r)
  <2>1. PICK r \in Rows : StartReactivate(p, r)
    BY <1>3
  <2> DEFINE c == [Idle EXCEPT !.pc = "active", !.kind = "reactivate", !.row = r,
                               !.own = rows[r].recent, !.limit = SlotLimit(membership)]
  <2>2. SlotLimit(membership) \in Int /\ rows[r].recent \in BOOLEAN /\ r \in 0..MaxRows
    BY Limits, PatronAssumption DEF Inv, Rest, RowsTyped, RowType, Rows
  <2>3. c \in Calls /\ c.evict = {} /\ Reads(c)
    BY <2>2, Defaults DEF Calls, Reads
  <2>4. Begin(p, c) /\ UNCHANGED <<rows, membership, patreon, mail, cached, stale, retryQueue, token, changes, faults>>
    BY <2>1 DEF StartReactivate, database
  <2> HIDE DEF c
  <2>5. call[p].evict = {} /\ call' = [call EXCEPT ![p] = c] /\ alone' \subseteq Procs
    BY <1>0, <2>3, <2>4, Beginning
  <2>6. Untouched
    BY <2>4, <2>5 DEF Inv, Rest, Untouched
  <2> QED
    BY <1>0, <2>3, <2>4, <2>5, <2>6, Calling
<1>4. CASE \E r \in Rows, s \in Steams : StartReplace(p, r, s)
  <2>1. PICK r \in Rows, s \in Steams : StartReplace(p, r, s)
    BY <1>4
  <2> DEFINE c == [Idle EXCEPT !.pc = "hardDelete", !.kind = "replace", !.row = r, !.steam = s]
  <2>2. r \in 0..MaxRows
    BY PatronAssumption DEF Rows
  <2>3. c \in Calls /\ c.evict = {} /\ Reads(c)
    BY <2>2, Defaults DEF Calls, Reads
  <2>4. Begin(p, c) /\ UNCHANGED <<rows, membership, patreon, mail, cached, stale, retryQueue, token, changes, faults>>
    BY <2>1 DEF StartReplace, database
  <2> HIDE DEF c
  <2>5. call[p].evict = {} /\ call' = [call EXCEPT ![p] = c] /\ alone' \subseteq Procs
    BY <1>0, <2>3, <2>4, Beginning
  <2>6. Untouched
    BY <2>4, <2>5 DEF Inv, Rest, Untouched
  <2> QED
    BY <1>0, <2>3, <2>4, <2>5, <2>6, Calling
<1> QED
  BY <1>1, <1>2, <1>3, <1>4 DEF Request

LEMMA SyncStarts ==
  ASSUME Inv, NEW p \in Procs,
         StartRetry(p) \/ StartLogin(p) \/ StartWebhook(p) \/ (p = "verify" /\ StartVerification)
  PROVE  Effect(p) /\ Untouched
<1>1. \E c \in Calls : c.evict = {} /\ Reads(c) /\ Begin(p, c)
  <2>1. CASE StartRetry(p)
    <3> DEFINE c == [Idle EXCEPT !.pc = "fetch", !.kind = "retry"]
    <3>1. c \in Calls /\ c.evict = {} /\ Reads(c)
      BY Defaults DEF Calls, Reads
    <3> QED
      BY <2>1, <3>1 DEF StartRetry
  <2>2. CASE StartLogin(p)
    <3> DEFINE c == [Idle EXCEPT !.pc = "fetch", !.kind = "login"]
    <3>1. c \in Calls /\ c.evict = {} /\ Reads(c)
      BY Defaults DEF Calls, Reads
    <3> QED
      BY <2>2, <3>1 DEF StartLogin
  <2>3. CASE StartWebhook(p)
    <3>1. PICK m \in mail : Begin(p, [Idle EXCEPT !.pc = "store", !.kind = "webhook", !.m = m])
      BY <2>3 DEF StartWebhook
    <3>2. m \in Memberships
      BY DEF Inv, Rest
    <3> DEFINE c == [Idle EXCEPT !.pc = "store", !.kind = "webhook", !.m = m]
    <3>3. c \in Calls /\ c.evict = {} /\ Reads(c)
      BY <3>2, Defaults DEF Calls, Reads
    <3> QED
      BY <3>1, <3>3
  <2>4. CASE p = "verify" /\ StartVerification
    <3> DEFINE c == [Idle EXCEPT !.pc = "refresh", !.kind = "verify"]
    <3>1. c \in Calls /\ c.evict = {} /\ Reads(c)
      BY Defaults DEF Calls, Reads
    <3> QED
      BY <2>4, <3>1 DEF StartVerification
  <2> QED
    BY <2>1, <2>2, <2>3, <2>4
<1>2. PICK c \in Calls : c.evict = {} /\ Reads(c) /\ Begin(p, c)
  BY <1>1
<1>3. call[p].evict = {} /\ call' = [call EXCEPT ![p] = c] /\ alone' \subseteq Procs
  BY <1>2, Beginning
<1>4. /\ UNCHANGED <<rows, membership, patreon, cached, stale, token, changes, faults>>
      /\ mail' \subseteq mail
      /\ retryQueue' = retryQueue \/ (retryQueue > 0 /\ retryQueue' = retryQueue - 1)
  BY DEF StartRetry, StartLogin, StartWebhook, StartVerification, database
<1>5. Untouched
  <2>1. retryQueue' \in Nat
    BY <1>4 DEF Inv, Rest
  <2> QED
    BY <1>3, <1>4, <2>1 DEF Inv, Rest, Untouched
<1> QED
  BY <1>2, <1>3, <1>4, <1>5, Calling

-----------------------------------------------------------------------------
(* The cache.                                                              *)

LEMMA ReaderSteps ==
  ASSUME Inv, NEW p \in Procs, Load(p) \/ \E s \in Watched : StartRead(p, s)
  PROVE  Effect(p) /\ Untouched
<1>1. CASE Load(p)
  <2>1. call[p] \in Calls /\ call[p].evict = {} /\ UNCHANGED rows /\ Untouched
    BY <1>1, NothingToEvict, RestKept DEF Load, ReadsOnly, database
  <2> DEFINE own == Prioritized(call[p].steam)
             c == [call[p] EXCEPT !.pc = "keep", !.own = own]
  <2>2. own \in BOOLEAN /\ call[p].steam \in Watched
    BY <1>1 DEF Prioritized, Load, Inv, ReadsWatched, Reads
  <2>3. call' = [call EXCEPT ![p] = c]
    BY <1>1 DEF Load
  <2> HIDE DEF own
  <2>4. c \in Calls /\ c.evict = {} /\ Reads(c)
    BY <2>1, <2>2 DEF Calls, Reads
  <2> HIDE DEF c
  <2> QED
    BY <2>1, <2>3, <2>4, Calling
<1>2. CASE \E s \in Watched : StartRead(p, s)
  <2>1. PICK s \in Watched : StartRead(p, s)
    BY <1>2
  <2> DEFINE c == [Idle EXCEPT !.pc = "load", !.kind = "read", !.steam = s]
  <2>2. s \in Steams
    BY PatronAssumption
  <2>3. c \in Calls /\ c.evict = {} /\ Reads(c)
    BY <2>2, Defaults DEF Calls, Reads
  <2>4. Begin(p, c) /\ UNCHANGED <<rows, membership, patreon, mail, cached, stale, retryQueue, token, changes, faults>>
    BY <2>1 DEF StartRead, database
  <2> HIDE DEF c
  <2>5. call[p].evict = {} /\ call' = [call EXCEPT ![p] = c] /\ alone' \subseteq Procs
    BY <2>3, <2>4, Beginning
  <2>6. Untouched
    BY <2>4, <2>5 DEF Inv, Rest, Untouched
  <2> QED
    BY <2>3, <2>4, <2>5, <2>6, Calling
<1> QED
  BY <1>1, <1>2

\* Rows that are the same to the cache and to the index.
LEMMA SameRows ==
  ASSUME Inv, UNCHANGED rows
  PROVE  RowsTyped' /\ Unique' /\ \A s \in Watched : Prioritized(s)' <=> Prioritized(s)
BY DEF Inv, RowsTyped, Unique, Prioritized, Active

\* What a loader keeps is marked when the row has changed since.
LEMMA KeepStep ==
  ASSUME Inv, NEW p \in Procs, Keep(p)
  PROVE  Inv'
<1> DEFINE s == call[p].steam
           answer == IF call[p].own THEN "yes" ELSE "no"
<1>1. /\ cached' = [cached EXCEPT ![s] = answer]
      /\ stale' = IF call[p].own = Prioritized(s) THEN stale \ {s} ELSE stale \cup {s}
      /\ Goto(p, "idle") /\ call[p].pc # "evict"
      /\ UNCHANGED <<rows, membership, patreon, mail, alone, retryQueue, token, changes, faults>>
  BY DEF Keep, database
<1>2. call[p] \in Calls /\ call[p].evict = {}
  BY <1>1, NothingToEvict
<1>3. /\ CallsTyped' /\ call'[p].evict = {} /\ call'[p].pc = "idle"
      /\ \A q \in Procs \ {p} : call'[q] = call[q]
  BY <1>1, GotoGoes DEF PCs, Inv
<1>4. EvictsThere' /\ ReadsWatched' /\ \A q \in Procs : call'[q].evict = call[q].evict
  BY <1>2, <1>3 DEF EvictsThere, ReadsWatched, Reads, Inv
<1>5. RowsTyped' /\ Unique' /\ \A t \in Watched : Prioritized(t)' <=> Prioritized(t)
  BY <1>1, SameRows
<1>6. s \in Watched
  BY DEF Keep, Inv, ReadsWatched, Reads
<1>7. QED
  <2>1. answer \in {"yes", "no"}
    OBVIOUS
  <2>2. Rest'
    BY <1>1, <1>6, <2>1 DEF Inv, Rest
  <2>3. s \notin stale' => (answer = "yes" <=> Prioritized(s))
    BY <1>1
  <2>4. cached'[s] = answer /\ \A t \in Watched \ {s} : cached'[t] = cached[t] /\ (t \in stale' <=> t \in stale)
    BY <1>1, <1>6 DEF Inv, Rest
  <2> HIDE DEF answer, s
  <2>5. CacheIsExact'
    <3> SUFFICES ASSUME NEW t \in Watched \ stale', Disagrees(t)'
                 PROVE  \E q \in Procs : t \in call'[q].evict
      BY DEF CacheIsExact
    <3>1. CASE t = s
      BY <1>5, <2>3, <2>4, <3>1 DEF Disagrees
    <3>2. CASE t # s
      <4>1. Disagrees(t) /\ t \notin stale
        BY <1>5, <2>4, <3>2 DEF Disagrees
      <4> QED
        BY <1>4, <4>1 DEF Inv, CacheIsExact
    <3> QED
      BY <3>1, <3>2
  <2> QED
    BY <1>3, <1>4, <1>5, <2>2, <2>5 DEF Inv

\* An entry goes with its mark, and the call forgets it.
LEMMA EvictStep ==
  ASSUME Inv, NEW p \in Procs, Evict(p)
  PROVE  Inv'
<1>1. PICK s \in call[p].evict :
          /\ cached' = [cached EXCEPT ![s] = "none"]
          /\ stale' = stale \ {s}
          /\ IF call[p].evict = {s} THEN Goto(p, call[p].then)
             ELSE call' = [call EXCEPT ![p] = [call[p] EXCEPT !.evict = call[p].evict \ {s}]]
  BY DEF Evict
<1>2. call[p].pc = "evict" /\ UNCHANGED <<rows, membership, patreon, mail, alone, retryQueue, token, changes, faults>>
  BY DEF Evict, database
<1>3. call[p] \in Calls /\ s \in Watched /\ call[p].then \in PCs \ {"evict", "load", "keep"}
  BY DEF Inv, CallsTyped, Calls, PCs
<1>4. /\ CallsTyped' /\ \A q \in Procs \ {p} : call'[q] = call[q]
      /\ call[p].evict \ {s} \subseteq call'[p].evict
      /\ call'[p].pc # "evict" => call'[p].evict = {}
      /\ Reads(call'[p])
  <2>1. CASE call[p].evict = {s}
    BY <1>1, <1>3, <2>1, GotoGoes DEF Inv, Reads
  <2>2. CASE call[p].evict # {s}
    <3> DEFINE c == [call[p] EXCEPT !.evict = call[p].evict \ {s}]
    <3>1. call[p].evict \ {s} \in SUBSET Watched
      BY <1>3 DEF Calls
    <3>2. c \in Calls /\ c.evict = call[p].evict \ {s} /\ c.pc = "evict"
      BY <1>2, <1>3, <3>1 DEF Calls
    <3>3. call' = [call EXCEPT ![p] = c]
      BY <1>1, <2>2
    <3> HIDE DEF c
    <3> QED
      BY <3>2, <3>3, OneCall DEF Inv, Reads
  <2> QED
    BY <2>1, <2>2
<1>5. RowsTyped' /\ Unique' /\ \A t \in Watched : Prioritized(t)' <=> Prioritized(t)
  BY <1>2, SameRows
<1>6. EvictsThere' /\ ReadsWatched'
  BY <1>4 DEF Inv, EvictsThere, ReadsWatched, Reads
<1>7. Rest'
  BY <1>1, <1>2, <1>3 DEF Inv, Rest
<1>8. cached'[s] = "none" /\ \A t \in Watched \ {s} : cached'[t] = cached[t] /\ (t \in stale' <=> t \in stale)
  BY <1>1, <1>3 DEF Inv, Rest
<1>9. CacheIsExact'
  <2> SUFFICES ASSUME NEW t \in Watched \ stale', Disagrees(t)'
               PROVE  \E q \in Procs : t \in call'[q].evict
    BY DEF CacheIsExact
  <2>1. t # s /\ cached'[t] = cached[t] /\ t \notin stale
    BY <1>8 DEF Disagrees
  <2>2. Disagrees(t)
    BY <1>5, <2>1 DEF Disagrees
  <2>3. PICK q \in Procs : t \in call[q].evict
    BY <2>1, <2>2 DEF Inv, CacheIsExact
  <2> QED
    BY <1>4, <2>1, <2>3
<1> QED
  BY <1>4, <1>5, <1>6, <1>7, <1>9 DEF Inv

LEMMA TtlStep ==
  ASSUME Inv, NEW s \in Watched, TtlEnds(s)
  PROVE  Inv'
<1>1. /\ cached' = [cached EXCEPT ![s] = "none"] /\ stale' = stale \ {s}
      /\ UNCHANGED <<rows, membership, patreon, mail, call, alone, retryQueue, token, changes, faults>>
  BY DEF TtlEnds, database
<1>2. RowsTyped' /\ Unique' /\ \A t \in Watched : Prioritized(t)' <=> Prioritized(t)
  BY <1>1, SameRows
<1>3. Rest' /\ CallsTyped' /\ EvictsThere' /\ ReadsWatched'
  BY <1>1 DEF Inv, Rest, CallsTyped, EvictsThere, ReadsWatched, Reads
<1>4. cached'[s] = "none" /\ \A t \in Watched \ {s} : cached'[t] = cached[t] /\ (t \in stale' <=> t \in stale)
  BY <1>1 DEF Inv, Rest
<1>5. CacheIsExact'
  BY <1>1, <1>2, <1>4 DEF CacheIsExact, Disagrees, Inv
<1> QED
  BY <1>2, <1>3, <1>5 DEF Inv

\* The end of a cooldown is nothing to the cache.
LEMMA CooldownStep ==
  ASSUME Inv, NEW r \in Rows, CooldownEnds(r)
  PROVE  Inv'
<1> DEFINE row == [rows[r] EXCEPT !.recent = FALSE]
<1>1. /\ rows' = [rows EXCEPT ![r] = row] /\ alone' = {}
      /\ UNCHANGED <<membership, patreon, mail, call, cached, stale, retryQueue, token, changes, faults>>
  BY DEF CooldownEnds
<1>2. row \in RowType /\ row.steam = rows[r].steam /\ row.status = rows[r].status
  BY DEF Inv, RowsTyped, RowType
<1> HIDE DEF row
<1>3. RowsTyped' /\ \A q \in Rows : rows'[q].steam = rows[q].steam /\ rows'[q].status = rows[q].status
  BY <1>1, <1>2 DEF Inv, RowsTyped
<1>4. Unique' /\ \A t \in Watched : Prioritized(t)' <=> Prioritized(t)
  BY <1>3 DEF Inv, Unique, Prioritized, Active
<1>5. Rest' /\ CallsTyped' /\ EvictsThere' /\ ReadsWatched'
  BY <1>1 DEF Inv, Rest, CallsTyped, EvictsThere, ReadsWatched, Reads
<1>6. CacheIsExact'
  BY <1>1, <1>4 DEF CacheIsExact, Disagrees, Inv
<1> QED
  BY <1>3, <1>4, <1>5, <1>6 DEF Inv

LEMMA QuietStep ==
  ASSUME Inv, MembershipChanges \/ UNCHANGED vars
  PROVE  Inv'
<1>1. UNCHANGED <<rows, membership, call, cached, stale, alone, retryQueue, token, faults>>
  BY DEF MembershipChanges, vars, database
<1>2. Rest'
  <2>1. CASE MembershipChanges
    <3>1. changes' \in 0..MaxChanges /\ patreon' \in Memberships /\ mail' = mail \cup {patreon'}
      BY <2>1, PatronAssumption DEF MembershipChanges, Inv, Rest
    <3> QED
      BY <1>1, <3>1 DEF Inv, Rest
  <2>2. CASE UNCHANGED vars
    BY <2>2 DEF vars, database, Inv, Rest
  <2> QED
    BY <2>1, <2>2
<1>3. RowsTyped' /\ Unique' /\ \A t \in Watched : Prioritized(t)' <=> Prioritized(t)
  BY <1>1, SameRows
<1>4. CallsTyped' /\ EvictsThere' /\ ReadsWatched' /\ CacheIsExact'
  BY <1>1, <1>3 DEF Inv, CallsTyped, EvictsThere, ReadsWatched, Reads, CacheIsExact, Disagrees
<1> QED
  BY <1>2, <1>3, <1>4 DEF Inv

-----------------------------------------------------------------------------
LEMMA InvStart ==
  ASSUME Init PROVE Inv
<1>1. Rest
  BY PatronAssumption DEF Init, Rest
<1>2. RowsTyped /\ \A r \in Rows : rows[r].status = "unused"
  BY Defaults DEF Init, RowsTyped, RowType
<1>3. Unique
  BY <1>2 DEF Unique, Active
<1>4. CallsTyped /\ EvictsThere /\ ReadsWatched
  BY Defaults DEF Init, CallsTyped, EvictsThere, ReadsWatched, Reads
<1>5. CacheIsExact
  BY DEF Init, CacheIsExact, Disagrees
<1> QED
  BY <1>1, <1>2, <1>3, <1>4, <1>5 DEF Inv

LEMMA InvStep ==
  ASSUME Inv, [Next]_vars PROVE Inv'
<1>0. ASSUME NEW p \in Procs, Effect(p) /\ Untouched PROVE Inv'
  BY <1>0, EffectKeeps
<1>1. CASE \E p \in Requests : Request(p)
  BY <1>0, <1>1, RequestStarts DEF Procs
<1>2. CASE \E p \in Tasks : StartWebhook(p) \/ StartRetry(p) \/ StartLogin(p)
  BY <1>0, <1>2, SyncStarts DEF Procs, Syncs
<1>3. CASE StartVerification
  BY <1>0, <1>3, SyncStarts DEF Procs, Syncs
<1>4. CASE \E p \in Readers, s \in Watched : StartRead(p, s)
  BY <1>0, <1>4, ReaderSteps DEF Procs
<1>5. CASE \E p \in Procs : Step(p) \/ Fails(p) \/ Dropped(p)
  BY <1>0, <1>5, RequestSteps, SyncSteps, ReaderSteps, KeepStep, EvictStep, FailsStep, DroppedStep DEF Step
<1>6. CASE \E s \in Watched : TtlEnds(s)
  BY <1>6, TtlStep
<1>7. CASE \E r \in Rows : CooldownEnds(r)
  BY <1>7, CooldownStep
<1>8. CASE MembershipChanges \/ UNCHANGED vars
  BY <1>8, QuietStep
<1> QED
  BY <1>1, <1>2, <1>3, <1>4, <1>5, <1>6, <1>7, <1>8 DEF Next

\* TypeOK with the partial unique index, which every statement respects or fails
\* (08_prioritized_accounts.sql:44-48, steam_accounts_repository.rs).
THEOREM TypeTheorem == Spec => []TypeOK
<1>1. Inv => TypeOK
  BY DEF Inv, Rest, RowsTyped, RowType, CallsTyped, Unique, TypeOK
<1> QED
  BY InvStart, InvStep, <1>1, PTL DEF Spec

\* Every writer of a row, alone or in a batch, removes the entries of its account; what may
\* be outdated is what a loader kept across a write (mod.rs:14-38, the loops after each
\* statement of steam_accounts_repository.rs).
THEOREM CacheTheorem == Spec => []CacheIsExact
<1>1. Inv => CacheIsExact
  BY DEF Inv
<1> QED
  BY InvStart, InvStep, <1>1, PTL DEF Spec

-----------------------------------------------------------------------------
(* What a call that nothing interrupts may rely on.                        *)

\* The statements of a request.
Checking == {"find", "active", "cooldown", "reactivate", "insert", "delete", "hardDelete"}

\* Who executes what: readers only read, syncs do not run the statements of requests, and
\* an insertion without a check is that of a replacement.
Fits(p) ==
    /\ p \in Readers => call[p].pc \in {"idle", "load", "keep"}
    /\ p \in Syncs => call[p].pc \notin Checking /\ call[p].then # "insert"
    /\ call[p].pc = "hardDelete" \/ call[p].then = "insert" => call[p].kind = "replace"
    /\ call[p].then = "insert" => call[p].pc = "evict"

\* The call that is alone is the only one that writes.
Lonely == \A p \in alone : p \notin Readers /\ \A q \in Procs \ Readers : q # p => call[q] = Idle

\* What p has read of the rows is still so, and what it has concluded from it.
UpToDate(p) ==
    /\ call[p].pc = "reactivateAll" => \A r \in call[p].ids \cap Deleted : ~rows[r].user
    /\ call[p].pc \in {"find", "active", "cooldown"} /\ call[p].own => call[p].row # 0
    /\ call[p].pc = "cooldown" => call[p].count = Cardinality(Active)
    /\ call[p].pc = "insert" /\ call[p].kind \in {"add", "reactivate"} => Used < call[p].limit
    /\ call[p].pc = "reactivate" /\ call[p].row \in Deleted =>
          call[p].row \in InCooldown \/ Used < call[p].limit

Careful == (\A p \in Procs : Fits(p)) /\ Lonely /\ \A p \in alone : UpToDate(p)

LEMMA GotoIs ==
  ASSUME CallsTyped, NEW p \in Procs, NEW pc, pc # "idle", Goto(p, pc)
  PROVE  LET c == call[p]
             d == call'[p]
         IN  /\ d.pc = pc /\ d.then = "idle" /\ d.kind = c.kind /\ d.row = c.row
             /\ d.own = c.own /\ d.limit = c.limit
<1>1. call[p] \in Calls /\ call'[p] = [call[p] EXCEPT !.pc = pc, !.evict = {}, !.then = "idle"]
  BY DEF Goto, CallsTyped
<1> QED
  BY <1>1 DEF Calls

LEMMA WhenIdle ==
  ASSUME NEW p, call'[p] = Idle
  PROVE  Fits(p)' /\ UpToDate(p)'
BY DEF Idle, Fits, UpToDate, Checking

LEMMA GoneIdle ==
  ASSUME CallsTyped, NEW p \in Procs, Goto(p, "idle")
  PROVE  Fits(p)' /\ UpToDate(p)'
<1>1. call'[p] = Idle
  BY DEF Goto, CallsTyped
<1> QED
  BY <1>1, WhenIdle

LEMMA AfterEvictionGoes ==
  ASSUME NEW c \in Calls, NEW steams, NEW next \in Nexts
  PROVE  LET d == AfterEviction(c, steams, next)
         IN  \/ d.pc = "evict" /\ d.then = next /\ d.kind = c.kind
             \/ d.pc = next /\ d.then = c.then /\ d.kind = c.kind
             \/ d = Idle /\ next = "idle"
<1>1. CASE Evicting(steams) # {}
  <2>1. AfterEviction(c, steams, next)
          = [c EXCEPT !.pc = "evict", !.ids = {}, !.evict = Evicting(steams), !.then = next]
    BY <1>1 DEF AfterEviction
  <2> QED
    BY <2>1 DEF Calls
<1>2. CASE Evicting(steams) = {} /\ next # "idle"
  <2>1. AfterEviction(c, steams, next) = [c EXCEPT !.pc = next, !.ids = {}]
    BY <1>2 DEF AfterEviction
  <2> QED
    BY <2>1 DEF Calls
<1>3. CASE Evicting(steams) = {} /\ next = "idle"
  BY <1>3 DEF AfterEviction
<1> QED
  BY <1>1, <1>2, <1>3

LEMMA AfterWriting ==
  ASSUME CallsTyped, NEW p \in Procs, p \notin Readers, NEW c \in Calls, NEW steams, NEW next \in Nexts,
         call' = [call EXCEPT ![p] = AfterEviction(c, steams, next)], c.then # "insert",
         next = "insert" => c.kind = "replace" /\ p \notin Syncs
  PROVE  Fits(p)' /\ UpToDate(p)'
<1>1. call'[p] = AfterEviction(c, steams, next)
  BY DEF CallsTyped
<1>2. CASE call'[p] = Idle
  BY <1>2, WhenIdle
<1>3. CASE call'[p] # Idle
  <2>1. /\ \/ call'[p].pc = "evict" /\ call'[p].then = next
           \/ call'[p].pc = next /\ call'[p].then = c.then
        /\ call'[p].kind = c.kind
    BY <1>1, <1>3, AfterEvictionGoes
  <2>2. Fits(p)'
    BY <2>1 DEF Fits, Checking, Nexts
  <2>3. UpToDate(p)'
    BY <2>1 DEF UpToDate, Nexts
  <2> QED
    BY <2>2, <2>3
<1> QED
  BY <1>2, <1>3

\* Statements that rely on nothing read before.
LEMMA Elsewhere ==
  ASSUME NEW p, p \notin Readers, call'[p].pc \notin Checking \cup {"reactivateAll"},
         call'[p].then # "insert"
  PROVE  Fits(p)' /\ UpToDate(p)'
<1>1. Fits(p)'
  BY DEF Fits, Checking
<1>2. UpToDate(p)'
  BY DEF UpToDate, Checking
<1> QED
  BY <1>1, <1>2

LEMMA GoesElsewhere ==
  ASSUME CallsTyped, NEW p \in Procs, p \notin Readers,
         NEW pc, pc \notin Checking \cup {"reactivateAll"}, Goto(p, pc)
  PROVE  Fits(p)' /\ UpToDate(p)'
<1>1. CASE pc = "idle"
  BY <1>1, GoneIdle
<1>2. CASE pc # "idle"
  <2>1. call'[p].pc = pc /\ call'[p].then = "idle"
    BY <1>2, GotoIs
  <2> QED
    BY <2>1, Elsewhere
<1> QED
  BY <1>1, <1>2

LEMMA ThenAfterWriting ==
  ASSUME CallsTyped, NEW p \in Procs, p \notin Readers, NEW steams, NEW next \in Nexts,
         Committed(p, steams, next), call[p].then # "insert",
         next = "insert" => call[p].kind = "replace" /\ p \notin Syncs
  PROVE  Fits(p)' /\ UpToDate(p)'
<1>1. call[p] \in Calls
  BY DEF CallsTyped
<1>2. CASE ThenEvict(p, steams, next)
  <2>1. call' = [call EXCEPT ![p] = AfterEviction(call[p], steams, next)]
    BY <1>2 DEF ThenEvict
  <2> QED
    BY <1>1, <2>1, AfterWriting
<1>3. CASE Goto(p, OnError(p))
  BY <1>3, OnErrorIs, GoesElsewhere DEF Checking
<1> QED
  BY <1>2, <1>3 DEF Committed

\* The statements of a request: what they count is what the rows hold, until it writes.
LEMMA CarefulRequest ==
  ASSUME Inv, Careful, NEW p \in Procs, RequestStep(p)
  PROVE  Fits(p)' /\ (p \in alone => UpToDate(p)')
<1>1. call[p].pc \in Checking
  BY DEF RequestStep, FindDeleted, CountActive, CountCooldown, ReactivateAccount, AddSteamAccount,
         DeleteSteamAccount, HardDeleteAccount, Checking
<1>2. Fits(p) /\ call[p] \in Calls /\ CallsTyped
  BY DEF Careful, Inv, CallsTyped
<1>3. p \notin Readers /\ p \notin Syncs
  BY <1>1, <1>2 DEF Fits, Checking
<1>4. p \in alone => UpToDate(p)
  BY DEF Careful
<1>5. ASSUME NEW pc \in {"active", "cooldown", "insert", "reactivate"},
             call'[p].pc = pc, call'[p].kind = call[p].kind,
             call'[p].then \in {call[p].then, "idle"}
      PROVE  Fits(p)'
  BY <1>1, <1>2, <1>3, <1>5 DEF Fits, Checking
<1>6. CASE FindDeleted(p)
  <2>0. UNCHANGED rows /\ call[p].pc = "find"
    BY <1>6 DEF FindDeleted, ReadsOnly, database
  <2>1. CASE Goto(p, "active")
    <3>1. /\ call'[p].pc = "active" /\ call'[p].then = "idle" /\ call'[p].kind = call[p].kind
          /\ call'[p].row = call[p].row /\ call'[p].own = call[p].own
      BY <1>2, <2>1, GotoIs
    <3>2. Fits(p)'
      BY <3>1, <1>5
    <3>3. p \in alone => UpToDate(p)'
      BY <2>0, <3>1, <1>4 DEF UpToDate
    <3> QED
      BY <3>2, <3>3
  <2>2. CASE \E r \in Deleted : call' = [call EXCEPT ![p] =
                 [@ EXCEPT !.row = r, !.pc = IF rows[r].recent THEN "reactivate" ELSE "active"]]
    <3>1. PICK r \in Deleted : call' = [call EXCEPT ![p] =
                 [call[p] EXCEPT !.row = r, !.pc = IF rows[r].recent THEN "reactivate" ELSE "active"]]
      BY <2>2
    <3> DEFINE pc == IF rows[r].recent THEN "reactivate" ELSE "active"
    <3>2. call'[p] = [call[p] EXCEPT !.row = r, !.pc = pc]
      BY <1>2, <3>1 DEF CallsTyped
    <3>3. pc \in {"reactivate", "active"} /\ (pc = "reactivate" => r \in InCooldown)
      BY DEF InCooldown
    <3> HIDE DEF pc
    <3>4. /\ call'[p].pc = pc /\ call'[p].row = r /\ call'[p].kind = call[p].kind
          /\ call'[p].then = call[p].then
      BY <1>2, <3>2 DEF Calls
    <3>5. Fits(p)'
      BY <3>3, <3>4, <1>5
    <3>6. r # 0 /\ (r \in InCooldown <=> (r \in InCooldown)')
      BY <2>0, PatronAssumption DEF Deleted, InCooldown, Rows
    <3>7. UpToDate(p)'
      BY <3>3, <3>4, <3>6 DEF UpToDate
    <3> QED
      BY <3>5, <3>7
  <2> QED
    BY <1>6, <2>1, <2>2 DEF FindDeleted
<1>7. CASE CountActive(p)
  <2>0. UNCHANGED rows /\ call[p].pc = "active"
    BY <1>7 DEF CountActive, ReadsOnly, database
  <2>1. call'[p] = [call[p] EXCEPT !.count = Cardinality(Active), !.pc = "cooldown"]
    BY <1>2, <1>7 DEF CountActive, CallsTyped
  <2>2. /\ call'[p].pc = "cooldown" /\ call'[p].kind = call[p].kind /\ call'[p].then = call[p].then
        /\ call'[p].count = Cardinality(Active) /\ call'[p].row = call[p].row
        /\ call'[p].own = call[p].own
    BY <1>2, <2>1 DEF Calls
  <2>3. Fits(p)'
    BY <2>2, <1>5
  <2>4. Cardinality(Active)' = Cardinality(Active)
    BY <2>0 DEF Active
  <2>5. p \in alone => UpToDate(p)'
    BY <2>0, <2>2, <2>4, <1>4 DEF UpToDate
  <2> QED
    BY <2>3, <2>5
<1>8. CASE CountCooldown(p)
  <2>0. UNCHANGED rows /\ call[p].pc = "cooldown"
    BY <1>8 DEF CountCooldown, ReadsOnly, database
  <2> DEFINE own == IF call[p].own /\ call[p].row \notin Deleted \ InCooldown THEN 1 ELSE 0
             used == call[p].count + Cardinality(InCooldown) - own
             pc == IF call[p].row # 0 THEN "reactivate" ELSE "insert"
  <2>1. CASE Goto(p, "idle")
    BY <1>2, <2>1, GoneIdle
  <2>2. CASE ~Goto(p, "idle")
    <3>1. /\ ~SlotsAreFull(used, call[p].limit)
          /\ call' = [call EXCEPT ![p] = [call[p] EXCEPT !.count = 0, !.own = FALSE, !.pc = pc]]
      BY <1>8, <2>2 DEF CountCooldown
    <3>2. call'[p] = [call[p] EXCEPT !.count = 0, !.own = FALSE, !.pc = pc]
      BY <1>2, <3>1 DEF CallsTyped
    <3>3. pc \in {"reactivate", "insert"} /\ (pc = "insert" <=> call[p].row = 0)
      OBVIOUS
    <3> HIDE DEF pc
    <3>4. /\ call'[p].pc = pc /\ call'[p].kind = call[p].kind /\ call'[p].then = call[p].then
          /\ call'[p].row = call[p].row /\ call'[p].limit = call[p].limit
      BY <1>2, <3>2 DEF Calls
    <3>5. Fits(p)'
      BY <3>3, <3>4, <1>5
    <3>6. ASSUME p \in alone PROVE UpToDate(p)'
      <4>1. call[p].count = Cardinality(Active) /\ (call[p].own => call[p].row # 0)
        BY <1>4, <2>0, <3>6 DEF UpToDate
      <4>2. call[p].limit \in Int
        BY <1>2 DEF Calls
      <4>3. own = 0 => Used < call[p].limit
        BY <3>1, <4>1, <4>2, Finite DEF SlotsAreFull, Used
      <4>4. own = 0 \/ (call[p].own /\ call[p].row \notin Deleted \ InCooldown)
        OBVIOUS
      <4> HIDE DEF own
      <4>5. pc = "insert" => Used < call[p].limit
        BY <3>3, <4>1, <4>3, <4>4
      <4>6. pc = "reactivate" /\ call[p].row \in Deleted => call[p].row \in InCooldown \/ Used < call[p].limit
        BY <4>3, <4>4
      <4>7. Used' = Used /\ Deleted' = Deleted /\ InCooldown' = InCooldown
        BY <2>0 DEF Used, Active, InCooldown, Deleted
      <4> QED
        BY <3>3, <3>4, <4>5, <4>6, <4>7 DEF UpToDate
    <3> QED
      BY <3>5, <3>6
  <2> QED
    BY <2>1, <2>2
<1>9. CASE ReactivateAccount(p) \/ AddSteamAccount(p) \/ DeleteSteamAccount(p)
  <2>1. Goto(p, "idle") \/ \E steams : Committed(p, steams, "idle")
    BY <1>9 DEF ReactivateAccount, AddSteamAccount, DeleteSteamAccount
  <2>2. CASE Goto(p, "idle")
    BY <1>2, <2>2, GoneIdle
  <2>3. CASE \E steams : Committed(p, steams, "idle")
    <3>1. PICK steams : Committed(p, steams, "idle")
      BY <2>3
    <3>2. call[p].then # "insert"
      BY <1>1, <1>2 DEF Fits, Checking
    <3> QED
      BY <1>2, <1>3, <3>1, <3>2, ThenAfterWriting DEF Nexts
  <2> QED
    BY <2>1, <2>2, <2>3
<1>10. CASE HardDeleteAccount(p)
  <2>1. Goto(p, "idle") \/ \E steams : Committed(p, steams, "insert")
    BY <1>10 DEF HardDeleteAccount
  <2>2. CASE Goto(p, "idle")
    BY <1>2, <2>2, GoneIdle
  <2>3. CASE \E steams : Committed(p, steams, "insert")
    <3>1. PICK steams : Committed(p, steams, "insert")
      BY <2>3
    <3>2. call[p].kind = "replace" /\ call[p].then # "insert"
      BY <1>1, <1>2, <1>10 DEF Fits, HardDeleteAccount, Checking
    <3> QED
      BY <1>2, <1>3, <3>1, <3>2, ThenAfterWriting DEF Nexts
  <2> QED
    BY <2>1, <2>2, <2>3
<1> QED
  BY <1>6, <1>7, <1>8, <1>9, <1>10 DEF RequestStep

\* The statements of a sync: the accounts it is about to reactivate are none the patron
\* deleted.
LEMMA CarefulSync ==
  ASSUME Inv, Careful, NEW p \in Procs, SyncStep(p)
  PROVE  Fits(p)' /\ UpToDate(p)'
<1>1. call[p].pc \in {"refresh", "fetch", "store", "listActive", "softDelete", "countActive", "listDeleted",
                      "reactivateAll", "expire"}
  BY DEF SyncStep, RefreshToken, RetryFails, GetMembership, UpdatePatronMembership, ListActive, SoftDeleteAccounts,
         CountForReactivation, ListDeleted, ReactivateAccounts, HardDeleteExpiredAccounts
<1>2. Fits(p) /\ call[p] \in Calls /\ CallsTyped
  BY DEF Careful, Inv, CallsTyped
<1>3. p \notin Readers /\ call[p].then # "insert"
  BY <1>1, <1>2 DEF Fits
<1>4. {"idle", "fetch", "listActive", "countActive", AfterSync(p), OnError(p)} \cap (Checking \cup {"reactivateAll"}) = {}
  BY DEF Checking, AfterSync, OnError
<1>5. CASE GetMembership(p)
  <2>1. call'[p] = [call[p] EXCEPT !.pc = "store", !.m = patreon]
    BY <1>2, <1>5 DEF GetMembership, CallsTyped
  <2>2. call'[p].pc = "store" /\ call'[p].then = call[p].then
    BY <1>2, <2>1 DEF Calls
  <2> QED
    BY <1>3, <2>2, Elsewhere DEF Checking
<1>6. CASE UpdatePatronMembership(p)
  <2>1. Goto(p, "idle") \/ Goto(p, "listActive") \/ Goto(p, OnError(p))
    BY <1>6 DEF UpdatePatronMembership
  <2> QED
    BY <1>2, <1>3, <1>4, <2>1, GoesElsewhere
<1>7. CASE ListActive(p)
  <2> DEFINE ids == ToSoftDelete(call[p].m)
             pc == IF ids = {} THEN "countActive" ELSE "softDelete"
  <2>1. call'[p] = [call[p] EXCEPT !.ids = ids, !.pc = pc]
    BY <1>2, <1>7 DEF ListActive, CallsTyped
  <2>2. pc \in {"countActive", "softDelete"}
    OBVIOUS
  <2> HIDE DEF ids, pc
  <2>3. call'[p].pc = pc /\ call'[p].then = call[p].then
    BY <1>2, <2>1 DEF Calls
  <2> QED
    BY <1>3, <2>2, <2>3, Elsewhere DEF Checking
<1>8. CASE SoftDeleteAccounts(p)
  <2>1. Committed(p, SteamsOf(call[p].ids \cap Active), "countActive")
    BY <1>8 DEF SoftDeleteAccounts
  <2> QED
    BY <1>2, <1>3, <2>1, ThenAfterWriting DEF Nexts
<1>9. CASE CountForReactivation(p)
  <2>1. CASE Goto(p, AfterSync(p))
    BY <1>2, <1>3, <1>4, <2>1, GoesElsewhere
  <2>2. CASE ~Goto(p, AfterSync(p))
    <3> DEFINE n == SlotLimit(call[p].m) - Cardinality(Active)
    <3>1. call' = [call EXCEPT ![p] = [call[p] EXCEPT !.pc = "listDeleted", !.ids = {}, !.count = n]]
      BY <1>9, <2>2 DEF CountForReactivation
    <3> HIDE DEF n
    <3>2. call'[p] = [call[p] EXCEPT !.pc = "listDeleted", !.ids = {}, !.count = n]
      BY <1>2, <3>1 DEF CallsTyped
    <3>3. call'[p].pc = "listDeleted" /\ call'[p].then = call[p].then
      BY <1>2, <3>2 DEF Calls
    <3> QED
      BY <1>3, <3>3, Elsewhere DEF Checking
  <2> QED
    BY <2>1, <2>2
<1>10. CASE ListDeleted(p)
  <2>1. CASE Goto(p, AfterSync(p))
    BY <1>2, <1>3, <1>4, <2>1, GoesElsewhere
  <2>2. CASE ~Goto(p, AfterSync(p))
    <3> DEFINE ids == Oldest(Reactivatable, call[p].count)
    <3>1. /\ call' = [call EXCEPT ![p] = [call[p] EXCEPT !.ids = ids, !.count = 0, !.pc = "reactivateAll"]]
          /\ UNCHANGED rows
      BY <1>10, <2>2 DEF ListDeleted, ReadsOnly, database
    <3>2. ids \subseteq Reactivatable
      BY DEF Oldest
    <3> HIDE DEF ids
    <3>3. call'[p] = [call[p] EXCEPT !.ids = ids, !.count = 0, !.pc = "reactivateAll"]
      BY <1>2, <3>1 DEF CallsTyped
    <3>4. call'[p].pc = "reactivateAll" /\ call'[p].then = call[p].then /\ call'[p].ids = ids
      BY <1>2, <3>3 DEF Calls
    <3>5. Fits(p)'
      BY <1>3, <3>4 DEF Fits, Checking
    <3>6. \A r \in ids : ~rows'[r].user
      BY <3>1, <3>2 DEF Reactivatable
    <3>7. UpToDate(p)'
      BY <3>4, <3>6 DEF UpToDate
    <3> QED
      BY <3>5, <3>7
  <2> QED
    BY <2>1, <2>2
<1>11. CASE ReactivateAccounts(p)
  <2>1. Goto(p, AfterSync(p)) \/ \E steams : Committed(p, steams, AfterSync(p))
    BY <1>11 DEF ReactivateAccounts
  <2>2. CASE Goto(p, AfterSync(p))
    BY <1>2, <1>3, <1>4, <2>2, GoesElsewhere
  <2>3. ASSUME NEW steams, Committed(p, steams, AfterSync(p))
        PROVE  Fits(p)' /\ UpToDate(p)'
    <3>1. AfterSync(p) \in Nexts /\ AfterSync(p) # "insert"
      BY DEF AfterSync, Nexts
    <3> QED
      BY <1>2, <1>3, <2>3, <3>1, ThenAfterWriting
  <2> QED
    BY <2>1, <2>2, <2>3
<1>12. CASE HardDeleteExpiredAccounts(p)
  <2>1. Committed(p, SteamsOf(Deleted \ InCooldown), "idle")
    BY <1>12 DEF HardDeleteExpiredAccounts
  <2> QED
    BY <1>2, <1>3, <2>1, ThenAfterWriting DEF Nexts
<1>13. CASE RefreshToken(p) \/ RetryFails(p)
  <2>1. Goto(p, "fetch") \/ Goto(p, AfterSync(p)) \/ Goto(p, "idle")
    BY <1>13 DEF RefreshToken, RetryFails
  <2> QED
    BY <1>2, <1>3, <1>4, <2>1, GoesElsewhere
<1> QED
  BY <1>5, <1>6, <1>7, <1>8, <1>9, <1>10, <1>11, <1>12, <1>13 DEF SyncStep

LEMMA CarefulRest ==
  ASSUME Inv, Careful, NEW p \in Procs, Load(p) \/ Keep(p) \/ Evict(p) \/ Fails(p)
  PROVE  Fits(p)' /\ UpToDate(p)'
<1>1. Fits(p) /\ call[p] \in Calls /\ CallsTyped
  BY DEF Careful, Inv, CallsTyped
<1>2. CASE Load(p)
  <2> DEFINE own == Prioritized(call[p].steam)
  <2>1. call[p].pc = "load" /\ call'[p] = [call[p] EXCEPT !.pc = "keep", !.own = own]
    BY <1>1, <1>2 DEF Load, CallsTyped
  <2> HIDE DEF own
  <2>2. call'[p].pc = "keep" /\ call'[p].then = call[p].then
    BY <1>1, <2>1 DEF Calls
  <2>3. Fits(p)'
    BY <1>1, <2>1, <2>2 DEF Fits, Checking
  <2>4. UpToDate(p)'
    BY <2>2 DEF UpToDate
  <2> QED
    BY <2>3, <2>4
<1>3. CASE Keep(p)
  BY <1>1, <1>3, GoneIdle DEF Keep
<1>4. CASE Evict(p)
  <2>0. call[p].pc = "evict" /\ p \notin Readers
    BY <1>1, <1>4 DEF Evict, Fits
  <2>1. PICK s \in call[p].evict :
          IF call[p].evict = {s} THEN Goto(p, call[p].then)
          ELSE call' = [call EXCEPT ![p] = [call[p] EXCEPT !.evict = call[p].evict \ {s}]]
    BY <1>4 DEF Evict
  <2>2. CASE call[p].evict = {s} /\ call[p].then = "insert"
    <3>1. call'[p].pc = "insert" /\ call'[p].then = "idle" /\ call'[p].kind = "replace" /\ p \notin Syncs
      BY <1>1, <2>1, <2>2, GotoIs DEF Fits
    <3>2. Fits(p)'
      BY <2>0, <3>1 DEF Fits
    <3>3. UpToDate(p)'
      BY <3>1 DEF UpToDate
    <3> QED
      BY <3>2, <3>3
  <2>3. CASE call[p].evict = {s} /\ call[p].then # "insert"
    <3>1. call[p].then \notin Checking \cup {"reactivateAll"}
      BY <1>1, <2>3 DEF Calls, Checking
    <3> QED
      BY <1>1, <2>0, <2>1, <2>3, <3>1, GoesElsewhere
  <2>4. CASE call[p].evict # {s}
    <3>1. call'[p] = [call[p] EXCEPT !.evict = call[p].evict \ {s}]
      BY <1>1, <2>1, <2>4 DEF CallsTyped
    <3>2. /\ call'[p].pc = call[p].pc /\ call'[p].then = call[p].then
          /\ call'[p].kind = call[p].kind
      BY <1>1, <3>1 DEF Calls
    <3>3. Fits(p)'
      BY <1>1, <3>2 DEF Fits
    <3>4. UpToDate(p)'
      BY <2>0, <3>2 DEF UpToDate
    <3> QED
      BY <3>3, <3>4
  <2> QED
    BY <2>2, <2>3, <2>4
<1>5. CASE Fails(p)
  <2>1. CASE Goto(p, "idle")
    BY <1>1, <2>1, GoneIdle
  <2>2. CASE ~Goto(p, "idle")
    <3>1. p \notin Readers
      BY <1>1, <1>5, <2>2 DEF Fails, OnError, Fits
    <3>2. \E pc \in {"countActive", "expire", "idle"} : Goto(p, pc)
      BY <1>5, OnErrorIs DEF Fails
    <3> QED
      BY <1>1, <3>1, <3>2, GoesElsewhere DEF Checking
  <2> QED
    BY <2>1, <2>2
<1> QED
  BY <1>2, <1>3, <1>4, <1>5

LEMMA SameUpToDate ==
  ASSUME NEW a, UNCHANGED rows, call'[a] = call[a], UpToDate(a)
  PROVE  UpToDate(a)'
<1>1. Used' = Used /\ Active' = Active /\ Deleted' = Deleted /\ InCooldown' = InCooldown
  BY DEF Used, Active, Deleted, InCooldown
<1> QED
  BY <1>1 DEF UpToDate

LEMMA CarefulOwn ==
  ASSUME Inv, Careful, NEW p \in Procs, call[p] # Idle, UNCHANGED alone,
         \A q \in Procs \ {p} : call'[q] = call[q],
         Fits(p)', p \in alone => UpToDate(p)', p \in Readers => UNCHANGED rows
  PROVE  Careful'
<1>1. ASSUME NEW q \in Procs, q # p PROVE Fits(q)'
  BY <1>1 DEF Careful, Fits
<1>2. Lonely'
  <2>1. ASSUME NEW a \in alone, NEW q \in Procs \ Readers, q # a PROVE call'[q] = Idle
    BY <2>1 DEF Careful, Lonely
  <2> QED
    BY <2>1 DEF Careful, Lonely
<1>3. ASSUME NEW a \in alone, a # p, a \in Procs PROVE UpToDate(a)'
  <2>1. p \in Readers
    BY <1>3 DEF Careful, Lonely
  <2>2. UNCHANGED rows /\ call'[a] = call[a] /\ UpToDate(a)
    BY <1>3, <2>1 DEF Careful
  <2> QED
    BY <2>2, SameUpToDate
<1>4. \A q \in Procs : Fits(q)'
  BY <1>1
<1>5. \A a \in alone : UpToDate(a)'
  BY <1>3 DEF Inv, Rest
<1> QED
  BY <1>2, <1>4, <1>5 DEF Careful

LEMMA CarefulStep ==
  ASSUME Inv, Careful, NEW p \in Procs, Step(p) \/ Fails(p) \/ Dropped(p)
  PROVE  Careful'
<1>0. Fits(p) /\ CallsTyped
  BY DEF Careful, Inv
<1>1. call[p] # Idle
  <2>1. RequestStep(p) => call[p].pc # "idle"
    BY DEF RequestStep, FindDeleted, CountActive, CountCooldown, ReactivateAccount,
           AddSteamAccount, DeleteSteamAccount, HardDeleteAccount
  <2>2. SyncStep(p) => call[p].pc # "idle"
    BY DEF SyncStep, RefreshToken, RetryFails, GetMembership, UpdatePatronMembership, ListActive, SoftDeleteAccounts,
           CountForReactivation, ListDeleted, ReactivateAccounts, HardDeleteExpiredAccounts
  <2>3. Load(p) \/ Keep(p) \/ Evict(p) \/ Fails(p) => call[p].pc # "idle"
    BY DEF Load, Keep, Evict, Fails
  <2>4. Dropped(p) => call[p].kind # "none" /\ Idle.kind = "none"
    BY DEF Dropped, Handlers, Idle
  <2> QED
    BY <2>1, <2>2, <2>3, <2>4, Defaults DEF Step
<1>2. CASE RequestStep(p)
  <2>1. UNCHANGED alone
    BY <1>2 DEF RequestStep, FindDeleted, CountActive, CountCooldown, ReactivateAccount,
                AddSteamAccount, DeleteSteamAccount, HardDeleteAccount, ReadsOnly, Committed
  <2>2. \A q \in Procs \ {p} : call'[q] = call[q]
    BY <1>2, RequestSteps DEF Effect
  <2>3. p \notin Readers
    BY <1>0, <1>2 DEF Fits, RequestStep, FindDeleted, CountActive, CountCooldown,
                      ReactivateAccount, AddSteamAccount, DeleteSteamAccount, HardDeleteAccount
  <2> QED
    <3>1. Fits(p)' /\ (p \in alone => UpToDate(p)')
      BY <1>2, CarefulRequest
    <3> QED
      BY <1>1, <2>1, <2>2, <2>3, <3>1, CarefulOwn
<1>3. CASE SyncStep(p)
  <2>1. UNCHANGED alone
    BY <1>3 DEF SyncStep, RefreshToken, RetryFails, GetMembership, UpdatePatronMembership, ListActive, SoftDeleteAccounts,
                CountForReactivation, ListDeleted, ReactivateAccounts, HardDeleteExpiredAccounts,
                ReadsOnly, Committed
  <2>2. \A q \in Procs \ {p} : call'[q] = call[q]
    BY <1>3, SyncSteps DEF Effect
  <2>3. p \notin Readers
    BY <1>0, <1>3 DEF Fits, SyncStep, RefreshToken, RetryFails, GetMembership, UpdatePatronMembership, ListActive,
                SoftDeleteAccounts, CountForReactivation, ListDeleted, ReactivateAccounts,
                HardDeleteExpiredAccounts
  <2> QED
    <3>1. Fits(p)' /\ UpToDate(p)'
      BY <1>3, CarefulSync
    <3> QED
      BY <1>1, <2>1, <2>2, <2>3, <3>1, CarefulOwn
<1>4. CASE Load(p) \/ Keep(p) \/ Evict(p) \/ Fails(p)
  <2>1. UNCHANGED <<alone, rows>>
    BY <1>4 DEF Load, Keep, Evict, Fails, ReadsOnly, database
  <2>2. \A q \in Procs \ {p} : call'[q] = call[q]
    <3>1. CASE Load(p) \/ Fails(p)
      BY <3>1, ReaderSteps, FailsStep DEF Effect
    <3>2. CASE Keep(p) \/ Evict(p)
      BY <1>0, <3>2 DEF Keep, Evict, Goto, CallsTyped
    <3> QED
      BY <1>4, <3>1, <3>2
  <2> QED
    <3>1. Fits(p)' /\ UpToDate(p)'
      BY <1>4, CarefulRest
    <3> QED
      BY <1>1, <2>1, <2>2, <3>1, CarefulOwn
<1>5. CASE Dropped(p)
  <2>1. call' = [call EXCEPT ![p] = Idle] /\ UNCHANGED <<alone, rows>>
    BY <1>5 DEF Dropped, database
  <2>2. call'[p] = Idle /\ \A q \in Procs \ {p} : call'[q] = call[q]
    BY <1>0, <2>1 DEF CallsTyped
  <2> QED
    BY <1>1, <2>1, <2>2, WhenIdle, CarefulOwn
<1> QED
  BY <1>2, <1>3, <1>4, <1>5 DEF Step

LEMMA CarefulBegun ==
  ASSUME Inv, Careful, NEW p \in Procs, NEW c, Begin(p, c),
         Fits(p)', UpToDate(p)', p \in Readers => UNCHANGED rows
  PROVE  Careful'
<1>0. call[p] = Idle /\ call' = [call EXCEPT ![p] = c] /\ CallsTyped
  BY DEF Begin, UnderWay, Inv
<1>1. \A q \in Procs \ {p} : call'[q] = call[q]
  BY <1>0 DEF CallsTyped
<1>2. ASSUME NEW q \in Procs, q # p PROVE Fits(q)'
  BY <1>1, <1>2 DEF Careful, Fits
<1>3. CASE p \in Readers
  <2>1. alone' = alone /\ UNCHANGED rows
    BY <1>3 DEF Begin
  <2>3. \A a \in alone : a \in Procs /\ a # p
    BY <1>3 DEF Careful, Lonely, Inv, Rest
  <2>4. Lonely'
    BY <1>1, <1>3, <2>1, <2>3 DEF Careful, Lonely
  <2>5. ASSUME NEW a \in alone PROVE UpToDate(a)'
    <3>1. call'[a] = call[a] /\ UpToDate(a)
      BY <1>1, <2>3 DEF Careful
    <3> QED
      BY <2>1, <3>1, SameUpToDate
  <2> QED
    BY <1>2, <2>1, <2>4, <2>5 DEF Careful
<1>4. CASE p \notin Readers
  <2>1. alone' = IF UnderWay \subseteq Readers THEN {p} ELSE {}
    BY <1>4 DEF Begin
  <2>2. Lonely'
    BY <1>1, <1>4, <2>1 DEF Lonely, UnderWay
  <2> QED
    BY <1>2, <2>1, <2>2 DEF Careful
<1> QED
  BY <1>3, <1>4

\* What a call begins with.
LEMMA CarefulStart ==
  ASSUME Inv, Careful, NEW p \in Procs,
         \/ p \in Requests /\ Request(p)
         \/ p \in Syncs /\ (StartWebhook(p) \/ StartRetry(p) \/ StartLogin(p))
         \/ p = "verify" /\ StartVerification
         \/ p \in Readers /\ \E s \in Watched : StartRead(p, s)
  PROVE  Careful'
<1>0. CallsTyped
  BY DEF Inv
<1>1. p \in Requests => p \notin Readers /\ p \notin Syncs
  BY PatronAssumption DEF Syncs
<1>2. p \in Syncs => p \notin Readers
  BY PatronAssumption DEF Syncs
<1>3. ASSUME NEW s \in Steams, p \in Requests, StartAdd(p, s)
      PROVE  Careful'
  <2> DEFINE c == [Idle EXCEPT !.pc = "find", !.kind = "add", !.steam = s, !.limit = SlotLimit(membership)]
  <2>1. Begin(p, c)
    BY <1>3 DEF StartAdd
  <2>2. c.pc = "find" /\ c.own = FALSE /\ c.then = "idle"
    BY DEF Idle
  <2> HIDE DEF c
  <2>3. call'[p] = c
    BY <1>0, <2>1 DEF Begin, CallsTyped
  <2>4. Fits(p)'
    BY <1>1, <1>3, <2>2, <2>3 DEF Fits
  <2>5. UpToDate(p)'
    BY <2>2, <2>3 DEF UpToDate
  <2> QED
    BY <1>1, <1>3, <2>1, <2>4, <2>5, CarefulBegun
<1>4. ASSUME NEW r \in Rows, p \in Requests, StartDelete(p, r)
      PROVE  Careful'
  <2> DEFINE c == [Idle EXCEPT !.pc = "delete", !.kind = "delete", !.row = r]
  <2>1. Begin(p, c)
    BY <1>4 DEF StartDelete
  <2>2. c.pc = "delete" /\ c.then = "idle" /\ c.own = FALSE
    BY DEF Idle
  <2> HIDE DEF c
  <2>3. call'[p] = c
    BY <1>0, <2>1 DEF Begin, CallsTyped
  <2>4. Fits(p)'
    BY <1>1, <1>4, <2>2, <2>3 DEF Fits
  <2>5. UpToDate(p)'
    BY <2>2, <2>3 DEF UpToDate
  <2> QED
    BY <1>1, <1>4, <2>1, <2>4, <2>5, CarefulBegun
<1>5. ASSUME NEW r \in Rows, p \in Requests, StartReactivate(p, r)
      PROVE  Careful'
  <2> DEFINE c == [Idle EXCEPT !.pc = "active", !.kind = "reactivate", !.row = r,
                               !.own = rows[r].recent, !.limit = SlotLimit(membership)]
  <2>1. Begin(p, c)
    BY <1>5 DEF StartReactivate
  <2>2. c.pc = "active" /\ c.row = r /\ c.then = "idle" /\ r # 0
    BY PatronAssumption DEF Idle, Rows
  <2> HIDE DEF c
  <2>3. call'[p] = c
    BY <1>0, <2>1 DEF Begin, CallsTyped
  <2>4. Fits(p)'
    BY <1>1, <1>5, <2>2, <2>3 DEF Fits
  <2>5. UpToDate(p)'
    BY <2>2, <2>3 DEF UpToDate
  <2> QED
    BY <1>1, <1>5, <2>1, <2>4, <2>5, CarefulBegun
<1>6. ASSUME NEW r \in Rows, NEW s \in Steams, p \in Requests, StartReplace(p, r, s)
      PROVE  Careful'
  <2> DEFINE c == [Idle EXCEPT !.pc = "hardDelete", !.kind = "replace", !.row = r, !.steam = s]
  <2>1. Begin(p, c)
    BY <1>6 DEF StartReplace
  <2>2. c.pc = "hardDelete" /\ c.kind = "replace" /\ c.then = "idle"
    BY DEF Idle
  <2> HIDE DEF c
  <2>3. call'[p] = c
    BY <1>0, <2>1 DEF Begin, CallsTyped
  <2>4. Fits(p)'
    BY <1>1, <1>6, <2>2, <2>3 DEF Fits
  <2>5. UpToDate(p)'
    BY <2>2, <2>3 DEF UpToDate
  <2> QED
    BY <1>1, <1>6, <2>1, <2>4, <2>5, CarefulBegun
<1>7. ASSUME p \in Syncs,
             StartWebhook(p) \/ StartRetry(p) \/ StartLogin(p) \/ (p = "verify" /\ StartVerification)
      PROVE  Careful'
  <2>1. \E c : Begin(p, c) /\ c.pc \in {"refresh", "fetch", "store"} /\ c.then = "idle"
    <3>1. CASE StartWebhook(p)
      <4>1. PICK m \in mail : Begin(p, [Idle EXCEPT !.pc = "store", !.kind = "webhook", !.m = m])
        BY <3>1 DEF StartWebhook
      <4>2. LET c == [Idle EXCEPT !.pc = "store", !.kind = "webhook", !.m = m]
            IN  c.pc = "store" /\ c.then = "idle"
        BY DEF Idle
      <4> QED
        BY <4>1, <4>2
    <3>2. CASE StartRetry(p)
      <4> DEFINE c == [Idle EXCEPT !.pc = "fetch", !.kind = "retry"]
      <4>1. Begin(p, c)
        BY <3>2 DEF StartRetry
      <4>2. c.pc = "fetch" /\ c.then = "idle"
        BY DEF Idle
      <4> QED
        BY <4>1, <4>2
    <3>3. CASE StartLogin(p)
      <4> DEFINE c == [Idle EXCEPT !.pc = "fetch", !.kind = "login"]
      <4>1. Begin(p, c)
        BY <3>3 DEF StartLogin
      <4>2. c.pc = "fetch" /\ c.then = "idle"
        BY DEF Idle
      <4> QED
        BY <4>1, <4>2
    <3>4. CASE p = "verify" /\ StartVerification
      <4> DEFINE c == [Idle EXCEPT !.pc = "refresh", !.kind = "verify"]
      <4>1. Begin(p, c)
        BY <3>4 DEF StartVerification
      <4>2. c.pc = "refresh" /\ c.then = "idle"
        BY DEF Idle
      <4> QED
        BY <4>1, <4>2
    <3> QED
      BY <1>7, <3>1, <3>2, <3>3, <3>4
  <2>2. PICK c : Begin(p, c) /\ c.pc \in {"refresh", "fetch", "store"} /\ c.then = "idle"
    BY <2>1
  <2>3. call'[p] = c
    BY <1>0, <2>2 DEF Begin, CallsTyped
  <2>4. Fits(p)' /\ UpToDate(p)'
    BY <1>2, <1>7, <2>2, <2>3, Elsewhere DEF Checking
  <2> QED
    BY <1>2, <1>7, <2>2, <2>4, CarefulBegun
<1>8. ASSUME NEW s \in Watched, p \in Readers, StartRead(p, s)
      PROVE  Careful'
  <2> DEFINE c == [Idle EXCEPT !.pc = "load", !.kind = "read", !.steam = s]
  <2>1. Begin(p, c) /\ UNCHANGED rows
    BY <1>8 DEF StartRead, database
  <2>2. c.pc = "load" /\ c.then = "idle"
    BY DEF Idle
  <2> HIDE DEF c
  <2>3. call'[p] = c
    BY <1>0, <2>1 DEF Begin, CallsTyped
  <2>4. Fits(p)'
    BY <1>2, <1>8, <2>2, <2>3 DEF Fits
  <2>5. UpToDate(p)'
    BY <2>2, <2>3 DEF UpToDate
  <2> QED
    BY <2>1, <2>4, <2>5, CarefulBegun
<1> QED
  BY <1>3, <1>4, <1>5, <1>6, <1>7, <1>8 DEF Request, Syncs

LEMMA CarefulInit ==
  ASSUME Init PROVE Careful
BY DEF Init, Careful, Fits, Lonely, Idle, Checking

LEMMA CarefulNext ==
  ASSUME Inv, Careful, [Next]_vars PROVE Careful'
<1>1. CASE \E p \in Requests : Request(p)
  BY <1>1, CarefulStart DEF Procs
<1>2. CASE \E p \in Tasks : StartWebhook(p) \/ StartRetry(p) \/ StartLogin(p)
  BY <1>2, CarefulStart DEF Procs, Syncs
<1>3. CASE StartVerification
  BY <1>3, CarefulStart DEF Procs, Syncs
<1>4. CASE \E p \in Readers, s \in Watched : StartRead(p, s)
  BY <1>4, CarefulStart DEF Procs
<1>5. CASE \E p \in Procs : Step(p) \/ Fails(p) \/ Dropped(p)
  BY <1>5, CarefulStep
<1>6. CASE \/ \E s \in Watched : TtlEnds(s)
           \/ MembershipChanges
           \/ UNCHANGED vars
  <2>1. UNCHANGED <<rows, call, alone>>
    BY <1>6 DEF TtlEnds, MembershipChanges, vars, database
  <2>2. (\A p \in Procs : Fits(p)') /\ Lonely'
    BY <2>1 DEF Careful, Fits, Lonely
  <2>3. \A a \in alone : UpToDate(a)'
    BY <2>1, SameUpToDate DEF Careful
  <2> QED
    BY <2>1, <2>2, <2>3 DEF Careful
<1>7. CASE \E r \in Rows : CooldownEnds(r)
  <2>1. UNCHANGED call /\ alone' = {}
    BY <1>7 DEF CooldownEnds
  <2> QED
    BY <2>1 DEF Careful, Fits, Lonely
<1> QED
  BY <1>1, <1>2, <1>3, <1>4, <1>5, <1>6, <1>7 DEF Next

\* Rows are written by the statements of requests and of syncs only.
LEMMA WhoWrites ==
  ASSUME Inv, [Next]_vars, NEW p \in Procs, call'[p] # call[p], rows' # rows
  PROVE  RequestStep(p) \/ SyncStep(p)
<1>1. CASE \E q \in Procs : Step(q) \/ Fails(q) \/ Dropped(q)
  <2>1. PICK q \in Procs : Step(q) \/ Fails(q) \/ Dropped(q)
    BY <1>1
  <2>2. RequestStep(q) \/ SyncStep(q)
    BY <2>1 DEF Step, Load, Keep, Evict, Fails, Dropped, ReadsOnly, database
  <2>3. Effect(q)
    BY <2>2, RequestSteps, SyncSteps
  <2> QED
    BY <2>2, <2>3 DEF Effect
<1>2. CASE \/ \E q \in Requests : Request(q)
           \/ \E q \in Tasks : StartWebhook(q) \/ StartRetry(q) \/ StartLogin(q)
           \/ StartVerification
           \/ \E q \in Readers, s \in Watched : StartRead(q, s)
           \/ \E s \in Watched : TtlEnds(s)
           \/ MembershipChanges
           \/ UNCHANGED vars
  BY <1>2 DEF Request, StartAdd, StartDelete, StartReactivate, StartReplace, StartWebhook,
              StartRetry, StartLogin, StartVerification, StartRead, TtlEnds, MembershipChanges,
              vars, database
<1>3. CASE \E r \in Rows : CooldownEnds(r)
  BY <1>3 DEF CooldownEnds
<1> QED
  BY <1>1, <1>2, <1>3 DEF Next

-----------------------------------------------------------------------------
(* The slots.                                                              *)

\* An inserted row takes one slot more.
LEMMA OneMore ==
  ASSUME Inv, NEW p \in Procs, AddSteamAccount(p), rows' # rows
  PROVE  Used' = Used + 1
<1>1. PICK r \in Unused : rows' = [rows EXCEPT ![r] = [rows[r] EXCEPT !.steam = call[p].steam, !.status = "active"]]
  BY DEF AddSteamAccount, ReadsOnly, database
<1> DEFINE row == [rows[r] EXCEPT !.steam = call[p].steam, !.status = "active"]
<1>2. r \in Rows /\ rows[r] \in RowType /\ rows[r].status = "unused"
  BY DEF Unused, Inv, RowsTyped
<1>3. row.status = "active"
  BY <1>2 DEF RowType
<1>4. rows' = [rows EXCEPT ![r] = row]
  BY <1>1
<1> HIDE DEF row
<1>5. rows'[r] = row /\ \A q \in Rows \ {r} : rows'[q] = rows[q]
  BY <1>2, <1>4 DEF Inv, RowsTyped
<1>6. Active' = Active \cup {r} /\ r \notin Active
  BY <1>2, <1>3, <1>5 DEF Active
<1>7. InCooldown' = InCooldown
  BY <1>2, <1>3, <1>5 DEF InCooldown, Deleted
<1>8. Cardinality(Active \cup {r}) = Cardinality(Active) + 1
  BY <1>6, Finite, FS_AddElement
<1> QED
  BY <1>6, <1>7, <1>8, Finite DEF Used

\* A row reactivated in its cooldown keeps its slot, another takes one.
LEMMA OneMoreOrSame ==
  ASSUME Inv, NEW p \in Procs, ReactivateAccount(p), rows' # rows
  PROVE  /\ call[p].row \in Deleted
         /\ call[p].row \in InCooldown => Used' = Used
         /\ call[p].row \notin InCooldown => Used' = Used + 1
<1> DEFINE r == call[p].row
<1>1. r \in Deleted /\ rows' = [rows EXCEPT ![r] = Reactivated(r)]
  BY DEF ReactivateAccount, ReadsOnly, database
<1> HIDE DEF r
<1>2. r \in Rows /\ rows[r] \in RowType /\ rows[r].status = "deleted"
  BY <1>1 DEF Deleted, Inv, RowsTyped
<1>3. Reactivated(r).status = "active"
  BY <1>2 DEF RowType, Reactivated
<1>4. rows'[r] = Reactivated(r) /\ \A q \in Rows \ {r} : rows'[q] = rows[q]
  BY <1>1, <1>2 DEF Inv, RowsTyped
<1>5. Active' = Active \cup {r} /\ r \notin Active
  BY <1>2, <1>3, <1>4 DEF Active
<1>6. InCooldown' = InCooldown \ {r}
  BY <1>2, <1>3, <1>4 DEF InCooldown, Deleted
<1>7. Cardinality(Active \cup {r}) = Cardinality(Active) + 1
  BY <1>5, Finite, FS_AddElement
<1>8. Cardinality(InCooldown \ {r})
        = IF r \in InCooldown THEN Cardinality(InCooldown) - 1 ELSE Cardinality(InCooldown)
  BY Finite, FS_RemoveElement
<1>9. /\ r \in InCooldown => Used' = Used
      /\ r \notin InCooldown => Used' = Used + 1
  BY <1>5, <1>6, <1>7, <1>8, Finite DEF Used
<1> QED
  BY <1>1, <1>9 DEF r

\* The limit of steam_accounts.rs:65, for an addition or reactivation that no other writer
\* interrupts: what it has counted is what the rows hold when it takes the slot.
THEOREM LimitTheorem == Spec => LimitHoldsAlone
<1>1. Inv /\ Careful /\ [Next]_vars =>
        [\A p \in alone \cap Requests :
            TakesSlot(p) => Used' <= call[p].limit \/ Used' <= Used]_vars
  <2> SUFFICES ASSUME Inv, Careful, [Next]_vars,
                      NEW p \in alone \cap Requests, TakesSlot(p)
               PROVE  Used' <= call[p].limit \/ Used' <= Used
    OBVIOUS
  <2>1. /\ call[p].kind \in {"add", "reactivate"} /\ call[p].pc \in {"insert", "reactivate"}
        /\ rows' # rows /\ call'[p] # call[p]
    BY DEF TakesSlot
  <2>2. p \in Procs /\ UpToDate(p)
    BY DEF Procs, Careful
  <2>3. AddSteamAccount(p) \/ ReactivateAccount(p)
    <3>1. call[p].pc # "idle" /\ Idle.pc = "idle"
      BY <2>1, Defaults
    <3>2. RequestStep(p) \/ SyncStep(p)
      BY <2>1, <2>2, <3>1, WhoWrites
    <3> QED
      BY <2>1, <3>2 DEF RequestStep, FindDeleted, CountActive, CountCooldown, DeleteSteamAccount,
             HardDeleteAccount, SyncStep, RefreshToken, RetryFails, GetMembership, UpdatePatronMembership, ListActive, SoftDeleteAccounts,
             CountForReactivation, ListDeleted, ReactivateAccounts, HardDeleteExpiredAccounts
  <2>4. Used \in Int /\ call[p].limit \in Int
    BY <2>2, Finite DEF Used, Inv, CallsTyped, Calls
  <2>5. CASE AddSteamAccount(p)
    <3>1. call[p].pc = "insert"
      BY <2>5 DEF AddSteamAccount
    <3>2. Used < call[p].limit
      BY <2>1, <2>2, <3>1 DEF UpToDate
    <3>3. Used' = Used + 1
      BY <2>1, <2>2, <2>5, OneMore
    <3> QED
      BY <2>4, <3>2, <3>3
  <2>6. CASE ReactivateAccount(p)
    <3>1. call[p].pc = "reactivate"
      BY <2>6 DEF ReactivateAccount
    <3>2. /\ call[p].row \in Deleted
          /\ call[p].row \in InCooldown => Used' = Used
          /\ call[p].row \notin InCooldown => Used' = Used + 1
      BY <2>1, <2>2, <2>6, OneMoreOrSame
    <3>3. call[p].row \in InCooldown \/ Used < call[p].limit
      BY <2>2, <3>1, <3>2 DEF UpToDate
    <3> QED
      BY <2>4, <3>2, <3>3
  <2> QED
    BY <2>3, <2>5, <2>6
<1>2. Init => Inv /\ Careful
  BY InvStart, CarefulInit
<1>3. Inv /\ Careful /\ [Next]_vars => Inv' /\ Careful'
  BY InvStep, CarefulNext
<1> QED
  BY <1>1, <1>2, <1>3, PTL DEF Spec, LimitHoldsAlone

\* A sync that no other writer interrupts reactivates none of the accounts that the patron
\* deleted (membership.rs:38-54, the migration's comment on deleted_by_user).
THEOREM DeletionTheorem == Spec => UserDeletionStands
<1>1. Inv /\ Careful /\ [Next]_vars =>
        [\A p \in alone \cap Syncs : call'[p] # call[p] =>
            \A r \in Deleted : rows[r].user => rows'[r].status # "active"]_vars
  <2> SUFFICES ASSUME Inv, Careful, [Next]_vars,
                      NEW p \in alone \cap Syncs, call'[p] # call[p],
                      NEW r \in Deleted, rows[r].user
               PROVE  rows'[r].status # "active"
    OBVIOUS
  <2>1. p \in Procs /\ UpToDate(p) /\ Fits(p) /\ p \notin Requests
    BY PatronAssumption DEF Procs, Careful, Syncs
  <2>2. rows[r].status = "deleted" /\ r \in Rows /\ rows[r] \in RowType
    BY DEF Deleted, Inv, RowsTyped
  <2>3. CASE UNCHANGED rows
    BY <2>2, <2>3
  <2>4. CASE rows' # rows
    <3>1. SyncStep(p)
      <4>1. call[p].pc \notin Checking
        BY <2>1 DEF Fits
      <4>2. ~RequestStep(p)
        BY <4>1 DEF RequestStep, FindDeleted, CountActive, CountCooldown, ReactivateAccount,
                    AddSteamAccount, DeleteSteamAccount, HardDeleteAccount, Checking
      <4> QED
        BY <2>1, <2>4, <4>2, WhoWrites
    <3>2. CASE SoftDeleteAccounts(p)
      <4>1. rows'[r] = rows[r] \/ rows'[r] = [rows[r] EXCEPT !.status = "deleted", !.recent = TRUE]
        BY <2>2, <3>2 DEF SoftDeleteAccounts
      <4> QED
        BY <2>2, <4>1 DEF RowType
    <3>3. CASE ReactivateAccounts(p)
      <4>1. r \notin call[p].ids
        BY <2>1, <3>3 DEF ReactivateAccounts, UpToDate, ReadsOnly, database
      <4>2. rows'[r] = rows[r]
        BY <2>2, <2>4, <3>3, <4>1 DEF ReactivateAccounts, ReadsOnly, database
      <4> QED
        BY <2>2, <4>2
    <3>4. CASE HardDeleteExpiredAccounts(p)
      <4>1. rows'[r] = rows[r] \/ rows'[r] = Gone
        BY <2>2, <3>4 DEF HardDeleteExpiredAccounts
      <4> QED
        BY <2>2, <4>1 DEF Gone
    <3> QED
      BY <2>4, <3>1, <3>2, <3>3, <3>4 DEF SyncStep, RefreshToken, RetryFails, GetMembership,
             UpdatePatronMembership, ListActive, CountForReactivation, ListDeleted, ReadsOnly, database
  <2> QED
    BY <2>3, <2>4
<1>2. Init => Inv /\ Careful
  BY InvStart, CarefulInit
<1>3. Inv /\ Careful /\ [Next]_vars => Inv' /\ Careful'
  BY InvStep, CarefulNext
<1> QED
  BY <1>1, <1>2, <1>3, PTL DEF Spec, UserDeletionStands
=============================================================================
