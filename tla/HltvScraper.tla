----------------------------- MODULE HltvScraper -----------------------------
(***************************************************************************)
(* scrape-hltv-matches: a loop picks a broadcast from the bot's table and    *)
(* starts a task, which downloads the broadcast, fragment after fragment,    *)
(* until the one with the match's metadata, reports the end to the bot and   *)
(* uploads the metadata for the ingest-worker.                               *)
(***************************************************************************)
EXTENDS SpectateBot, Sequences

CONSTANTS
    Tasks,          \* bound: downloads at a time
    Last,           \* the fragment with the end of the match
    MaxNotFound,    \* how often a fragment is asked for in vain before it is given up, less one
    LruSize,        \* the capacity of already_downloaded
    MaxFaults,      \* bound: failed uploads and writes to the disk
    MaxRestarts     \* bound

ASSUME ScraperAssumption ==
    /\ Last \in Nat \ {0} /\ MaxNotFound \in Nat \ {0} /\ LruSize \in Nat \ {0}
    /\ MaxFaults \in Nat /\ MaxRestarts \in Nat

VARIABLES
    view,           \* the answer to GET matches
    already,        \* already_downloaded, newest first
    downloading,    \* currently_downloading
    task,
    stored,         \* matches with an object for the ingest-worker or a file in the local store
    faults,
    restarts

scraperVars == <<view, already, downloading, task, stored, faults, restarts>>
vars == <<botVars, scraperVars>>

Free == [at |-> "free"]
Downloading == {"init", "sync", "fetch"}
Ending(m, meta, step) == [at |-> step, match |-> m, meta |-> meta]

\* alive, high: the broadcast and its newest fragment, as this task meets them.
Download == [at : Downloading, match : Matches, alive : BOOLEAN, high : 1..Last, n : 0..Last + 1,
         first : 0..Last, type : {"full", "delta"}, notFound : 0..MaxNotFound, hard : BOOLEAN,
         sent : Seq((0..Last) \X {"full", "delta"})]
End == [at : {"post", "ended", "push", "local"}, match : Matches, meta : BOOLEAN]

Init ==
    /\ BotInit
    /\ view = {} /\ already = <<>> /\ downloading = {}
    /\ task = [t \in Tasks |-> Free]
    /\ stored = {}
    /\ faults = 0 /\ restarts = 0

Fault == faults < MaxFaults /\ faults' = faults + 1
OnlyTask == UNCHANGED <<botVars, view, already, downloading, stored, restarts>>
Becomes(t, new) == task' = [task EXCEPT ![t] = new]

-----------------------------------------------------------------------------
(* The loop.                                                               *)

GetMatches ==
    /\ view' = spectated
    /\ UNCHANGED <<botVars, already, downloading, task, stored, faults, restarts>>

Remembered == {already[i] : i \in DOMAIN already}

\* A match counts as downloaded from here on, until LruSize others have followed.
Remember(m) == SubSeq(<<m>> \o already, 1, IF Len(already) < LruSize THEN Len(already) + 1 ELSE LruSize)

\* Any match that is old enough; the broadcast may be anywhere, and over.
Choose(t, m) ==
    /\ task[t] = Free
    /\ m \in view \ (Remembered \cup downloading)
    /\ view' = {}
    /\ already' = Remember(m)
    /\ downloading' = downloading \cup {m}
    /\ \E high \in 1..Last :
         Becomes(t, [at |-> "init", match |-> m, alive |-> TRUE, high |-> high, n |-> 0, first |-> 0,
                     type |-> "full", notFound |-> 0, hard |-> FALSE, sent |-> <<>>])
    /\ UNCHANGED <<botVars, stored, faults, restarts>>

-----------------------------------------------------------------------------
(* The download.                                                           *)

At(t, step) == task[t].at = step

\* get_initial_sync, whose answer names a fragment the broadcast has.
InitialSync(t) ==
    /\ At(t, "init") /\ task[t].alive
    /\ \E n \in 1..task[t].high :
         Becomes(t, [task[t] EXCEPT !.at = "sync", !.n = n, !.first = n])
    /\ OnlyTask /\ UNCHANGED faults

ToFetch(s) == [s EXCEPT !.at = "fetch", !.notFound = 0,
                        !.type = IF s.n = s.first THEN "full" ELSE "delta"]

\* The top of the loop: after a fragment was given up, sync may move it forward.
Sync(t) ==
    /\ At(t, "sync") /\ task[t].alive
    /\ IF task[t].hard
       THEN \E n \in 1..task[t].high :
              Becomes(t, ToFetch([task[t] EXCEPT !.n = IF n > task[t].n THEN n ELSE task[t].n]))
       ELSE Becomes(t, ToFetch(task[t]))
    /\ OnlyTask /\ UNCHANGED faults

\* Every exit of the download without the last fragment: sync is gone, or seems so, or a
\* request fails for good.
Abandon(t) ==
    /\ task[t].at \in Downloading
    /\ Becomes(t, Ending(task[t].match, FALSE, "post"))
    /\ OnlyTask /\ UNCHANGED faults

\* Behind the last fragment all are alike.
Advanced(s) ==
    IF s.type = "full" THEN [s EXCEPT !.type = "delta", !.notFound = 0]
    ELSE [s EXCEPT !.at = "sync", !.n = IF s.n <= Last THEN s.n + 1 ELSE s.n]

Has(s) == s.alive /\ s.n <= s.high

\* The delta of the last fragment ends the match, with its metadata or without; when its
\* analysis fails it is a fragment like the others, and none follows.
Fetch(t) ==
    /\ At(t, "fetch") /\ Has(task[t])
    /\ \/ /\ task[t].n = Last /\ task[t].type = "delta"
          /\ \E meta \in BOOLEAN : Becomes(t, Ending(task[t].match, meta, "post"))
       \/ Becomes(t, Advanced([task[t] EXCEPT !.sent = Append(@, <<task[t].n, task[t].type>>)]))
    /\ OnlyTask /\ UNCHANGED faults

\* From the second time on sync is asked; in the end the fragment is given up.
GivenUp(s) == Advanced([s EXCEPT !.hard = TRUE])

NotFound(t) ==
    /\ At(t, "fetch") /\ ~Has(task[t])
    /\ IF task[t].notFound = 0 THEN Becomes(t, [task[t] EXCEPT !.notFound = 1])
       ELSE IF ~task[t].alive THEN Becomes(t, Ending(task[t].match, FALSE, "post"))
       ELSE IF task[t].notFound < MaxNotFound THEN Becomes(t, [task[t] EXCEPT !.notFound = @ + 1])
       ELSE Becomes(t, GivenUp(task[t]))
    /\ OnlyTask /\ UNCHANGED faults

\* Mutant: a fragment that met a network error is passed over.
PassOver(t) ==
    /\ At(t, "fetch")
    /\ Becomes(t, Advanced(task[t])) /\ OnlyTask /\ UNCHANGED faults

\* The same fragment is asked for again, as often as it takes and without asking sync.
NetworkError(t) ==
    /\ At(t, "fetch")
    /\ UNCHANGED vars

Produce(t) ==
    /\ task[t].at \in Downloading /\ task[t].alive /\ task[t].high < Last
    /\ Becomes(t, [task[t] EXCEPT !.high = @ + 1])
    /\ OnlyTask /\ UNCHANGED faults

BroadcastEnds(t) ==
    /\ task[t].at \in Downloading /\ task[t].alive
    /\ Becomes(t, [task[t] EXCEPT !.alive = FALSE])
    /\ OnlyTask /\ UNCHANGED faults

-----------------------------------------------------------------------------
(* The end of a task.                                                      *)

\* match-ended, whose failure is logged.
Post(t) ==
    /\ At(t, "post")
    /\ Becomes(t, [task[t] EXCEPT !.at = "ended"])
    /\ spectated' \in {spectated, spectated \ {task[t].match}}
    /\ UNCHANGED <<todo, view, already, downloading, stored, faults, restarts>>

Ended(t) ==
    /\ At(t, "ended")
    /\ downloading' = downloading \ {task[t].match}
    /\ Becomes(t, IF task[t].meta THEN [task[t] EXCEPT !.at = "push"] ELSE Free)
    /\ UNCHANGED <<botVars, view, already, stored, faults, restarts>>

\* The copy in the cache bucket is written at the same time; its outcome changes nothing.
Push(t) ==
    /\ At(t, "push")
    /\ stored' = stored \cup {task[t].match}
    /\ Becomes(t, Free)
    /\ UNCHANGED <<botVars, view, already, downloading, faults, restarts>>

\* Mutant: a failed upload is only logged.
GiveUpPush(t) ==
    /\ At(t, "push")
    /\ Fault
    /\ Becomes(t, Free)
    /\ OnlyTask

PushFails(t) ==
    /\ At(t, "push")
    /\ Fault
    /\ Becomes(t, [task[t] EXCEPT !.at = "local"])
    /\ OnlyTask

StoreLocally(t) ==
    /\ At(t, "local")
    /\ stored' = stored \cup {task[t].match}
    /\ Becomes(t, Free)
    /\ UNCHANGED <<botVars, view, already, downloading, faults, restarts>>

StoreFails(t) ==
    /\ At(t, "local")
    /\ Fault
    /\ Becomes(t, Free)
    /\ OnlyTask

Restart ==
    /\ restarts < MaxRestarts
    /\ restarts' = restarts + 1
    /\ view' = {} /\ already' = <<>> /\ downloading' = {}
    /\ task' = [t \in Tasks |-> Free]
    /\ UNCHANGED <<botVars, stored, faults>>

-----------------------------------------------------------------------------

TaskStep(t) ==
    \/ InitialSync(t) \/ Sync(t) \/ Abandon(t) \/ Fetch(t) \/ NotFound(t)
    \/ Post(t) \/ Ended(t) \/ Push(t) \/ PushFails(t) \/ StoreLocally(t) \/ StoreFails(t)

Next ==
    \/ BotNext /\ UNCHANGED scraperVars
    \/ GetMatches
    \/ \E t \in Tasks :
        \/ \E m \in Matches : Choose(t, m)
        \/ TaskStep(t) \/ NetworkError(t) \/ Produce(t) \/ BroadcastEnds(t)
    \/ Restart

\* A task goes on, so network errors do not follow each other for ever (the loop around a
\* fragment would), and a broadcast ends with its match.
Fairness == \A t \in Tasks : WF_vars(TaskStep(t)) /\ WF_vars(BroadcastEnds(t))

Spec == Init /\ [][Next]_vars /\ Fairness

-----------------------------------------------------------------------------
(* Properties.                                                             *)

TypeOK ==
    /\ BotTypeOK
    /\ view \subseteq Matches
    /\ already \in Seq(Matches) /\ Len(already) <= LruSize
    /\ downloading \subseteq Matches
    /\ task \in [Tasks -> Download \cup End \cup {Free}]
    /\ stored \subseteq Matches
    /\ faults \in 0..MaxFaults /\ restarts \in 0..MaxRestarts

Expected(first, i) == IF i = 1 THEN <<first, "full">> ELSE <<first + i - 2, "delta">>

\* Unless a fragment was given up, what a download delivers is the first fragment twice, full
\* and as a delta, and every later one, in order and without a hole, whatever requests
\* failed in between (hltv_download.rs:173-278).
DeliveredInOrder ==
    \A t \in Tasks : task[t].at \in Downloading /\ ~task[t].hard =>
        LET s == task[t]
        IN /\ \A i \in DOMAIN s.sent : s.sent[i] = Expected(s.first, i)
           /\ s.at = "fetch" => <<s.n, s.type>> = Expected(s.first, Len(s.sent) + 1)

\* Every download ends, and the metadata that one got is stored for ingestion or, when that
\* fails, locally, unless the disk fails too or the scraper restarts: match-ended was posted
\* before and nobody downloads the match again (scrape_hltv.rs:117-171).
DownloadsEndWell ==
    \A t \in Tasks :
        /\ task[t] # Free ~> task[t] = Free
        /\ \A m \in Matches :
             task[t].at = "post" /\ task[t].match = m /\ task[t].meta
                 ~> m \in stored \/ faults >= 2 \/ restarts > 0
=============================================================================
