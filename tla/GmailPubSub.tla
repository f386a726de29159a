---------------------------- MODULE GmailPubSub ----------------------------
(***************************************************************************)
(* New mail through Cloud Pub/Sub: the Gmail watch and its renewal         *)
(* (GmailWatchManager), the pull daemon (PubSubPullDaemon), the handlers   *)
(* it starts without awaiting them, which list the mailbox's history and   *)
(* fetch mail by mail (GmailApiTransport), and the process around them.    *)
(*                                                                         *)
(* Mails are numbered 1, 2, ...; a mail's number is also the history id    *)
(* the mailbox has after it and the notification Gmail publishes for it.   *)
(***************************************************************************)
EXTENDS Integers, Sequences, FiniteSets

CONSTANTS
    MaxMails,        \* bound: mails that arrive
    PageSize,        \* history records Gmail puts on one page
    MaxMessages,     \* PubSubPullOptions.maxMessages
    MaxCache,        \* GmailApiTransport.MAX_CACHE
    MaxFaults,       \* bound: calls that fail, watch renewals apart
    MaxRenewalFails, \* bound: watch renewals that fail
    MaxRestarts      \* bound: times the process ends

Mails == 1..MaxMails

ASSUME GmailAssumption ==
    /\ {MaxMails, MaxFaults, MaxRenewalFails, MaxRestarts} \subseteq Nat
    /\ {PageSize, MaxMessages, MaxCache} \subseteq Nat \ {0}

VARIABLES
    arrived,   \* Gmail: the newest mail, and the mailbox's history id
    watch,     \* Gmail: a watch publishes notifications
    sub,       \* Pub/Sub: notifications not acknowledged
    acked,     \* Pub/Sub: notifications acknowledged
    proc,      \* the process, and the await of connect() or disconnect() it is in
    historyId, \* GmailWatchManager.state.historyId
    timer,     \* GmailWatchManager.renewalTimer: "none", "renew", "retry"
    renewal,   \* the renewWatch() call in flight: the timer it came from, its currentHistoryId
    pull,      \* PubSubPullDaemon.doPull(): "idle", "asked", "acking"
    leased,    \* its ackIds
    pulls,     \* history: pulls that returned something
    handlers,  \* the handlePubSubNotification() calls in flight
    processed, \* GmailApiTransport.processedIds, oldest first
    delivered, \* history: calls of handlers.onEmail for each mail
    missed,    \* history: mails a failing call kept a handler from fetching
    base,      \* history: the history id the process connected with
    faults, renewalFails, restarts

mailbox == <<arrived, watch>>
renewing == <<timer, renewal>>
daemon  == <<pull, leased, pulls>>
ledger  == <<processed, delivered, missed>>
bounds  == <<faults, renewalFails, restarts>>
vars == <<mailbox, sub, acked, proc, historyId, renewing, daemon, handlers, ledger, base, bounds>>

NoRenewal == [from |-> "none", hist |-> 0]

\* A handler: its notification and pull, its lastHistoryId, and the mail whose
\* getMessage it awaits out of those up to last; at = 0 while it awaits listHistory.
Handler(n, p, since, at, last) == [n |-> n, pull |-> p, since |-> since, at |-> at, last |-> last]

Processed == {processed[i] : i \in 1..Len(processed)}

Init ==
    /\ arrived = 0 /\ watch = FALSE /\ sub = {} /\ acked = {}
    /\ proc = "profile"
    /\ historyId = 0 /\ timer = "none" /\ renewal = NoRenewal
    /\ pull = "idle" /\ leased = {} /\ pulls = 0
    /\ handlers = {} /\ processed = <<>>
    /\ delivered = [m \in Mails |-> 0] /\ missed = {} /\ base = 0
    /\ faults = 0 /\ renewalFails = 0 /\ restarts = 0

-----------------------------------------------------------------------------
(* Gmail *)

MailArrives ==
    /\ arrived < MaxMails
    /\ arrived' = arrived + 1
    /\ sub' = IF watch THEN sub \cup {arrived + 1} ELSE sub
    /\ UNCHANGED <<watch, acked, proc, historyId, renewing, daemon, handlers, ledger, base, bounds>>

\* A watch lasts seven days. A renewal comes after six, its retry an hour later:
\* both are in time, so a watch only expires when neither is to come.
WatchExpires ==
    /\ watch
    /\ timer = "none" /\ renewal = NoRenewal
    /\ watch' = FALSE
    /\ UNCHANGED <<arrived, sub, acked, proc, historyId, renewing, daemon, handlers, ledger, base, bounds>>

-----------------------------------------------------------------------------
(* connect() and disconnect() *)

GetProfile ==
    /\ proc = "profile"
    /\ proc' = "watch"
    /\ historyId' = arrived
    /\ base' = arrived
    /\ UNCHANGED <<mailbox, sub, acked, renewing, daemon, handlers, ledger, bounds>>

CreateWatch ==
    /\ proc = "watch"
    /\ proc' = "token"
    /\ watch' = TRUE
    /\ historyId' = base
    /\ timer' = "renew"
    /\ UNCHANGED <<arrived, sub, acked, renewal, daemon, handlers, ledger, base, bounds>>

\* PubSubPullDaemon.start() has its token; pulling begins.
StartDaemon ==
    /\ proc = "token"
    /\ proc' = "up"
    /\ UNCHANGED <<mailbox, sub, acked, historyId, renewing, daemon, handlers, ledger, base, bounds>>

\* The container runs on without Gmail; a renewal timer stays armed.
ConnectFails ==
    /\ proc \in {"profile", "watch", "token"}
    /\ faults < MaxFaults
    /\ proc' = "failed"
    /\ faults' = faults + 1
    /\ UNCHANGED <<mailbox, sub, acked, historyId, renewing, daemon, handlers, ledger, base,
                   renewalFails, restarts>>

\* The daemon's and the renewal's timers are cleared, then users.stop is awaited.
Disconnect ==
    /\ proc = "up"
    /\ restarts < MaxRestarts
    /\ proc' = "stopping"
    /\ timer' = "none"
    /\ UNCHANGED <<mailbox, sub, acked, historyId, renewal, daemon, handlers, ledger, base, bounds>>

\* Success or failure, stopWatch() returns.
StopWatchReturns(ok) ==
    /\ proc = "stopping"
    /\ ok \/ faults < MaxFaults
    /\ proc' = "stopped"
    /\ watch' = (watch /\ ~ok)
    /\ faults' = IF ok THEN faults ELSE faults + 1
    /\ UNCHANGED <<arrived, sub, acked, historyId, renewing, daemon, handlers, ledger, base,
                   renewalFails, restarts>>

\* The end of shutdown(), a crash, or a power cut: memory is gone, the watch and
\* the subscription are not.
ProcessEnds ==
    /\ proc # "down"
    /\ restarts < MaxRestarts
    /\ proc' = "down"
    /\ restarts' = restarts + 1
    /\ historyId' = 0 /\ timer' = "none" /\ renewal' = NoRenewal
    /\ pull' = "idle" /\ leased' = {}
    /\ handlers' = {} /\ processed' = <<>>
    /\ UNCHANGED <<mailbox, sub, acked, pulls, delivered, missed, base, faults, renewalFails>>

\* The container is started again.
Start ==
    /\ proc = "down"
    /\ proc' = "profile"
    /\ UNCHANGED <<mailbox, sub, acked, historyId, renewing, daemon, handlers, ledger, base, bounds>>

-----------------------------------------------------------------------------
(* Watch renewal *)

\* renewWatch() notes the history id before it awaits users.watch.
RenewalDue ==
    /\ timer # "none" /\ renewal = NoRenewal
    /\ renewal' = [from |-> timer, hist |-> historyId]
    /\ timer' = "none"
    /\ UNCHANGED <<mailbox, sub, acked, proc, historyId, daemon, handlers, ledger, base, bounds>>

\* The state it noted is written back whole.
RenewalSucceeds ==
    /\ renewal # NoRenewal
    /\ renewal' = NoRenewal
    /\ watch' = TRUE
    /\ historyId' = renewal.hist
    /\ timer' = "renew"
    /\ UNCHANGED <<arrived, sub, acked, proc, daemon, handlers, ledger, base, bounds>>

\* The first failure arms the retry, the retry's failure is swallowed.
RenewalFails ==
    /\ renewal # NoRenewal
    /\ renewalFails < MaxRenewalFails
    /\ renewal' = NoRenewal
    /\ renewalFails' = renewalFails + 1
    /\ timer' = IF renewal.from = "renew" THEN "retry" ELSE timer
    /\ UNCHANGED <<mailbox, sub, acked, proc, historyId, daemon, handlers, ledger, base,
                   faults, restarts>>

-----------------------------------------------------------------------------
(* The pull daemon *)

\* doPull(), guarded by running and pulling.
PullStarts ==
    /\ proc = "up" /\ pull = "idle"
    /\ pull' = "asked"
    /\ UNCHANGED <<mailbox, sub, acked, proc, historyId, renewing, leased, pulls, handlers, ledger,
                   base, bounds>>

PullFinds(ns) ==
    /\ pull = "asked"
    /\ ns # {} /\ Cardinality(ns) <= MaxMessages
    /\ pull' = "acking"
    /\ leased' = ns
    /\ pulls' = pulls + 1
    /\ handlers' = handlers \cup {Handler(n, pulls + 1, historyId, 0, 0) : n \in ns}
    /\ UNCHANGED <<mailbox, sub, acked, proc, historyId, renewing, ledger, base, bounds>>

PullFindsNothing ==
    /\ pull = "asked"
    /\ sub = {}
    /\ pull' = "idle"
    /\ UNCHANGED <<mailbox, sub, acked, proc, historyId, renewing, leased, pulls, handlers, ledger,
                   base, bounds>>

PullFails ==
    /\ pull = "asked"
    /\ faults < MaxFaults
    /\ pull' = "idle"
    /\ faults' = faults + 1
    /\ UNCHANGED <<mailbox, sub, acked, proc, historyId, renewing, leased, pulls, handlers, ledger,
                   base, renewalFails, restarts>>

\* Mutant: pulling is not reset at the end.
MutKeepsPulling ==
    /\ pull = "acking"
    /\ sub' = sub \ leased
    /\ acked' = acked \cup leased
    /\ leased' = {}
    /\ UNCHANGED <<mailbox, proc, historyId, renewing, pull, pulls, handlers, ledger, base, bounds>>

Acknowledge ==
    /\ pull = "acking"
    /\ pull' = "idle"
    /\ sub' = sub \ leased
    /\ acked' = acked \cup leased
    /\ leased' = {}
    /\ UNCHANGED <<mailbox, proc, historyId, renewing, pulls, handlers, ledger, base, bounds>>

\* Only logged: Pub/Sub will deliver them again.
AcknowledgeFails ==
    /\ pull = "acking"
    /\ faults < MaxFaults
    /\ pull' = "idle"
    /\ leased' = {}
    /\ faults' = faults + 1
    /\ UNCHANGED <<mailbox, sub, acked, proc, historyId, renewing, pulls, handlers, ledger, base,
                   renewalFails, restarts>>

-----------------------------------------------------------------------------
(* The handler of a notification *)

\* at is the first mail from m to last that is not processed, or last + 1.
NextMail(at, m, last, done) ==
    /\ \A i \in m..(at - 1) : i \in done
    /\ at <= last => at \notin done

UpdateHistoryId(n) == IF n > historyId THEN n ELSE historyId

\* A handler goes on from mail m: it awaits the next getMessage, or the loop is
\* over and it moves the history id.
GoOn(h, m, last, done) ==
    \E at \in m..(last + 1) :
        /\ NextMail(at, m, last, done)
        /\ IF at <= last
           THEN /\ handlers' = (handlers \ {h}) \cup {Handler(h.n, h.pull, h.since, at, last)}
                /\ UNCHANGED historyId
           ELSE /\ handlers' = handlers \ {h}
                /\ historyId' = UpdateHistoryId(h.n)

\* listHistory answers with the first page of what came after since.
FirstPage(since) == IF since + PageSize < arrived THEN since + PageSize ELSE arrived

\* Mutant: The history id moved when the list arrives, before the mails are fetched.
MutListHistory(h) ==
    /\ h.at = 0
    /\ \E at \in (h.since + 1)..(FirstPage(h.since) + 1) :
        /\ NextMail(at, h.since + 1, FirstPage(h.since), Processed)
        /\ handlers' = (handlers \ {h}) \cup
             (IF at <= FirstPage(h.since)
              THEN {Handler(h.n, h.pull, h.since, at, FirstPage(h.since))} ELSE {})
    /\ historyId' = UpdateHistoryId(h.n)
    /\ UNCHANGED <<mailbox, sub, acked, proc, renewing, daemon, ledger, base, bounds>>

ListHistory(h) ==
    /\ h.at = 0
    /\ GoOn(h, h.since + 1, FirstPage(h.since), Processed)
    /\ UNCHANGED <<mailbox, sub, acked, proc, renewing, daemon, ledger, base, bounds>>

\* The history id stays, and the notification is acknowledged all the same.
ListHistoryFails(h) ==
    /\ h.at = 0
    /\ faults < MaxFaults
    /\ faults' = faults + 1
    /\ handlers' = handlers \ {h}
    /\ missed' = missed \cup ((h.since + 1)..h.n)
    /\ UNCHANGED <<mailbox, sub, acked, proc, historyId, renewing, daemon, processed, delivered,
                   base, renewalFails, restarts>>

\* deliverEmail() and trackId(): another handler may have delivered the mail meanwhile.
Track(m) ==
    LET all == Append(processed, m)
    IN  IF Len(all) > MaxCache THEN Tail(all) ELSE all

\* Mutant: deliverEmail() without its own look at processedIds.
MutDeliverEmail(m) ==
    /\ processed' = Track(m)
    /\ delivered' = [delivered EXCEPT ![m] = @ + 1]

DeliverEmail(m) ==
    IF m \in Processed
    THEN UNCHANGED <<processed, delivered>>
    ELSE /\ processed' = Track(m)
         /\ delivered' = [delivered EXCEPT ![m] = @ + 1]

GetMessage(h) ==
    /\ h.at # 0
    /\ DeliverEmail(h.at)
    /\ GoOn(h, h.at + 1, h.last, Processed')
    /\ UNCHANGED <<mailbox, sub, acked, proc, renewing, daemon, missed, base, bounds>>

\* The error of one mail is logged and the loop goes on.
GetMessageFails(h) ==
    /\ h.at # 0
    /\ faults < MaxFaults
    /\ faults' = faults + 1
    /\ missed' = missed \cup {h.at}
    /\ GoOn(h, h.at + 1, h.last, Processed)
    /\ UNCHANGED <<mailbox, sub, acked, proc, renewing, daemon, processed, delivered, base,
                   renewalFails, restarts>>

-----------------------------------------------------------------------------
HandlerMoves == \E h \in handlers : ListHistory(h) \/ GetMessage(h)

Next ==
    \/ MailArrives \/ WatchExpires
    \/ GetProfile \/ CreateWatch \/ StartDaemon \/ ConnectFails
    \/ Disconnect \/ ProcessEnds \/ Start
    \/ \E ok \in BOOLEAN : StopWatchReturns(ok)
    \/ RenewalDue \/ RenewalSucceeds \/ RenewalFails
    \/ PullStarts \/ PullFindsNothing \/ PullFails \/ Acknowledge \/ AcknowledgeFails
    \/ \E ns \in SUBSET sub : PullFinds(ns)
    \/ \E h \in handlers :
          ListHistory(h) \/ ListHistoryFails(h) \/ GetMessage(h) \/ GetMessageFails(h)

Spec == Init /\ [][Next]_vars

\* The pull timer is periodic, Google's answers and renewal timers come, the
\* health check restarts the container.
Fairness ==
    /\ WF_vars(GetProfile) /\ WF_vars(CreateWatch) /\ WF_vars(StartDaemon) /\ WF_vars(Start)
    /\ WF_vars(PullStarts) /\ WF_vars(PullFindsNothing) /\ WF_vars(Acknowledge)
    /\ WF_vars(\E ns \in SUBSET sub : PullFinds(ns))
    /\ WF_vars(HandlerMoves)
    /\ WF_vars(RenewalDue) /\ WF_vars(RenewalSucceeds)

FairSpec == Spec /\ Fairness

-----------------------------------------------------------------------------
(* Properties *)

Procs == {"profile", "watch", "token", "up", "failed", "stopping", "stopped", "down"}

\* The variables keep their types, and the history id never passes the mailbox's.
TypeOK ==
    /\ arrived \in 0..MaxMails /\ watch \in BOOLEAN
    /\ sub \subseteq 1..arrived /\ acked \subseteq 1..arrived /\ leased \subseteq sub
    /\ proc \in Procs
    /\ historyId \in 0..arrived /\ base \in 0..arrived
    /\ timer \in {"none", "renew", "retry"}
    /\ renewal.from \in {"none", "renew", "retry"} /\ renewal.hist \in 0..arrived
    /\ pull \in {"idle", "asked", "acking"} /\ pulls \in Nat
    /\ \A h \in handlers :
          /\ h.n \in 1..arrived /\ h.pull \in 1..pulls
          /\ h.since \in 0..arrived /\ h.at \in 0..h.last /\ h.last \in 0..arrived
    /\ processed \in Seq(Mails) /\ Len(processed) <= MaxCache
    /\ delivered \in [Mails -> Nat] /\ missed \subseteq Mails
    /\ faults \in 0..MaxFaults /\ renewalFails \in 0..MaxRenewalFails /\ restarts \in 0..MaxRestarts

Accounted(m) == delivered[m] > 0 \/ m \in missed

\* Everything between the history id the process connected with and the one it will
\* list from next was handed to the adapter, or a call for it failed: handlers that
\* overlap and a renewal that writes an old history id back never skip a mail.
Covered == \A m \in (base + 1)..historyId : Accounted(m)

\* A mail is handed to the adapter at most once, however many notifications,
\* redeliveries and overlapping handlers list it, and after restarts too.
DeliveredOnce == \A m \in Mails : delivered[m] <= 1

\* An acknowledged notification will not come again: its mail was delivered, a call for
\* it failed, or a handler that covers it is still at work. Mail from before the process
\* connected is the exception: no handler will list it.
AckedAccounted ==
    proc \in {"up", "stopping", "stopped"} =>
        \A n \in acked : \/ n <= base
                         \/ Accounted(n)
                         \/ \E h \in handlers : h.since < n /\ n <= h.n

\* Every mail reaches the adapter once (handleNotification, acknowledge): never twice, and
\* not lost with the notification that was acknowledged for it.
DeliveredExactly == DeliveredOnce /\ AckedAccounted

\* The mail of every notification is delivered although pulls, handlers and renewals
\* overlap, unless a call fails, the channel is stopped, or the process connects anew
\* and starts from a later history id.
NotifiedDelivered ==
    \A n \in Mails :
        n \in sub ~> (delivered[n] > 0 \/ n <= base \/ faults > 0 \/ proc \in {"stopping", "stopped"})
=============================================================================
