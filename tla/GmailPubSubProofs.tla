------------------------- MODULE GmailPubSubProofs -------------------------
(***************************************************************************)
(* Covered for every number of mails, faults, renewals and restarts, as    *)
(* long as one page of history holds the mails.                            *)
(*                                                                         *)
(* Covered alone is not inductive: a renewal in flight writes back the     *)
(* history id it noted, and a handler moves it to its notification's.  The *)
(* invariant therefore says that what they hold is covered as well, and    *)
(* that a handler at mail a has accounted for all mails before a.          *)
(*                                                                         *)
(* DeliveredExactly adds that nothing in memory points before the history  *)
(* id the process connected with, so that what was delivered since then is *)
(* still in the cache where the cache is large enough, and that the        *)
(* notifications being acknowledged are settled already.                   *)
(***************************************************************************)
EXTENDS GmailPubSub, SequenceTheorems, FiniteSetTheorems, TLAPS

CoveredTo(k) == \A m \in Mails : base < m /\ m <= k => Accounted(m)

HandlerSet == [n : Mails, pull : Nat, since : 0..MaxMails, at : 0..MaxMails, last : 0..MaxMails]

HandlerInv(h) ==
    /\ h.n <= arrived /\ h.since <= arrived /\ h.last <= arrived
    /\ CoveredTo(h.since)
    /\ h.at # 0 => h.at <= h.last /\ h.n <= h.last /\ CoveredTo(h.at - 1)

Types ==
    /\ arrived \in 0..MaxMails
    /\ sub \subseteq 1..arrived
    /\ historyId \in 0..arrived /\ base \in 0..arrived
    /\ renewal.hist \in 0..arrived
    /\ pulls \in Nat
    /\ processed \in Seq(Mails)
    /\ delivered \in [Mails -> Nat]
    /\ handlers \subseteq HandlerSet

CacheBacked == \A m \in Processed : delivered[m] > 0

HandlersCovered == \A h \in handlers : HandlerInv(h)

IInv == Types /\ CacheBacked /\ CoveredTo(historyId) /\ CoveredTo(renewal.hist) /\ HandlersCovered

\* What is accounted for stays so while the ledger only grows.
LEMMA CoveredGrows ==
    ASSUME NEW k \in Int, CoveredTo(k), base' >= base, base \in Int, base' \in Int,
           \A m \in Mails : Accounted(m) => Accounted(m)'
    PROVE  CoveredTo(k)'
  BY GmailAssumption DEF CoveredTo, Mails

\* So do the facts about a handler.
LEMMA HandlerKept ==
    ASSUME NEW h \in HandlerSet, HandlerInv(h), base' >= base, base \in Int, base' \in Int,
           arrived' >= arrived, arrived \in Int, arrived' \in Int,
           \A m \in Mails : Accounted(m) => Accounted(m)'
    PROVE  HandlerInv(h)'
  <1>1. h.n \in Int /\ h.since \in Int /\ h.last \in Int /\ h.at \in Int /\ h.at - 1 \in Int
    BY GmailAssumption DEF HandlerSet, Mails
  <1>2. CoveredTo(h.since)'
    BY <1>1, CoveredGrows DEF HandlerInv
  <1>3. h.at # 0 => CoveredTo(h.at - 1)'
    BY <1>1, CoveredGrows DEF HandlerInv
  <1> QED  BY <1>1, <1>2, <1>3 DEF HandlerInv

\* A handler that goes on past mails that are accounted for keeps everything covered:
\* the next mail of its list, or the history id when the list is done.
LEMMA GoOnKeeps ==
    ASSUME IInv, NEW h \in handlers, NEW m \in Int, NEW last \in Int, NEW done,
           GoOn(h, m, last, done),
           1 <= m, m <= last + 1, h.n <= last, last <= arrived,
           CoveredTo(m - 1)', \A i \in Mails : i \in done => Accounted(i)',
           \A i \in Mails : Accounted(i) => Accounted(i)',
           base' = base, arrived' = arrived, renewal' = renewal
    PROVE  /\ historyId' \in 0..arrived' /\ handlers' \subseteq HandlerSet
           /\ CoveredTo(historyId)' /\ HandlersCovered'
  <1>0. /\ h \in HandlerSet /\ HandlerInv(h) /\ arrived \in 0..MaxMails /\ MaxMails \in Nat
        /\ base \in Int /\ historyId \in 0..arrived
    BY GmailAssumption DEF IInv, Types, HandlersCovered
  <1>1. \A g \in handlers : HandlerInv(g)' /\ g \in HandlerSet
    BY HandlerKept, <1>0 DEF IInv, Types, HandlersCovered
  <1>3. PICK at \in m..(last + 1) :
            /\ NextMail(at, m, last, done)
            /\ IF at <= last
               THEN /\ handlers' = (handlers \ {h}) \cup {Handler(h.n, h.pull, h.since, at, last)}
                    /\ UNCHANGED historyId
               ELSE /\ handlers' = handlers \ {h}
                    /\ historyId' = UpdateHistoryId(h.n)
    BY DEF GoOn
  <1>4. \A i \in Mails : base < i /\ i <= at - 1 => Accounted(i)'
    <2> SUFFICES ASSUME NEW i \in Mails, base < i, i <= at - 1 PROVE Accounted(i)'
      OBVIOUS
    <2>1. i \in Int /\ at \in Int  BY <1>0 DEF Mails
    <2>2. CASE i <= m - 1  BY <2>1, <2>2 DEF CoveredTo
    <2>3. CASE i >= m
      <3>1. i \in m..(at - 1)  BY <2>1, <2>3
      <3> QED  BY <3>1, <1>3 DEF NextMail
    <2> QED  BY <2>1, <2>2, <2>3
  <1>5. CoveredTo(at - 1)'
    BY <1>4 DEF CoveredTo
  <1>6. historyId \in Int /\ CoveredTo(historyId)
    BY <1>0 DEF IInv
  <1>7. \A k \in Int : CoveredTo(k) => \A i \in Mails : base' < i /\ i <= k => Accounted(i)'
    BY DEF CoveredTo
  <1>8. CASE at <= last
    <2>1. historyId' = historyId  BY <1>3, <1>8
    <2>2. CoveredTo(historyId)'
      BY <2>1, <1>6, <1>7 DEF CoveredTo
    <2>3. Handler(h.n, h.pull, h.since, at, last) \in HandlerSet
      BY <1>0, <1>8 DEF Handler, HandlerSet
    <2>4. HandlerInv(Handler(h.n, h.pull, h.since, at, last))'
      <3>1. CoveredTo(h.since)'  BY <1>1 DEF HandlerInv
      <3>2. h.n <= arrived /\ h.since <= arrived  BY <1>0 DEF HandlerInv
      <3> QED  BY <3>1, <3>2, <1>5, <1>8, <1>0 DEF HandlerInv, Handler
    <2> QED  BY <2>1, <2>2, <2>3, <2>4, <1>0, <1>1, <1>3, <1>8 DEF HandlersCovered
  <1>9. CASE ~(at <= last)
    <2>1. at = last + 1  BY <1>9
    <2>2. historyId' = UpdateHistoryId(h.n) /\ handlers' = handlers \ {h}  BY <1>3, <1>9
    <2>3. h.n \in Int /\ h.n >= 0 /\ h.n <= arrived  BY <1>0 DEF HandlerSet, Mails, HandlerInv
    <2>4. \A i \in Mails : base' < i /\ i <= h.n => Accounted(i)'
      BY <1>4, <2>1, <2>3, <1>0 DEF Mails
    <2>5. historyId' \in 0..arrived'
      BY <2>2, <2>3, <1>0 DEF UpdateHistoryId
    <2>6. CoveredTo(historyId)'
      <3>1. CASE historyId' = h.n  BY <3>1, <2>4 DEF CoveredTo
      <3>2. CASE historyId' = historyId  BY <3>2, <1>6, <1>7 DEF CoveredTo
      <3> QED  BY <3>1, <3>2, <2>2 DEF UpdateHistoryId
    <2> QED  BY <2>2, <2>5, <2>6, <1>1 DEF HandlersCovered
  <1> QED  BY <1>8, <1>9

\* The cache only forgets: what it holds after a delivery it held before, or is the new mail.
LEMMA TrackHolds ==
    ASSUME NEW m \in Mails, processed \in Seq(Mails), processed' = Track(m)
    PROVE  processed' \in Seq(Mails) /\ \A x \in Processed' : x = m \/ x \in Processed
  <1> DEFINE all == Append(processed, m)
  <1>1. all \in Seq(Mails) /\ Len(all) = Len(processed) + 1
    OBVIOUS
  <1>2. \A i \in 1..Len(all) : all[i] = m \/ all[i] \in Processed
    BY DEF Processed
  <1>3. CASE processed' = all
    BY <1>1, <1>2, <1>3 DEF Processed
  <1>4. CASE processed' = Tail(all)
    <2>1. \A i \in 1..Len(Tail(all)) : Tail(all)[i] = all[i + 1] /\ i + 1 \in 1..Len(all)
      BY <1>1
    <2>2. Tail(all) \in Seq(Mails)  BY <1>1, HeadTailProperties, EmptySeq
    <2>3. \A x \in Processed' : x = m \/ x \in Processed
      BY <1>2, <1>4, <2>1 DEF Processed
    <2> QED  BY <1>4, <2>2, <2>3
  <1> QED  BY <1>3, <1>4 DEF Track

LEMMA InitCovered == Init => IInv
  <1> SUFFICES ASSUME Init PROVE IInv  OBVIOUS
  <1>1. Types  BY GmailAssumption DEF Init, Types, NoRenewal, HandlerSet
  <1>2. CacheBacked  BY DEF Init, CacheBacked, Processed
  <1>3. CoveredTo(historyId) /\ CoveredTo(renewal.hist)
    BY GmailAssumption DEF Init, CoveredTo, NoRenewal, Mails
  <1>4. HandlersCovered  BY DEF Init, HandlersCovered
  <1> QED  BY <1>1, <1>2, <1>3, <1>4 DEF IInv

\* The steps in which no handler moves: the ledger stays, the connection's start and the
\* mailbox's history id only grow, and no handler appears that is not covered.
LEMMA QuietStep ==
    ASSUME IInv, processed' = processed, delivered' = delivered, missed \subseteq missed',
           arrived' \in arrived..MaxMails, base' \in base..arrived',
           sub' \subseteq 1..arrived', pulls' \in Nat,
           historyId' \in 0..arrived', renewal'.hist \in 0..arrived',
           \/ historyId' <= base' \/ historyId' = historyId \/ historyId' = renewal.hist,
           \/ renewal'.hist <= base' \/ renewal'.hist = renewal.hist \/ renewal'.hist = historyId,
           \A h \in handlers' : h \in handlers \/ (h \in HandlerSet /\ HandlerInv(h)')
    PROVE  IInv'
  <1>1. \A m \in Mails : Accounted(m) => Accounted(m)'
    BY DEF Accounted
  <1>2. /\ arrived \in Int /\ arrived' \in Int /\ base \in Int /\ base' \in Int
        /\ arrived' >= arrived /\ base' >= base /\ historyId \in Int /\ historyId' \in Int
        /\ renewal.hist \in Int /\ renewal'.hist \in Int
    <2>1. arrived \in 0..MaxMails /\ base \in 0..arrived /\ historyId \in 0..arrived /\ renewal.hist \in 0..arrived
      BY DEF IInv, Types
    <2>2. MaxMails \in Nat /\ arrived \in Int /\ arrived' \in Int /\ arrived' >= arrived
      BY <2>1, GmailAssumption
    <2>3. base \in Int /\ base' \in Int /\ base' >= base
      BY <2>1, <2>2
    <2>4. historyId \in Int /\ historyId' \in Int /\ renewal.hist \in Int /\ renewal'.hist \in Int
      BY <2>1, <2>2
    <2> QED
      BY <2>2, <2>3, <2>4
  <1>3. \A k \in Int : CoveredTo(k) => \A m \in Mails : base' < m /\ m <= k => Accounted(m)'
    BY <1>1, <1>2, GmailAssumption DEF CoveredTo, Mails
  <1>4. CoveredTo(historyId)'
    BY <1>2, <1>3, GmailAssumption DEF CoveredTo, IInv, Mails
  <1>5. CoveredTo(renewal.hist)'
    BY <1>2, <1>3, GmailAssumption DEF CoveredTo, IInv, Mails
  <1>6. HandlersCovered' /\ handlers' \subseteq HandlerSet
    BY <1>1, <1>2, HandlerKept DEF HandlersCovered, IInv, Types
  <1>7. CacheBacked'
    BY DEF IInv, CacheBacked, Processed
  <1>8. Types'
    BY <1>2, <1>6 DEF IInv, Types
  <1> QED  BY <1>4, <1>5, <1>6, <1>7, <1>8 DEF IInv

\* A handler's three kinds of steps: the list arrives, a mail arrives, a mail fails.
LEMMA HandlerStep ==
    ASSUME IInv, PageSize >= MaxMails, NEW h \in handlers,
           ListHistory(h) \/ ListHistoryFails(h) \/ GetMessage(h) \/ GetMessageFails(h)
    PROVE  IInv'
  <1>0. /\ h \in HandlerSet /\ HandlerInv(h) /\ arrived \in 0..MaxMails /\ MaxMails \in Nat
        /\ PageSize \in Nat /\ base \in 0..arrived /\ historyId \in 0..arrived
        /\ delivered \in [Mails -> Nat] /\ processed \in Seq(Mails) /\ CacheBacked
    BY GmailAssumption DEF IInv, Types, HandlersCovered
  <1>1. /\ h.n \in Mails /\ h.n \in Int /\ h.since \in 0..MaxMails /\ h.at \in 0..MaxMails
        /\ h.last \in 0..MaxMails
    BY <1>0 DEF HandlerSet, Mails
  <1>2. Processed \subseteq Mails /\ \A i \in Mails : i \in Processed => Accounted(i)
    BY <1>0 DEF Processed, CacheBacked, Accounted
  <1>3. CASE ListHistoryFails(h)
    BY <1>3, <1>0, QuietStep DEF ListHistoryFails, IInv, Types, mailbox, renewing, daemon
  <1>4. CASE ListHistory(h)
    <2> USE <1>4
    <2>1. /\ UNCHANGED <<arrived, sub, renewal, pulls, processed, delivered, missed, base>>
          /\ h.at = 0 /\ GoOn(h, h.since + 1, FirstPage(h.since), Processed)
      BY DEF ListHistory, mailbox, renewing, daemon, ledger
    <2>2. FirstPage(h.since) = arrived
      BY <1>0, <1>1 DEF FirstPage, HandlerInv
    <2>3. \A i \in Mails : Accounted(i) => Accounted(i)'
      BY <2>1 DEF Accounted
    <2>4. PICK l \in Int : l = arrived  BY <1>0
    <2>5. PICK d : d = Processed  OBVIOUS
    <2>6. GoOn(h, h.since + 1, l, d)  BY <2>1, <2>2, <2>4, <2>5
    <2>7. CoveredTo((h.since + 1) - 1)'
      <3>1. CoveredTo(h.since)'
        BY <2>1, <2>3, <1>0, <1>1, CoveredGrows DEF HandlerInv
      <3>2. (h.since + 1) - 1 = h.since  BY <1>1
      <3> QED  BY <3>1, <3>2
    <2>8. /\ historyId' \in 0..arrived' /\ handlers' \subseteq HandlerSet
          /\ CoveredTo(historyId)' /\ HandlersCovered'
      <3>1. /\ h.since + 1 \in Int /\ 1 <= h.since + 1 /\ h.since + 1 <= l + 1
            /\ h.n <= l /\ l <= arrived
        BY <1>0, <1>1, <2>4 DEF HandlerInv
      <3>2. \A i \in Mails : i \in d => Accounted(i)'
        BY <1>2, <2>3, <2>5
      <3> QED  BY <3>1, <3>2, <2>1, <2>3, <2>4, <2>6, <2>7, GoOnKeeps
    <2> QED
      BY <2>1, <2>3, <2>8 DEF IInv, Types, CacheBacked, Processed, CoveredTo, Accounted
  <1>5. CASE GetMessageFails(h)
    <2> USE <1>5
    <2>1. /\ UNCHANGED <<arrived, sub, renewal, pulls, processed, delivered, base>>
          /\ missed' = missed \cup {h.at}
          /\ h.at # 0 /\ GoOn(h, h.at + 1, h.last, Processed)
      BY DEF GetMessageFails, mailbox, renewing, daemon
    <2>3. \A i \in Mails : Accounted(i) => Accounted(i)'
      BY <2>1 DEF Accounted
    <2>4. Accounted(h.at)'  BY <2>1 DEF Accounted
    <2>5. PICK d : d = Processed  OBVIOUS
    <2>6. GoOn(h, h.at + 1, h.last, d)  BY <2>1, <2>5
    <2>7. CoveredTo((h.at + 1) - 1)'
      BY <2>1, <2>3, <2>4, <1>0, <1>1 DEF CoveredTo, HandlerInv, Mails
    <2>8. /\ historyId' \in 0..arrived' /\ handlers' \subseteq HandlerSet
          /\ CoveredTo(historyId)' /\ HandlersCovered'
      <3>1. /\ h.at + 1 \in Int /\ h.last \in Int /\ 1 <= h.at + 1 /\ h.at + 1 <= h.last + 1
            /\ h.n <= h.last /\ h.last <= arrived
        BY <1>0, <1>1, <2>1 DEF HandlerInv
      <3>2. \A i \in Mails : i \in d => Accounted(i)'
        BY <1>2, <2>3, <2>5
      <3> QED  BY <3>1, <3>2, <2>1, <2>3, <2>6, <2>7, GoOnKeeps
    <2>9. CoveredTo(renewal.hist)'
      BY <2>1, <2>3 DEF IInv, CoveredTo
    <2> QED
      BY <2>1, <2>8, <2>9 DEF IInv, Types, CacheBacked, Processed
  <1>6. CASE GetMessage(h)
    <2> USE <1>6
    <2>1. /\ UNCHANGED <<arrived, sub, renewal, pulls, missed, base>>
          /\ h.at # 0 /\ DeliverEmail(h.at) /\ GoOn(h, h.at + 1, h.last, Processed')
      BY DEF GetMessage, mailbox, renewing, daemon
    <2>2. h.at \in Mails  BY <1>1, <2>1, <1>0 DEF Mails
    <2>3. /\ processed' \in Seq(Mails) /\ delivered' \in [Mails -> Nat]
          /\ \A i \in Mails : delivered[i] > 0 => delivered'[i] > 0
          /\ delivered'[h.at] > 0
          /\ \A x \in Processed' : x = h.at \/ x \in Processed
      <3>1. CASE h.at \in Processed
        BY <3>1, <2>1, <2>2, <1>0 DEF DeliverEmail, CacheBacked, Processed
      <3>2. CASE h.at \notin Processed
        <4>1. /\ processed' = Track(h.at)
              /\ delivered' = [delivered EXCEPT ![h.at] = @ + 1]
          BY <3>2, <2>1 DEF DeliverEmail
        <4>2. processed' \in Seq(Mails) /\ \A x \in Processed' : x = h.at \/ x \in Processed
          BY <4>1, <2>2, <1>0, TrackHolds
        <4> QED  BY <4>1, <4>2, <2>2, <1>0
      <3> QED  BY <3>1, <3>2
    <2>4. \A i \in Mails : Accounted(i) => Accounted(i)'
      BY <2>1, <2>3 DEF Accounted
    <2>5. Accounted(h.at)'  BY <2>3 DEF Accounted
    <2>6. CacheBacked'
      BY <2>3, <1>0, <1>2 DEF CacheBacked
    <2>7. \A i \in Mails : i \in Processed' => Accounted(i)'
      BY <2>6 DEF CacheBacked, Accounted
    <2>8. PICK d : d = Processed'  OBVIOUS
    <2>9. GoOn(h, h.at + 1, h.last, d)  BY <2>1, <2>8
    <2>10. CoveredTo((h.at + 1) - 1)'
      BY <2>1, <2>4, <2>5, <1>0, <1>1 DEF CoveredTo, HandlerInv, Mails
    <2>11. /\ historyId' \in 0..arrived' /\ handlers' \subseteq HandlerSet
           /\ CoveredTo(historyId)' /\ HandlersCovered'
      <3>1. /\ h.at + 1 \in Int /\ h.last \in Int /\ 1 <= h.at + 1 /\ h.at + 1 <= h.last + 1
            /\ h.n <= h.last /\ h.last <= arrived
        BY <1>0, <1>1, <2>1 DEF HandlerInv
      <3>2. \A i \in Mails : i \in d => Accounted(i)'
        BY <2>7, <2>8
      <3> QED  BY <3>1, <3>2, <2>1, <2>4, <2>9, <2>10, GoOnKeeps
    <2>12. CoveredTo(renewal.hist)'
      BY <2>1, <2>4 DEF IInv, CoveredTo
    <2> QED
      BY <2>1, <2>3, <2>6, <2>11, <2>12 DEF IInv, Types
  <1> QED  BY <1>3, <1>4, <1>5, <1>6

\* Every step keeps the invariant.
LEMMA NextCovered ==
    ASSUME IInv, PageSize >= MaxMails, [Next]_vars
    PROVE  IInv'
  <1> USE GmailAssumption DEF IInv, Types, mailbox, renewing, daemon, ledger, bounds, NoRenewal
  <1>1. CASE MailArrives  BY <1>1, QuietStep, SMTT(20) DEF MailArrives
  <1>2. CASE WatchExpires  BY <1>2, QuietStep, SMTT(20) DEF WatchExpires
  <1>3. CASE GetProfile  BY <1>3, QuietStep, SMTT(20) DEF GetProfile
  <1>4. CASE CreateWatch  BY <1>4, QuietStep, SMTT(20) DEF CreateWatch
  <1>5. CASE StartDaemon  BY <1>5, QuietStep, SMTT(20) DEF StartDaemon
  <1>6. CASE ConnectFails  BY <1>6, QuietStep, SMTT(20) DEF ConnectFails
  <1>7. CASE Disconnect  BY <1>7, QuietStep, SMTT(20) DEF Disconnect
  <1>8. CASE ProcessEnds
    <2>1. /\ CoveredTo(historyId)' /\ CoveredTo(renewal.hist)' /\ HandlersCovered'
      BY <1>8 DEF ProcessEnds, CoveredTo, Mails, HandlersCovered
    <2>2. CacheBacked'  BY <1>8 DEF ProcessEnds, CacheBacked, Processed
    <2> QED  BY <1>8, <2>1, <2>2 DEF ProcessEnds
  <1>9. CASE Start  BY <1>9, QuietStep, SMTT(20) DEF Start
  <1>10. CASE \E ok \in BOOLEAN : StopWatchReturns(ok)  BY <1>10, QuietStep DEF StopWatchReturns
  <1>11. CASE RenewalDue  BY <1>11, QuietStep, SMTT(20) DEF RenewalDue
  <1>12. CASE RenewalSucceeds  BY <1>12, QuietStep, SMTT(20) DEF RenewalSucceeds
  <1>13. CASE RenewalFails  BY <1>13, QuietStep, SMTT(20) DEF RenewalFails
  <1>14. CASE PullStarts  BY <1>14, QuietStep, SMTT(20) DEF PullStarts
  <1>15. CASE PullFindsNothing  BY <1>15, QuietStep, SMTT(20) DEF PullFindsNothing
  <1>16. CASE PullFails  BY <1>16, QuietStep, SMTT(20) DEF PullFails
  <1>17. CASE Acknowledge
    <2>1. sub' \subseteq 1..arrived'  BY <1>17 DEF Acknowledge
    <2> QED  BY <1>17, <2>1, QuietStep DEF Acknowledge
  <1>18. CASE AcknowledgeFails  BY <1>18, QuietStep, SMTT(20) DEF AcknowledgeFails
  <1>19. CASE \E ns \in SUBSET sub : PullFinds(ns)
    <2>1. PICK ns \in SUBSET sub : PullFinds(ns)  BY <1>19
    <2>2. \A h \in handlers' : h \in handlers \/ (h \in HandlerSet /\ HandlerInv(h)')
      <3>1. PICK k \in Int, q \in Nat : k = historyId /\ q = pulls  OBVIOUS
      <3>2. handlers' = handlers \cup {Handler(n, q + 1, k, 0, 0) : n \in ns}
        BY <2>1, <3>1 DEF PullFinds
      <3>3. CoveredTo(k)'
        BY <2>1, <3>1 DEF PullFinds, CoveredTo, Accounted
      <3>4. ASSUME NEW n \in ns
            PROVE  Handler(n, q + 1, k, 0, 0) \in HandlerSet /\ HandlerInv(Handler(n, q + 1, k, 0, 0))'
        <4>1. n \in Mails /\ n <= arrived  BY DEF Mails
        <4>2. Handler(n, q + 1, k, 0, 0) \in HandlerSet
          BY <3>1, <4>1 DEF HandlerSet, Handler
        <4>3. HandlerInv(Handler(n, q + 1, k, 0, 0))'
          BY <2>1, <3>1, <3>3, <4>1 DEF PullFinds, HandlerInv, Handler
        <4> QED  BY <4>2, <4>3
      <3> QED  BY <3>2, <3>4, Zenon
    <2> QED  BY <2>1, <2>2, QuietStep, SMTT(20) DEF PullFinds
  <1>20. CASE \E h \in handlers :
              ListHistory(h) \/ ListHistoryFails(h) \/ GetMessage(h) \/ GetMessageFails(h)
    BY <1>20, HandlerStep
  <1>21. CASE UNCHANGED vars  BY <1>21, QuietStep DEF vars
  <1> QED
    BY <1>1, <1>2, <1>3, <1>4, <1>5, <1>6, <1>7, <1>8, <1>9, <1>10, <1>11, <1>12, <1>13, <1>14,
       <1>15, <1>16, <1>17, <1>18, <1>19, <1>20, <1>21 DEF Next

\* Where a page of history holds every mail, nothing between the history id the process
\* connected with and the one it lists from next is skipped: handlePubSubNotification,
\* updateHistoryId and renewWatch together never pass over a mail.
THEOREM CoveredHolds ==
    ASSUME PageSize >= MaxMails
    PROVE  Spec => []Covered
  <1>1. IInv /\ [Next]_vars => IInv'  BY NextCovered
  <1>2. IInv => Covered
    BY GmailAssumption DEF IInv, Types, CoveredTo, Covered, Mails
  <1> QED  BY InitCovered, <1>1, <1>2, PTL DEF Spec

-----------------------------------------------------------------------------
(* Delivered once, and not lost with an acknowledged notification *)

Serving == {"up", "stopping", "stopped"}
Connected == {"watch", "token"} \cup Serving

\* The pull daemon and its handlers only work while the channel serves.
Quiet == proc \notin Serving => handlers = {} /\ pull = "idle" /\ leased = {}

\* No renewal is left over when a process takes its first history id.
Unarmed == proc \in {"profile", "watch", "down"} => timer = "none" /\ renewal = NoRenewal

\* The cache holds each mail once.
Distinct == \A i, j \in 1..Len(processed) : processed[i] = processed[j] => i = j

HandlerRecent(h) == h.since >= base /\ (h.at # 0 => h.at > h.since)

\* Nothing in memory points before the history id the process connected with.
Recent ==
    /\ historyId >= base
    /\ renewal # NoRenewal => renewal.hist >= base
    /\ \A h \in handlers : HandlerRecent(h)

Remembered == \A m \in Mails : base < m /\ delivered[m] > 0 => m \in Processed

\* A mail is delivered after it arrived.
Past == \A m \in Mails : delivered[m] > 0 => m <= arrived

Settled(n) == n <= base \/ Accounted(n) \/ \E h \in handlers : h.since < n /\ n <= h.n

Acks == \A n \in acked \cup leased : Settled(n)

EInv ==
    /\ IInv
    /\ acked \subseteq 1..arrived /\ leased \subseteq 1..arrived
    /\ DeliveredOnce /\ Past /\ Quiet /\ Unarmed /\ Distinct
    /\ proc \in Connected => Recent /\ Remembered /\ Acks

LEMMA InitExact == Init => EInv
  <1> SUFFICES ASSUME Init PROVE EInv  OBVIOUS
  <1>1. IInv  BY InitCovered
  <1>2. acked \subseteq 1..arrived /\ leased \subseteq 1..arrived /\ DeliveredOnce /\ Past
    BY DEF Init, DeliveredOnce, Past
  <1>3. Quiet /\ Unarmed  BY DEF Init, Quiet, Unarmed, Serving
  <1>4. Distinct  BY DEF Init, Distinct
  <1>5. proc \notin Connected  BY DEF Init, Connected, Serving
  <1> QED  BY <1>1, <1>2, <1>3, <1>4, <1>5 DEF EInv

\* A cache that is not full forgets nothing, and mails are too few to fill it.
LEMMA TrackKeeps ==
    ASSUME MaxCache >= MaxMails, NEW m \in Mails, processed \in Seq(Mails), Distinct,
           m \notin Processed, processed' = Track(m)
    PROVE  Distinct' /\ Processed' = Processed \cup {m}
  <1> DEFINE all == Append(processed, m)
  <1>0. MaxMails \in Nat /\ MaxCache \in Nat  BY GmailAssumption
  <1>1. /\ all \in Seq(Mails) /\ Len(all) = Len(processed) + 1 /\ Len(all) \in Nat
        /\ \A i \in 1..Len(processed) : all[i] = processed[i]
        /\ all[Len(all)] = m
    OBVIOUS
  <1>2. \A i, j \in 1..Len(all) : all[i] = all[j] => i = j
    BY <1>1 DEF Distinct, Processed
  <1>3. Len(all) <= MaxMails
    <2>1. PICK k \in Nat : k = Len(all)  BY <1>1
    <2>2. PICK f : f = all  OBVIOUS
    <2>3. f \in [1..k -> Mails]  BY <1>1, <2>1, <2>2, LenProperties
    <2>4. f \in Injection(1..k, Mails)
      BY <1>2, <2>1, <2>2, <2>3 DEF Injection, IsInjective
    <2>5. IsFiniteSet(Mails) /\ Cardinality(Mails) = MaxMails
      BY <1>0, FS_Interval DEF Mails
    <2>6. Cardinality(1..k) <= Cardinality(Mails)
      BY <2>4, <2>5, FS_Injection
    <2>7. Cardinality(1..k) = k  BY FS_Interval
    <2> QED  BY <2>1, <2>5, <2>6, <2>7
  <1>4. processed' = all  BY <1>0, <1>1, <1>3 DEF Track
  <1>5. Distinct'  BY <1>2, <1>4 DEF Distinct
  <1>6. Processed' = Processed \cup {m}
    BY <1>1, <1>4 DEF Processed
  <1> QED  BY <1>5, <1>6

\* A handler that goes on stays recent, and what was settled stays so: the handler still
\* covers it, or its list is done and everything up to its notification is accounted for.
LEMMA GoOnSettles ==
    ASSUME IInv, Recent, NEW h \in handlers, NEW m \in Int, NEW last \in Int, NEW done,
           GoOn(h, m, last, done), m > h.since, CoveredTo(historyId)', historyId' \in Int,
           \A i \in Mails : Accounted(i) => Accounted(i)',
           base' = base
    PROVE  /\ historyId' >= base
           /\ \A g \in handlers' : HandlerRecent(g)'
           /\ \A n \in Mails : Settled(n) => Settled(n)'
  <1>0. /\ handlers \subseteq HandlerSet /\ MaxMails \in Nat /\ base \in Int /\ historyId \in Int
        /\ h.n \in Int /\ h.since \in Int /\ h.since >= base /\ Mails \subseteq Int
        /\ \A g \in handlers : HandlerRecent(g)' /\ g.n \in Int /\ g.since \in Int
    <2>1. handlers \subseteq HandlerSet /\ MaxMails \in Nat /\ base \in Int /\ historyId \in Int
      BY GmailAssumption DEF IInv, Types
    <2>2. Mails \subseteq Int  BY <2>1 DEF Mails
    <2>3. ASSUME NEW g \in handlers PROVE g.n \in Int /\ g.since \in Int
      <3>1. g.n \in Mails /\ g.since \in 0..MaxMails  BY <2>1 DEF HandlerSet
      <3>2. PICK n, since : n = g.n /\ since = g.since  OBVIOUS
      <3>3. n \in Int  BY <2>2, <3>1, <3>2
      <3>4. since \in Int  BY <2>1, <3>1, <3>2
      <3> QED  BY <3>2, <3>3, <3>4
    <2>4. \A g \in handlers : g.since >= base /\ HandlerRecent(g)'
      BY DEF Recent, HandlerRecent
    <2> QED  BY <2>1, <2>2, <2>3, <2>4
  <1>1. PICK at \in m..(last + 1) :
            IF at <= last
            THEN /\ handlers' = (handlers \ {h}) \cup {Handler(h.n, h.pull, h.since, at, last)}
                 /\ UNCHANGED historyId
            ELSE /\ handlers' = handlers \ {h}
                 /\ historyId' = UpdateHistoryId(h.n)
    BY DEF GoOn
  <1>2. at \in Int /\ at > h.since  BY <1>0, <1>1
  <1>3. CASE at <= last
    <2>1. PICK g : g = Handler(h.n, h.pull, h.since, at, last)  OBVIOUS
    <2>2. g.n = h.n /\ g.since = h.since /\ g.at = at  BY <2>1 DEF Handler
    <2>3. handlers' = (handlers \ {h}) \cup {g} /\ historyId' = historyId  BY <1>1, <1>3, <2>1
    <2>4. HandlerRecent(g)'  BY <1>0, <1>2, <2>2 DEF HandlerRecent
    <2>5. ASSUME NEW n \in Mails, Settled(n) PROVE Settled(n)'
      BY <2>2, <2>3, <2>5 DEF Settled
    <2> QED  BY <1>0, <2>3, <2>4, <2>5 DEF Recent
  <1>4. CASE ~(at <= last)
    <2>1. handlers' = handlers \ {h} /\ historyId' = UpdateHistoryId(h.n)  BY <1>1, <1>4
    <2>2. historyId' >= historyId /\ historyId' >= h.n  BY <1>0, <2>1 DEF UpdateHistoryId
    <2>3. ASSUME NEW n \in Mails, Settled(n) PROVE Settled(n)'
      <3>1. CASE \E g \in handlers : g # h /\ g.since < n /\ n <= g.n
        BY <2>1, <3>1 DEF Settled
      <3>2. CASE n <= h.n
        <4>1. n <= historyId'  BY <1>0, <2>2, <3>2
        <4>2. n <= base' \/ Accounted(n)'  BY <1>0, <4>1 DEF CoveredTo
        <4> QED  BY <4>2 DEF Settled
      <3>3. CASE n <= base \/ Accounted(n)  BY <3>3 DEF Settled
      <3> QED  BY <2>3, <3>1, <3>2, <3>3 DEF Settled
    <2> QED  BY <1>0, <2>1, <2>2, <2>3 DEF Recent
  <1> QED  BY <1>3, <1>4

\* The steps in which no mail is fetched and the process does not connect.
LEMMA ExactKept ==
    ASSUME EInv, IInv', UNCHANGED <<processed, delivered, missed, base>>,
           arrived' >= arrived, acked' \subseteq 1..arrived', leased' \subseteq 1..arrived',
           Quiet', Unarmed', proc' \in Connected => proc \in Connected,
           proc \in Connected =>
               /\ historyId' \in {historyId, base} \/ (renewal # NoRenewal /\ historyId' = renewal.hist)
               /\ renewal' \in {renewal, NoRenewal} \/ renewal'.hist = historyId
               /\ handlers \subseteq handlers'
               /\ \A h \in handlers' : h \in handlers \/ HandlerRecent(h)'
               /\ \A n \in acked' \cup leased' : n \in acked \cup leased \/ Settled(n)'
    PROVE  EInv'
  <1>1. DeliveredOnce' /\ Distinct'  BY DEF EInv, DeliveredOnce, Distinct
  <1>3. Past'
    <2>1. arrived \in Int /\ arrived' \in Int /\ Mails \subseteq Int
      BY GmailAssumption DEF EInv, IInv, Types, Mails
    <2> QED  BY <2>1 DEF EInv, Past
  <1>2. ASSUME proc \in Connected PROVE Recent' /\ Remembered' /\ Acks'
    <2>0. Recent /\ Remembered /\ Acks  BY <1>2 DEF EInv
    <2>1. base \in Int /\ historyId \in Int /\ base >= base
      BY GmailAssumption DEF EInv, IInv, Types
    <2>2. Recent'  BY <1>2, <2>0, <2>1 DEF Recent, HandlerRecent
    <2>3. Remembered'  BY <2>0 DEF Remembered, Processed
    <2>4. \A n \in acked \cup leased : Settled(n)'
      BY <1>2, <2>0 DEF Acks, Settled, Accounted
    <2>5. Acks'  BY <1>2, <2>4 DEF Acks
    <2> QED  BY <2>2, <2>3, <2>5
  <1> QED  BY <1>1, <1>2, <1>3 DEF EInv

\* The steps of a handler.
LEMMA HandlerExact ==
    ASSUME EInv, IInv', PageSize >= MaxMails, MaxCache >= MaxMails, NEW h \in handlers,
           ListHistory(h) \/ ListHistoryFails(h) \/ GetMessage(h) \/ GetMessageFails(h)
    PROVE  EInv'
  <1> USE GmailAssumption DEF mailbox, renewing, daemon, ledger
  <1>1. IInv /\ proc \in Serving /\ proc \in Connected /\ Recent /\ Remembered /\ Acks
    BY DEF EInv, Quiet, Connected
  <1>2. /\ UNCHANGED <<arrived, acked, leased, pull, proc, timer, renewal, base>>
    BY DEF ListHistory, ListHistoryFails, GetMessage, GetMessageFails
  <1>3. /\ h \in HandlerSet /\ h.at \in Int /\ h.since \in Int /\ h.last \in Int /\ h.n \in Mails
        /\ h.since >= base /\ (h.at # 0 => h.at \in Mails /\ h.at > h.since)
        /\ historyId' \in Int /\ historyId \in Int /\ base \in Int /\ Mails \subseteq Int
    <2>1. h \in HandlerSet /\ h.since >= base /\ (h.at # 0 => h.at > h.since)
      BY <1>1 DEF IInv, Types, Recent, HandlerRecent
    <2>2. historyId' \in Int /\ historyId \in Int /\ base \in Int  BY <1>1 DEF IInv, Types
    <2>3. Mails \subseteq Int  BY DEF Mails
    <2> QED  BY <2>1, <2>2, <2>3 DEF HandlerSet, Mails
  <1>4. acked \cup leased \subseteq Mails
    <2>1. arrived \in 0..MaxMails /\ acked \subseteq 1..arrived /\ leased \subseteq 1..arrived
      BY <1>1 DEF EInv, IInv, Types
    <2>2. 1..arrived \subseteq Mails  BY <2>1 DEF Mails
    <2> QED  BY <2>1, <2>2
  <1>5. /\ acked' \subseteq 1..arrived' /\ leased' \subseteq 1..arrived' /\ Quiet' /\ Unarmed'
    BY <1>1, <1>2 DEF EInv, Quiet, Unarmed
  <1>6. SUFFICES
            /\ DeliveredOnce' /\ Past' /\ Distinct' /\ Remembered'
            /\ historyId' >= base
            /\ \A g \in handlers' : HandlerRecent(g)'
            /\ \A n \in Mails : Settled(n) => Settled(n)'
    <2>1. Acks'  BY <1>1, <1>2, <1>4, <1>6 DEF Acks
    <2>2. Recent'  BY <1>1, <1>2, <1>6 DEF Recent
    <2> QED  BY <1>5, <1>6, <2>1, <2>2 DEF EInv
  <1>7. CASE ListHistoryFails(h)
    <2>1. /\ UNCHANGED <<processed, delivered, historyId>> /\ handlers' = handlers \ {h}
          /\ missed' = missed \cup ((h.since + 1)..h.n)
      BY <1>7 DEF ListHistoryFails
    <2>2. DeliveredOnce' /\ Past' /\ Distinct' /\ Remembered'
      BY <1>1, <1>2, <2>1 DEF EInv, DeliveredOnce, Past, Distinct, Remembered, Processed
    <2>3. historyId' >= base /\ \A g \in handlers' : HandlerRecent(g)'
      BY <1>1, <1>2, <2>1 DEF Recent, HandlerRecent
    <2>4. ASSUME NEW n \in Mails, Settled(n) PROVE Settled(n)'
      <3>1. CASE h.since < n /\ n <= h.n
        <4>1. n \in (h.since + 1)..h.n  BY <1>3, <3>1
        <4> QED  BY <2>1, <4>1 DEF Settled, Accounted
      <3>2. CASE ~(h.since < n /\ n <= h.n)
        BY <1>2, <2>1, <2>4, <3>2 DEF Settled, Accounted
      <3> QED  BY <3>1, <3>2
    <2> QED  BY <2>2, <2>3, <2>4
  <1>8. CASE ListHistory(h)
    <2>1. UNCHANGED <<processed, delivered, missed>> /\ GoOn(h, h.since + 1, FirstPage(h.since), Processed)
      BY <1>8 DEF ListHistory
    <2>2. PICK l \in Int : l = FirstPage(h.since)
      <3>1. arrived \in Int /\ PageSize \in Int  BY <1>1 DEF IInv, Types
      <3>2. FirstPage(h.since) \in Int  BY <1>3, <3>1 DEF FirstPage
      <3> QED  BY <3>2
    <2>7. PICK d : d = Processed  OBVIOUS
    <2>3. GoOn(h, h.since + 1, l, d)  BY <2>1, <2>2, <2>7
    <2>4. \A i \in Mails : Accounted(i) => Accounted(i)'  BY <2>1 DEF Accounted
    <2>5. h.since + 1 \in Int /\ h.since + 1 > h.since /\ CoveredTo(historyId)'
      BY <1>3 DEF IInv
    <2>6. DeliveredOnce' /\ Past' /\ Distinct' /\ Remembered'
      BY <1>1, <1>2, <2>1 DEF EInv, DeliveredOnce, Past, Distinct, Remembered, Processed
    <2> QED  BY <1>1, <1>2, <1>3, <2>3, <2>4, <2>5, <2>6, GoOnSettles
  <1>9. CASE GetMessageFails(h)
    <2>1. /\ UNCHANGED <<processed, delivered>> /\ missed' = missed \cup {h.at} /\ h.at # 0
          /\ GoOn(h, h.at + 1, h.last, Processed)
      BY <1>9 DEF GetMessageFails
    <2>2. PICK d : d = Processed  OBVIOUS
    <2>3. GoOn(h, h.at + 1, h.last, d)  BY <2>1, <2>2
    <2>4. \A i \in Mails : Accounted(i) => Accounted(i)'  BY <2>1 DEF Accounted
    <2>5. h.at + 1 \in Int /\ h.at + 1 > h.since /\ CoveredTo(historyId)'
      BY <1>3, <2>1 DEF IInv
    <2>6. DeliveredOnce' /\ Past' /\ Distinct' /\ Remembered'
      BY <1>1, <1>2, <2>1 DEF EInv, DeliveredOnce, Past, Distinct, Remembered, Processed
    <2> QED  BY <1>1, <1>2, <1>3, <2>3, <2>4, <2>5, <2>6, GoOnSettles
  <1>10. CASE GetMessage(h)
    <2>1. /\ DeliverEmail(h.at) /\ missed' = missed /\ h.at # 0
          /\ GoOn(h, h.at + 1, h.last, Processed')
      BY <1>10 DEF GetMessage
    <2>2. PICK d : d = Processed'  OBVIOUS
    <2>3. GoOn(h, h.at + 1, h.last, d)  BY <2>1, <2>2
    <2>5. h.at + 1 \in Int /\ h.at + 1 > h.since /\ CoveredTo(historyId)' /\ h.at > base
      BY <1>3, <2>1 DEF IInv
    <2>6. /\ DeliveredOnce' /\ Distinct' /\ Remembered'
          /\ Past' /\ \A i \in Mails : delivered[i] > 0 => delivered'[i] > 0
      <3>1. CASE h.at \in Processed
        <4>1. UNCHANGED <<processed, delivered>>  BY <2>1, <3>1 DEF DeliverEmail
        <4> QED
          BY <1>1, <1>2, <4>1 DEF EInv, DeliveredOnce, Past, Distinct, Remembered, Processed
      <3>2. CASE h.at \notin Processed
        <4>0. delivered \in [Mails -> Nat] /\ processed \in Seq(Mails) /\ Distinct /\ DeliveredOnce
          BY <1>1 DEF EInv, IInv, Types
        <4>1. processed' = Track(h.at) /\ delivered' = [delivered EXCEPT ![h.at] = @ + 1]
          BY <2>1, <3>2 DEF DeliverEmail
        <4>2. Distinct' /\ Processed' = Processed \cup {h.at}
          BY <1>3, <2>1, <3>2, <4>0, <4>1, TrackKeeps
        <4>3. delivered[h.at] = 0
          BY <1>1, <1>3, <2>1, <2>5, <3>2, <4>0 DEF Remembered
        <4>4. DeliveredOnce'
          BY <1>3, <2>1, <4>0, <4>1, <4>3 DEF DeliveredOnce
        <4>5. Remembered'
          <5> SUFFICES ASSUME NEW m \in Mails, base' < m, delivered'[m] > 0 PROVE m \in Processed'
            BY DEF Remembered
          <5>1. CASE m = h.at  BY <4>2, <5>1
          <5>2. CASE m # h.at
            <6>1. delivered'[m] = delivered[m]  BY <4>0, <4>1, <5>2
            <6> QED  BY <1>1, <1>2, <4>2, <6>1 DEF Remembered
          <5> QED  BY <5>1, <5>2
        <4>6. \A i \in Mails : delivered[i] > 0 => delivered'[i] > 0
          BY <1>3, <2>1, <4>0, <4>1
        <4>7. Past'
          <5>1. HandlerInv(h)  BY <1>1 DEF IInv, HandlersCovered
          <5>2. arrived \in Int  BY <1>1 DEF IInv, Types
          <5>3. h.at <= arrived  BY <1>3, <2>1, <5>1, <5>2 DEF HandlerInv
          <5> QED  BY <1>2, <4>0, <4>1, <5>3 DEF EInv, Past
        <4> QED  BY <4>2, <4>4, <4>5, <4>6, <4>7
      <3> QED  BY <3>1, <3>2
    <2>7. \A i \in Mails : Accounted(i) => Accounted(i)'  BY <2>1, <2>6 DEF Accounted
    <2> QED  BY <1>1, <1>2, <1>3, <2>3, <2>5, <2>6, <2>7, GoOnSettles
  <1> QED  BY <1>7, <1>8, <1>9, <1>10

\* Every step keeps the invariant.
LEMMA NextExact ==
    ASSUME EInv, PageSize >= MaxMails, MaxCache >= MaxMails, [Next]_vars
    PROVE  EInv'
  <1> USE GmailAssumption
      DEF mailbox, renewing, daemon, ledger, bounds, Serving, Connected, Quiet, Unarmed
  <1>0. /\ IInv /\ Quiet /\ Unarmed /\ acked \subseteq 1..arrived /\ leased \subseteq 1..arrived
        /\ arrived \in 0..MaxMails /\ sub \subseteq 1..arrived
    BY DEF EInv, IInv, Types
  <1>a. IInv'  BY <1>0, NextCovered
  <1>1. CASE MailArrives  BY <1>0, <1>a, <1>1, ExactKept DEF MailArrives
  <1>2. CASE WatchExpires  BY <1>0, <1>a, <1>2, ExactKept DEF WatchExpires
  <1>3. CASE GetProfile
    <2>1. /\ proc = "profile" /\ proc' = "watch" /\ historyId' = arrived /\ base' = arrived
          /\ UNCHANGED <<arrived, acked, leased, timer, renewal, pull, handlers, processed,
                         delivered, missed>>
      BY <1>3 DEF GetProfile
    <2>2. handlers = {} /\ leased = {} /\ pull = "idle" /\ renewal = NoRenewal /\ timer = "none"
      BY <1>0, <2>1
    <2>3. Remembered'
      BY <1>0, <2>1 DEF EInv, Past, Remembered, Mails
    <2> QED
      BY <1>0, <1>a, <2>1, <2>2, <2>3 DEF EInv, DeliveredOnce, Past, Distinct, Recent, Acks, Settled
  <1>4. CASE CreateWatch  BY <1>0, <1>a, <1>4, ExactKept DEF CreateWatch
  <1>5. CASE StartDaemon  BY <1>0, <1>a, <1>5, ExactKept DEF StartDaemon
  <1>6. CASE ConnectFails  BY <1>0, <1>a, <1>6, ExactKept DEF ConnectFails
  <1>7. CASE Disconnect  BY <1>0, <1>a, <1>7, ExactKept DEF Disconnect
  <1>8. CASE ProcessEnds
    BY <1>0, <1>a, <1>8 DEF ProcessEnds, EInv, DeliveredOnce, Past, Distinct
  <1>9. CASE Start  BY <1>0, <1>a, <1>9, ExactKept DEF Start
  <1>10. CASE \E ok \in BOOLEAN : StopWatchReturns(ok)
    BY <1>0, <1>a, <1>10, ExactKept DEF StopWatchReturns
  <1>11. CASE RenewalDue  BY <1>0, <1>a, <1>11, ExactKept DEF RenewalDue
  <1>12. CASE RenewalSucceeds  BY <1>0, <1>a, <1>12, ExactKept DEF RenewalSucceeds
  <1>13. CASE RenewalFails  BY <1>0, <1>a, <1>13, ExactKept DEF RenewalFails
  <1>14. CASE PullStarts  BY <1>0, <1>a, <1>14, ExactKept DEF PullStarts
  <1>15. CASE PullFindsNothing  BY <1>0, <1>a, <1>15, ExactKept DEF PullFindsNothing
  <1>16. CASE PullFails  BY <1>0, <1>a, <1>16, ExactKept DEF PullFails
  <1>17. CASE Acknowledge  BY <1>0, <1>a, <1>17, ExactKept DEF Acknowledge
  <1>18. CASE AcknowledgeFails  BY <1>0, <1>a, <1>18, ExactKept DEF AcknowledgeFails
  <1>19. CASE \E ns \in SUBSET sub : PullFinds(ns)
    <2>1. PICK ns \in SUBSET sub : PullFinds(ns)  BY <1>19
    <2>2. PICK k \in Int, q \in Nat : k = historyId /\ q = pulls  BY <1>0 DEF IInv, Types
    <2>3. /\ pull = "asked" /\ pull' = "acking" /\ leased' = ns
          /\ handlers' = handlers \cup {Handler(n, q + 1, k, 0, 0) : n \in ns}
          /\ UNCHANGED <<arrived, acked, proc, historyId, timer, renewal, processed, delivered,
                         missed, base>>
      BY <2>1, <2>2 DEF PullFinds
    <2>4. proc \in Serving /\ Recent /\ CoveredTo(k)
      BY <1>0, <2>2, <2>3 DEF EInv, IInv
    <2>5. \A h \in handlers' : h \in handlers \/ HandlerRecent(h)'
      <3>1. \A n \in ns : HandlerRecent(Handler(n, q + 1, k, 0, 0))'
        BY <2>2, <2>3, <2>4 DEF HandlerRecent, Handler, Recent
      <3> QED  BY <2>3, <3>1
    <2>6. ASSUME NEW n \in ns PROVE Settled(n)'
      <3>1. n \in Int /\ n \in Mails  BY <1>0 DEF Mails
      <3>2. base \in Int  BY <1>0 DEF IInv, Types
      <3>3. CASE n <= k
        <4>1. n <= base \/ Accounted(n)  BY <2>4, <3>1, <3>2, <3>3 DEF CoveredTo
        <4> QED  BY <2>3, <4>1 DEF Settled, Accounted
      <3>4. CASE k < n
        <4>1. PICK g \in handlers' : g = Handler(n, q + 1, k, 0, 0)  BY <2>3
        <4>2. g.since < n /\ n <= g.n  BY <3>1, <3>4, <4>1 DEF Handler
        <4> QED  BY <4>1, <4>2 DEF Settled
      <3> QED  BY <2>2, <3>1, <3>3, <3>4
    <2> QED  BY <1>0, <1>a, <2>3, <2>4, <2>5, <2>6, ExactKept
  <1>20. CASE \E h \in handlers :
              ListHistory(h) \/ ListHistoryFails(h) \/ GetMessage(h) \/ GetMessageFails(h)
    BY <1>a, <1>20, HandlerExact
  <1>21. CASE UNCHANGED vars  BY <1>0, <1>a, <1>21, ExactKept DEF vars
  <1> QED
    BY <1>1, <1>2, <1>3, <1>4, <1>5, <1>6, <1>7, <1>8, <1>9, <1>10, <1>11, <1>12, <1>13, <1>14,
       <1>15, <1>16, <1>17, <1>18, <1>19, <1>20, <1>21 DEF Next

\* Where a page of history and the cache hold every mail, handlePubSubNotification() and
\* deliverEmail() hand each mail over at most once, through overlapping handlers, renewals
\* and restarts, and no mail is lost with the notification doPull() acknowledged for it.
THEOREM DeliveredExactlyHolds ==
    ASSUME PageSize >= MaxMails, MaxCache >= MaxMails
    PROVE  Spec => []DeliveredExactly
  <1>1. EInv /\ [Next]_vars => EInv'  BY NextExact
  <1>2. EInv => DeliveredExactly
    BY DEF EInv, DeliveredExactly, AckedAccounted, Acks, Settled, Connected, Serving
  <1> QED  BY InitExact, <1>1, <1>2, PTL DEF Spec
=============================================================================
