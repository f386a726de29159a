-------------------------- MODULE CredentialProofs --------------------------
(***************************************************************************)
(* What is proved of the credentials: the proxy's limiter, rotator and     *)
(* certificate cache, and the vault. The two specifications share no name; *)
(* no theorem is about both.                                               *)
(*                                                                         *)
(* The limiter keeps only recent timestamps. LimiterInv ties them to the   *)
(* whole history: they are its last part, and what was cut off is at least *)
(* a span old.                                                             *)
(*                                                                         *)
(* The rotator keeps an index. RotorInv says how many whole rounds it has  *)
(* made: the keys before it were used once more than the keys after it.    *)
(*                                                                         *)
(* The cache is a Map in insertion order. CacheInv says that this is the   *)
(* order of the last uses, and that an evicted host was used before all    *)
(* that are left.                                                          *)
(*                                                                         *)
(* VaultReadable needs to know that the key file, once written, is never   *)
(* written again (at most one process is between creating and filling it)  *)
(* and that every call past ensureKey() holds that key. PasswordStable     *)
(* needs to know that no copy of the vault has a password before the first *)
(* one is returned, that every copy has that one afterwards, and that a    *)
(* CLI call that overlaps no other is the only one with a copy.            *)
(* NoLostUpdate needs to know what the one call with a copy holds: the     *)
(* completed writes and its own, although the file it read may be          *)
(* truncated by now.                                                       *)
(***************************************************************************)
EXTENDS CredentialProxy, CredentialVault, FiniteSetTheorems, TLAPS

-----------------------------------------------------------------------------
-----------------------------------------------------------------------------
(***************************************************************************)
(* The proxy's limiter, rotator and certificate cache.                     *)
(***************************************************************************)

Windows == [limit : Nat, span : Nat, times : Seq(Nat)]

\* The types the limiter counts on.
LimiterType ==
    /\ now \in Nat
    /\ window \in [Names -> Windows]
    /\ admitted \in [Names -> Seq(Nat)]

\* The timestamps t kept are the last entries of the history h, the entries before
\* them are out of a window of span s that ends at T, and no entry is later than T.
Suffix(t, h, T, s) ==
    /\ Len(t) <= Len(h)
    /\ \A i \in 1 .. Len(t) : t[i] = h[Len(h) - Len(t) + i]
    /\ \A i \in 1 .. Len(h) - Len(t) : h[i] <= T - s
    /\ \A i \in 1 .. Len(h) : h[i] <= T

\* Entries of the history that are N apart are a span apart.
Apart(h, N, s) == \A i \in 1 .. Len(h) : i > N => h[i] - h[i - N] >= s

\* What the window of a rule keeps is the end of its history.
Kept(n) ==
    /\ Suffix(window[n].times, admitted[n], now, window[n].span)
    /\ Apart(admitted[n], window[n].limit, window[n].span)

\* This, and no more than the limit within any span.
LimiterInv ==
    /\ LimiterType
    /\ \A n \in Names : window[n].limit > 0 => Kept(n)

-----------------------------------------------------------------------------
(* The argument, on sequences *)

\* What is left of a sequence after its first k entries.
LEMMA SubSeqFrom ==
    ASSUME NEW t \in Seq(Nat), NEW k \in 0 .. Len(t)
    PROVE  /\ SubSeq(t, k + 1, Len(t)) \in Seq(Nat)
           /\ Len(SubSeq(t, k + 1, Len(t))) = Len(t) - k
           /\ \A i \in 1 .. Len(t) - k : SubSeq(t, k + 1, Len(t))[i] = t[k + i]
  OBVIOUS

\* Cutting off entries that are out of the window keeps the relation.
LEMMA PruneSuffix ==
    ASSUME NEW t \in Seq(Nat), NEW h \in Seq(Nat), NEW T \in Nat, NEW s \in Nat,
           NEW k \in 0 .. Len(t), Suffix(t, h, T, s),
           \A i \in 1 .. k : t[i] <= T - s
    PROVE  Suffix(SubSeq(t, k + 1, Len(t)), h, T, s)
<1> DEFINE r == SubSeq(t, k + 1, Len(t))
<1>1. /\ r \in Seq(Nat) /\ Len(r) = Len(t) - k
      /\ \A i \in 1 .. Len(t) - k : r[i] = t[k + i]
  BY SubSeqFrom
<1> HIDE DEF r
<1>2. Len(r) <= Len(h)
  <2>1. Len(t) <= Len(h)
    BY DEF Suffix
  <2>2. Len(t) \in Nat /\ Len(h) \in Nat /\ k \in Nat
    OBVIOUS
  <2> QED
    BY <1>1, <2>1, <2>2
<1>3. \A i \in 1 .. Len(r) : r[i] = h[Len(h) - Len(r) + i]
  <2> SUFFICES ASSUME NEW i \in 1 .. Len(r) PROVE r[i] = h[Len(h) - Len(r) + i]
    OBVIOUS
  <2>1. k + i \in 1 .. Len(t) /\ r[i] = t[k + i]
    BY <1>1
  <2>2. t[k + i] = h[Len(h) - Len(t) + (k + i)]
    BY <2>1 DEF Suffix
  <2>3. Len(h) - Len(t) + (k + i) = Len(h) - Len(r) + i
    BY <1>1
  <2> QED
    BY <2>1, <2>2, <2>3
<1>4. \A i \in 1 .. Len(h) - Len(r) : h[i] <= T - s
  <2> SUFFICES ASSUME NEW i \in 1 .. Len(h) - Len(r) PROVE h[i] <= T - s
    OBVIOUS
  <2>1. CASE i <= Len(h) - Len(t)
    BY <1>1, <2>1 DEF Suffix
  <2>2. CASE i > Len(h) - Len(t)
    <3>1. i - (Len(h) - Len(t)) \in 1 .. k
      BY <1>1, <2>2 DEF Suffix
    <3>2. t[i - (Len(h) - Len(t))] = h[i]
      BY <3>1 DEF Suffix
    <3> QED BY <3>1, <3>2
  <2> QED BY <1>1, <2>1, <2>2
<1>5. \A i \in 1 .. Len(h) : h[i] <= T
  BY DEF Suffix
<1>6. Suffix(r, h, T, s)
  BY <1>2, <1>3, <1>4, <1>5 DEF Suffix
<1> QED BY <1>6 DEF r

\* Time passes.
LEMMA LaterSuffix ==
    ASSUME NEW t \in Seq(Nat), NEW h \in Seq(Nat), NEW T \in Nat, NEW s \in Nat, Suffix(t, h, T, s)
    PROVE  Suffix(t, h, T + 1, s)
<1>1. \A i \in 1 .. Len(h) : h[i] \in Nat
  OBVIOUS
<1>2. \A i \in 1 .. Len(h) - Len(t) : i \in 1 .. Len(h)
  OBVIOUS
<1>3. \A i \in 1 .. Len(h) - Len(t) : h[i] <= T + 1 - s
  <2> SUFFICES ASSUME NEW i \in 1 .. Len(h) - Len(t) PROVE h[i] <= T + 1 - s
    OBVIOUS
  <2>1. h[i] \in Nat
    BY <1>1, <1>2
  <2>2. h[i] <= T - s
    BY DEF Suffix
  <2> QED BY <2>1, <2>2
<1>4. \A i \in 1 .. Len(h) : h[i] <= T + 1
  <2> SUFFICES ASSUME NEW i \in 1 .. Len(h) PROVE h[i] <= T + 1
    OBVIOUS
  <2>1. h[i] \in Nat
    BY <1>1
  <2>2. h[i] <= T
    BY DEF Suffix
  <2> QED BY <2>1, <2>2
<1> QED BY <1>3, <1>4 DEF Suffix

\* Appending the present time to both keeps it.
LEMMA AppendSuffix ==
    ASSUME NEW t \in Seq(Nat), NEW h \in Seq(Nat), NEW T \in Nat, NEW s \in Nat, Suffix(t, h, T, s)
    PROVE  Suffix(Append(t, T), Append(h, T), T, s)
<1> DEFINE u == Append(t, T)
           g == Append(h, T)
<1>1. /\ Len(u) = Len(t) + 1 /\ u[Len(t) + 1] = T
      /\ \A i \in 1 .. Len(t) : u[i] = t[i]
  OBVIOUS
<1>2. /\ Len(g) = Len(h) + 1 /\ g[Len(h) + 1] = T
      /\ \A i \in 1 .. Len(h) : g[i] = h[i]
  OBVIOUS
<1>3. Len(t) \in Nat /\ Len(h) \in Nat /\ Len(t) <= Len(h)
  BY DEF Suffix
<1> HIDE DEF u, g
<1>4. \A i \in 1 .. Len(u) : u[i] = g[Len(g) - Len(u) + i]
  <2> SUFFICES ASSUME NEW i \in 1 .. Len(u) PROVE u[i] = g[Len(g) - Len(u) + i]
    OBVIOUS
  <2>1. CASE i <= Len(t)
    <3>1. Len(h) - Len(t) + i \in 1 .. Len(h)
      BY <1>1, <1>3, <2>1
    <3>2. i \in 1 .. Len(t)
      BY <1>1, <1>3, <2>1
    <3>3. t[i] = h[Len(h) - Len(t) + i]
      BY <3>2 DEF Suffix
    <3>4. Len(g) - Len(u) + i = Len(h) - Len(t) + i
      BY <1>1, <1>2, <1>3
    <3> QED BY <1>1, <1>2, <3>1, <3>2, <3>3, <3>4
  <2>2. CASE i = Len(t) + 1
    BY <1>1, <1>2, <1>3, <2>2
  <2> QED BY <1>1, <1>3, <2>1, <2>2
<1>5. \A i \in 1 .. Len(g) - Len(u) : g[i] <= T - s
  <2> SUFFICES ASSUME NEW i \in 1 .. Len(g) - Len(u) PROVE g[i] <= T - s
    OBVIOUS
  <2>1. i \in 1 .. Len(h) - Len(t) /\ i \in 1 .. Len(h)
    BY <1>1, <1>2, <1>3
  <2>2. h[i] <= T - s
    BY <2>1 DEF Suffix
  <2> QED BY <1>2, <2>1, <2>2
<1>6. \A i \in 1 .. Len(g) : g[i] <= T
  <2> SUFFICES ASSUME NEW i \in 1 .. Len(g) PROVE g[i] <= T
    OBVIOUS
  <2>1. CASE i \in 1 .. Len(h)
    <3>1. h[i] <= T
      BY <2>1 DEF Suffix
    <3> QED BY <1>2, <2>1, <3>1
  <2>2. CASE i = Len(h) + 1
    BY <1>2, <2>2
  <2> QED BY <1>2, <1>3, <2>1, <2>2
<1>7. Suffix(u, g, T, s)
  BY <1>1, <1>2, <1>3, <1>4, <1>5, <1>6 DEF Suffix
<1> QED BY <1>7 DEF u, g

\* With room in the window, the entry N before the new one has been cut off.
LEMMA AppendApart ==
    ASSUME NEW t \in Seq(Nat), NEW h \in Seq(Nat), NEW T \in Nat, NEW s \in Nat, NEW N \in Nat,
           Suffix(t, h, T, s), Apart(h, N, s), Len(t) < N
    PROVE  Apart(Append(h, T), N, s)
<1> DEFINE g == Append(h, T)
<1>1. /\ Len(g) = Len(h) + 1 /\ g[Len(h) + 1] = T
      /\ \A i \in 1 .. Len(h) : g[i] = h[i]
  OBVIOUS
<1>2. Len(t) \in Nat /\ Len(h) \in Nat /\ \A i \in 1 .. Len(h) : h[i] \in Nat
  OBVIOUS
<1> HIDE DEF g
<1>3. ASSUME NEW i \in 1 .. Len(g), i > N
      PROVE  g[i] - g[i - N] >= s
  <2>1. CASE i <= Len(h)
    <3>1. i \in 1 .. Len(h) /\ i - N \in 1 .. Len(h)
      BY <1>1, <1>2, <1>3, <2>1
    <3>2. h[i] - h[i - N] >= s
      BY <1>3, <3>1 DEF Apart
    <3> QED BY <1>1, <3>1, <3>2
  <2>2. CASE i = Len(h) + 1
    <3>1. i - N \in 1 .. Len(h) - Len(t)
      BY <1>2, <1>3, <2>2
    <3>2. h[i - N] <= T - s /\ h[i - N] \in Nat
      BY <1>2, <3>1 DEF Suffix
    <3>3. g[i - N] = h[i - N]
      <4>1. i - N \in 1 .. Len(h)
        BY <1>2, <1>3, <3>1
      <4> QED BY <1>1, <4>1
    <3>4. g[i] = T
      BY <1>1, <2>2
    <3> QED BY <3>2, <3>3, <3>4
  <2> QED BY <1>1, <1>2, <2>1, <2>2
<1>4. Apart(g, N, s)
  BY <1>3 DEF Apart
<1> QED BY <1>4 DEF g

-----------------------------------------------------------------------------
(* The steps of the limiter *)

\* A fresh limiter has the type and no timestamps.
LEMMA FreshLimiter ==
    ASSUME NEW rs, \A i \in DOMAIN rs : rs[i].limit \in Nat /\ rs[i].span \in Nat
    PROVE  /\ BuildRateLimiter(rs) \in [Names -> Windows]
           /\ \A n \in Names : BuildRateLimiter(rs)[n].times = <<>>
<1>1. \A n \in Names : Registered(rs, n) # {} =>
          LET i == CHOOSE i \in Registered(rs, n) : TRUE
          IN  rs[i].limit \in Nat /\ rs[i].span \in Nat
  BY DEF Registered
<1> QED BY <1>1 DEF BuildRateLimiter, Win, Windows

\* What the limiter lets through keeps the invariant.
LEMMA AllowedKeeps ==
    ASSUME LimiterInv, NEW n, Allowed(n), now' = now
    PROVE  LimiterInv'
<1>1. CASE UNCHANGED limiter
  BY <1>1 DEF limiter, LimiterInv, LimiterType, Kept
<1>2. CASE /\ n \in Names /\ window[n].limit > 0
           /\ \E k \in 0 .. Len(window[n].times) :
                /\ Outside(n, k) /\ HasRoom(n, k)
                /\ window' = [window EXCEPT ![n] =
                        Win(window[n].limit, window[n].span, Append(Rest(n, k), now))]
                /\ admitted' = [admitted EXCEPT ![n] = Append(admitted[n], now)]
  <2>1. PICK k \in 0 .. Len(window[n].times) :
            /\ Outside(n, k) /\ HasRoom(n, k)
            /\ window' = [window EXCEPT ![n] =
                    Win(window[n].limit, window[n].span, Append(Rest(n, k), now))]
            /\ admitted' = [admitted EXCEPT ![n] = Append(admitted[n], now)]
    BY <1>2
  <2>2. /\ window \in [Names -> Windows] /\ admitted \in [Names -> Seq(Nat)] /\ now \in Nat
        /\ n \in Names /\ Kept(n)
    BY <1>2 DEF LimiterInv, LimiterType
  <2>3. /\ window[n].limit \in Nat /\ window[n].span \in Nat
        /\ window[n].times \in Seq(Nat) /\ admitted[n] \in Seq(Nat)
    BY <2>2 DEF Windows
  <2>4. Rest(n, k) \in Seq(Nat) /\ Len(Rest(n, k)) = Len(window[n].times) - k
    BY <2>3, SubSeqFrom DEF Rest
  <2>5. Suffix(Rest(n, k), admitted[n], now, window[n].span)
    BY <2>1, <2>2, <2>3, PruneSuffix DEF Rest, Outside, Kept
  <2>6. Suffix(Append(Rest(n, k), now), Append(admitted[n], now), now, window[n].span)
    BY <2>2, <2>3, <2>4, <2>5, AppendSuffix
  <2>7. Apart(Append(admitted[n], now), window[n].limit, window[n].span)
    BY <2>1, <2>2, <2>3, <2>4, <2>5, AppendApart DEF HasRoom, Kept
  <2>8. /\ window'[n].limit = window[n].limit /\ window'[n].span = window[n].span
        /\ window'[n].times = Append(Rest(n, k), now)
        /\ admitted'[n] = Append(admitted[n], now)
    BY <2>1, <2>2 DEF Win
  <2>9. Kept(n)'
    BY <2>6, <2>7, <2>8 DEF Kept
  <2>10. Win(window[n].limit, window[n].span, Append(Rest(n, k), now)) \in Windows
    BY <2>2, <2>3, <2>4 DEF Win, Windows
  <2>11. LimiterType'
    BY <2>1, <2>2, <2>3, <2>10 DEF LimiterType
  <2>12. ASSUME NEW m \in Names, m # n, window'[m].limit > 0
         PROVE  Kept(m)'
    <3>1. window'[m] = window[m] /\ admitted'[m] = admitted[m]
      BY <2>1, <2>2, <2>12
    <3>2. Kept(m)
      BY <2>12, <3>1 DEF LimiterInv
    <3> QED BY <3>1, <3>2 DEF Kept
  <2> QED BY <2>9, <2>11, <2>12 DEF LimiterInv
<1> QED BY <1>1, <1>2 DEF Allowed

\* A refusal only prunes.
LEMMA RefusedKeeps ==
    ASSUME LimiterInv, NEW n, Refused(n), now' = now
    PROVE  LimiterInv'
<1>1. PICK k \in 0 .. Len(window[n].times) :
          /\ Outside(n, k)
          /\ window' = [window EXCEPT ![n] = Win(window[n].limit, window[n].span, Rest(n, k))]
  BY DEF Refused
<1>2. /\ window \in [Names -> Windows] /\ admitted \in [Names -> Seq(Nat)] /\ now \in Nat
      /\ n \in Names /\ Kept(n) /\ admitted' = admitted
  BY DEF Refused, LimiterInv, LimiterType
<1>3. /\ window[n].limit \in Nat /\ window[n].span \in Nat
      /\ window[n].times \in Seq(Nat) /\ admitted[n] \in Seq(Nat)
  BY <1>2 DEF Windows
<1>4. Rest(n, k) \in Seq(Nat)
  BY <1>3, SubSeqFrom DEF Rest
<1>5. Suffix(Rest(n, k), admitted[n], now, window[n].span)
  BY <1>1, <1>2, <1>3, PruneSuffix DEF Rest, Outside, Kept
<1>6. /\ window'[n].limit = window[n].limit /\ window'[n].span = window[n].span
      /\ window'[n].times = Rest(n, k) /\ admitted'[n] = admitted[n]
  BY <1>1, <1>2 DEF Win
<1>7. Kept(n)'
  BY <1>2, <1>5, <1>6 DEF Kept
<1>8. Win(window[n].limit, window[n].span, Rest(n, k)) \in Windows
  BY <1>3, <1>4 DEF Win, Windows
<1>9. LimiterType'
  BY <1>1, <1>2, <1>8 DEF LimiterType
<1>10. ASSUME NEW m \in Names, m # n, window'[m].limit > 0
       PROVE  Kept(m)'
  <2>1. window'[m] = window[m] /\ admitted'[m] = admitted[m]
    BY <1>1, <1>2, <1>10
  <2>2. Kept(m)
    BY <1>10, <2>1 DEF LimiterInv
  <2> QED BY <2>1, <2>2 DEF Kept
<1> QED BY <1>7, <1>9, <1>10 DEF LimiterInv

\* A load starts every window anew.
LEMMA LoadKeeps ==
    ASSUME LimiterInv, NEW f, Load(f), now' = now,
           \A i \in DOMAIN f.rules : f.rules[i].limit \in Nat /\ f.rules[i].span \in Nat
    PROVE  LimiterInv'
<1>1. /\ window' \in [Names -> Windows]
      /\ \A n \in Names : window'[n].times = <<>>
  BY FreshLimiter DEF Load
<1>2. admitted' = [n \in Names |-> <<>>]
  BY DEF Load
<1>3. admitted' \in [Names -> Seq(Nat)]
  BY <1>2
<1>4. \A n \in Names : Kept(n)'
  BY <1>1, <1>2 DEF Kept, Suffix, Apart
<1> QED BY <1>1, <1>3, <1>4 DEF LimiterInv, LimiterType

-----------------------------------------------------------------------------
(* The theorem *)

LEMMA InitLimiter == Init => LimiterInv
<1> SUFFICES ASSUME Init PROVE LimiterInv
  OBVIOUS
<1>1. disk.file \in Files
  BY DEF Init
<1>2. \A i \in DOMAIN disk.file.rules : disk.file.rules[i].limit \in Nat /\ disk.file.rules[i].span \in Nat
  BY <1>1, ProxyAssumption
<1>3. /\ window \in [Names -> Windows]
      /\ \A n \in Names : window[n].times = <<>>
  BY <1>2, FreshLimiter DEF Init
<1>4. admitted = [n \in Names |-> <<>>] /\ now = 0
  BY DEF Init
<1>5. \A n \in Names : Kept(n)
  BY <1>3, <1>4 DEF Kept, Suffix, Apart
<1> QED BY <1>3, <1>4, <1>5 DEF LimiterInv, LimiterType

\* The rules on disk are those of a file.
DiskOK == disk.file \in Files

LEMMA OnDiskTyped ==
    ASSUME DiskOK
    PROVE  \A i \in DOMAIN OnDisk.rules : OnDisk.rules[i].limit \in Nat /\ OnDisk.rules[i].span \in Nat
<1>1. CASE disk.torn
  BY <1>1 DEF OnDisk, Empty
<1>2. CASE ~disk.torn
  BY <1>2, ProxyAssumption DEF OnDisk, DiskOK
<1> QED BY <1>1, <1>2

LEMMA NextDisk == DiskOK /\ [Next]_vars => DiskOK'
<1> SUFFICES ASSUME DiskOK, [Next]_vars PROVE DiskOK'
  OBVIOUS
<1> USE DEF DiskOK
<1>1. CASE UNCHANGED disk
  BY <1>1
<1>2. CASE SaveBegins
  BY <1>2 DEF SaveBegins
<1>3. CASE SaveEnds
  BY <1>3 DEF SaveEnds
<1> QED BY <1>1, <1>2, <1>3 DEF Next, vars, store, Tick, ConnStep, ConnectMitm, ConnectTunnel, PlainRequest,
           MitmRequest, MitmRejected, TunnelEnds, ClientLeaves, ResponseEnds,
           ConnectRefused, PlainRefused, PlainRejected, Sighup, Restart

LEMMA NextLimiter == DiskOK /\ LimiterInv /\ [Next]_vars => LimiterInv'
<1> SUFFICES ASSUME DiskOK, LimiterInv, [Next]_vars PROVE LimiterInv'
  OBVIOUS
<1>1. CASE now' = now /\ UNCHANGED limiter
  BY <1>1 DEF limiter, LimiterInv, LimiterType, Kept
<1>2. CASE Tick
  <2>1. now' = now + 1 /\ window' = window /\ admitted' = admitted
    BY <1>2 DEF Tick, limiter
  <2>2. LimiterType'
    BY <2>1 DEF LimiterInv, LimiterType
  <2>3. ASSUME NEW n \in Names, window'[n].limit > 0
        PROVE  Kept(n)'
    <3>1. /\ Kept(n) /\ window[n].span \in Nat /\ admitted[n] \in Seq(Nat) /\ now \in Nat
          /\ window[n].times \in Seq(Nat)
      BY <2>1, <2>3 DEF LimiterInv, LimiterType, Windows
    <3>2. Suffix(window[n].times, admitted[n], now + 1, window[n].span)
      BY <3>1, LaterSuffix DEF Kept
    <3> QED BY <2>1, <3>1, <3>2 DEF Kept
  <2> QED BY <2>2, <2>3 DEF LimiterInv
<1>3. ASSUME NEW n, Allowed(n), now' = now
      PROVE  LimiterInv'
  BY <1>3, AllowedKeeps
<1>4. ASSUME NEW n, Refused(n), now' = now
      PROVE  LimiterInv'
  BY <1>4, RefusedKeeps
<1>5. CASE Sighup \/ Restart
  BY <1>5, LoadKeeps, OnDiskTyped DEF Sighup, Restart
<1>6. ASSUME NEW c \in Conns, ConnStep(c)
      PROVE  LimiterInv'
  <2>1. ASSUME NEW h \in Hosts, ConnectMitm(c, h) PROVE LimiterInv'
    BY <1>3, <2>1 DEF ConnectMitm
  <2>2. ASSUME NEW h \in Hosts, ConnectTunnel(c, h) PROVE LimiterInv'
    BY <1>3, <2>2 DEF ConnectTunnel
  <2>3. ASSUME NEW h \in Hosts, PlainRequest(c, h) PROVE LimiterInv'
    BY <1>3, <2>3 DEF PlainRequest
  <2> QED BY <1>1, <1>6, <2>1, <2>2, <2>3 DEF ConnStep, MitmRequest, MitmRejected, TunnelEnds,
             ClientLeaves, ResponseEnds
<1>7. ASSUME NEW h \in Hosts, ConnectRefused(h) \/ PlainRefused(h) \/ PlainRejected(h)
      PROVE  LimiterInv'
  BY <1>3, <1>4, <1>7 DEF ConnectRefused, PlainRefused, PlainRejected
<1>8. CASE SaveBegins \/ SaveEnds \/ UNCHANGED vars
  BY <1>1, <1>8 DEF SaveBegins, SaveEnds, vars
<1> QED BY <1>2, <1>5, <1>6, <1>7, <1>8 DEF Next

\* The rate limiter never lets more than its limit through in any window: for every
\* rule file, every limit and span, and every order of connections and reloads.
THEOREM WindowRespectedHolds == Spec => []WindowRespected
<1>1. Init => DiskOK /\ LimiterInv
  BY InitLimiter DEF Init, DiskOK
<1>2. LimiterInv => WindowRespected
  <2> SUFFICES ASSUME LimiterInv, NEW n \in Names, window[n].limit > 0,
                      NEW i \in DOMAIN admitted[n], i > window[n].limit
               PROVE  admitted[n][i] - admitted[n][i - window[n].limit] >= window[n].span
    BY DEF WindowRespected
  <2>1. admitted[n] \in Seq(Nat) /\ Kept(n)
    BY DEF LimiterInv, LimiterType
  <2>2. i \in 1 .. Len(admitted[n])
    BY <2>1
  <2> QED BY <2>1, <2>2 DEF Kept, Apart
<1> QED BY <1>1, <1>2, NextDisk, NextLimiter, PTL DEF Spec

-----------------------------------------------------------------------------
(* The key rotator *)

\* The rules in memory come from a file.
RulesOK ==
    /\ \A i, j \in DOMAIN rules : rules[i].name = rules[j].name => i = j
    /\ \A i \in DOMAIN rules : rules[i].name \in Names /\ rules[i].values \in Nat

RotorType ==
    /\ rotor \in [Names -> Nat]
    /\ uses \in [Names -> Seq(Nat)]
    /\ mixed \in BOOLEAN

\* The first c of V values were sent once more than the others.
Rounds(n, V, c) ==
    \E q \in Nat : \A v \in 0 .. V - 1 : Sent(n, v) = IF v < c THEN q + 1 ELSE q

RotorInv ==
    /\ RulesOK
    /\ RotorType
    /\ ~mixed => \A i \in DOMAIN rules :
                    rules[i].values > 0 => Rounds(rules[i].name, rules[i].values, ValueIndex(rules[i]))

\* The remainder of a division is unique.
LEMMA UniqueRemainder ==
    ASSUME NEW V \in Nat, NEW a \in Int, NEW b \in Int, NEW s \in 0 .. V - 1, NEW t \in 0 .. V - 1,
           a * V + s = b * V + t
    PROVE  s = t
<1>1. (a - b) * V = t - s
  OBVIOUS
<1>2. CASE a = b
  BY <1>1, <1>2
<1>3. CASE a - b >= 1
  <2>1. (a - b) * V >= V
    BY <1>3
  <2> QED BY <1>1, <2>1
<1>4. CASE b - a >= 1
  <2>1. (b - a) * V >= V
    BY <1>4
  <2>2. (b - a) * V = s - t
    BY <1>1
  <2> QED BY <2>1, <2>2
<1> QED BY <1>2, <1>3, <1>4

\* Counting up modulo V.
LEMMA ModSuccessor ==
    ASSUME NEW r \in Nat, NEW V \in Nat, V > 0
    PROVE  /\ r % V \in 0 .. V - 1
           /\ (r + 1) % V = IF r % V = V - 1 THEN 0 ELSE (r % V) + 1
<1>1. r % V \in 0 .. V - 1 /\ r = (r \div V) * V + (r % V) /\ r \div V \in Int
  OBVIOUS
<1>2. /\ (r + 1) % V \in 0 .. V - 1 /\ r + 1 = ((r + 1) \div V) * V + ((r + 1) % V)
      /\ (r + 1) \div V \in Int
  OBVIOUS
<1>3. CASE r % V = V - 1
  <2>1. PICK a \in Int : a = (r \div V) + 1
    BY <1>1
  <2>2. a * V + 0 = r + 1
    BY <1>1, <1>3, <2>1
  <2>3. PICK b \in Int : b = (r + 1) \div V
    BY <1>2
  <2>4. b * V + ((r + 1) % V) = r + 1
    BY <1>2, <2>3
  <2>5. 0 \in 0 .. V - 1
    OBVIOUS
  <2>6. (r + 1) % V = 0
    BY <1>2, <2>2, <2>4, <2>5, UniqueRemainder
  <2> QED BY <1>3, <2>6
<1>4. CASE r % V # V - 1
  <2>1. r + 1 = (r \div V) * V + ((r % V) + 1) /\ (r % V) + 1 \in 0 .. V - 1
    BY <1>1, <1>4
  <2> QED BY <1>1, <1>2, <1>4, <2>1, UniqueRemainder
<1> QED BY <1>1, <1>3, <1>4

Count(u, v) == Cardinality({i \in DOMAIN u : u[i] = v})

\* Appending x to a history counts one more x.
LEMMA CountAppend ==
    ASSUME NEW u \in Seq(Nat), NEW x \in Nat, NEW v
    PROVE  Count(Append(u, x), v) = Count(u, v) + (IF v = x THEN 1 ELSE 0)
<1> DEFINE S == {i \in DOMAIN u : u[i] = v}
           T == {i \in DOMAIN Append(u, x) : Append(u, x)[i] = v}
<1>1. IsFiniteSet(S)
  <2>1. IsFiniteSet(1 .. Len(u))
    BY FS_Interval
  <2>2. S \in SUBSET (1 .. Len(u))
    OBVIOUS
  <2> QED BY <2>1, <2>2, FS_Subset
<1>2. Cardinality(S) \in Nat
  BY <1>1, FS_CardinalityType
<1>3. Len(u) + 1 \notin S
  OBVIOUS
<1>4. T = IF v = x THEN S \cup {Len(u) + 1} ELSE S
  OBVIOUS
<1> HIDE DEF S, T
<1>5. Cardinality(T) = Cardinality(S) + (IF v = x THEN 1 ELSE 0)
  <2>1. CASE v = x
    BY <1>1, <1>2, <1>3, <1>4, <2>1, FS_AddElement
  <2>2. CASE v # x
    BY <1>2, <1>4, <2>2
  <2> QED BY <2>1, <2>2
<1> QED BY <1>5 DEF S, T, Count

\* One more value sent keeps the rounds.
LEMMA RoundsStep ==
    ASSUME NEW n, NEW V \in Nat, V > 0, NEW r \in Nat, uses[n] \in Seq(Nat),
           Rounds(n, V, r % V), uses'[n] = Append(uses[n], r % V)
    PROVE  Rounds(n, V, (r + 1) % V)'
<1>1. /\ r % V \in 0 .. V - 1
      /\ (r + 1) % V = IF r % V = V - 1 THEN 0 ELSE (r % V) + 1
  BY ModSuccessor
<1>2. PICK c \in 0 .. V - 1 : c = r % V
  BY <1>1
<1>3. PICK d \in 0 .. V - 1 : d = (r + 1) % V
  BY <1>1
<1>4. PICK q \in Nat : \A v \in 0 .. V - 1 : Sent(n, v) = IF v < c THEN q + 1 ELSE q
  BY <1>2 DEF Rounds
<1>5. \A v : Sent(n, v)' = Sent(n, v) + (IF v = c THEN 1 ELSE 0)
  <2> SUFFICES ASSUME NEW v PROVE Sent(n, v)' = Sent(n, v) + (IF v = c THEN 1 ELSE 0)
    OBVIOUS
  <2>1. PICK u \in Seq(Nat) : u = uses[n]
    OBVIOUS
  <2>2. Sent(n, v) = Count(u, v)
    BY <2>1 DEF Sent, Count
  <2>3. Sent(n, v)' = Count(Append(u, c), v)
    BY <1>2, <2>1 DEF Sent, Count
  <2>4. c \in Nat
    OBVIOUS
  <2>5. Count(Append(u, c), v) = Count(u, v) + (IF v = c THEN 1 ELSE 0)
    BY <2>4, CountAppend
  <2> QED BY <2>2, <2>3, <2>5
<1>6. d = IF c = V - 1 THEN 0 ELSE c + 1
  BY <1>1, <1>2, <1>3
<1>7. \A v \in 0 .. V - 1 : Sent(n, v)' = IF v < d THEN (IF c = V - 1 THEN q + 1 ELSE q) + 1
                                          ELSE (IF c = V - 1 THEN q + 1 ELSE q)
  <2> SUFFICES ASSUME NEW v \in 0 .. V - 1
               PROVE  Sent(n, v)' = IF v < d THEN (IF c = V - 1 THEN q + 1 ELSE q) + 1
                                    ELSE (IF c = V - 1 THEN q + 1 ELSE q)
    OBVIOUS
  <2>1. Sent(n, v)' = Sent(n, v) + (IF v = c THEN 1 ELSE 0)
    BY <1>5, Zenon
  <2>2. Sent(n, v) = IF v < c THEN q + 1 ELSE q
    BY <1>4, Zenon
  <2>3. CASE c = V - 1
    BY <1>6, <2>1, <2>2, <2>3
  <2>4. CASE c # V - 1
    BY <1>6, <2>1, <2>2, <2>4
  <2> QED BY <2>3, <2>4
<1>8. (IF c = V - 1 THEN q + 1 ELSE q) \in Nat
  OBVIOUS
<1> QED BY <1>3, <1>7, <1>8 DEF Rounds

\* A step that does not send.
LEMMA RotorFrame ==
    ASSUME RotorInv, UNCHANGED <<rules, sending>>
    PROVE  RotorInv'
<1>1. rules' = rules /\ rotor' = rotor /\ uses' = uses /\ mixed' = mixed
  BY DEF sending
<1>2. \A n, v : Sent(n, v)' = Sent(n, v)
  BY <1>1 DEF Sent
<1>3. \A n, V, c : Rounds(n, V, c) => Rounds(n, V, c)'
  BY <1>2 DEF Rounds
<1>4. RulesOK' /\ RotorType'
  BY <1>1 DEF RotorInv, RulesOK, RotorType
<1>5. ASSUME ~mixed, NEW i \in DOMAIN rules, rules[i].values > 0
      PROVE  Rounds(rules[i].name, rules[i].values, ValueIndex(rules[i]))'
  <2>1. Rounds(rules[i].name, rules[i].values, ValueIndex(rules[i]))
    BY <1>5 DEF RotorInv
  <2>2. PICK n, V, c : n = rules[i].name /\ V = rules[i].values /\ c = ValueIndex(rules[i])
    OBVIOUS
  <2>3. n = rules'[i].name /\ V = rules'[i].values /\ c = ValueIndex(rules[i])'
    BY <1>1, <2>2 DEF ValueIndex
  <2>4. Rounds(n, V, c)'
    BY <1>3, <2>1, <2>2
  <2> QED BY <2>3, <2>4 DEF Rounds
<1> QED BY <1>1, <1>4, <1>5 DEF RotorInv

\* A request that is sent, under a rule of the last load or an older one.
LEMMA ForwardKeeps ==
    ASSUME RotorInv, NEW r, Forward(r), rules' = rules
    PROVE  RotorInv'
<1>1. CASE UNCHANGED sending
  BY <1>1, RotorFrame
<1>2. CASE r.values > 0 /\ Outdated(r)
  <2>1. rotor' = [rotor EXCEPT ![r.name] = rotor[r.name] + 1] /\ uses' = uses /\ mixed' = TRUE
    BY <1>2 DEF Forward
  <2>2. RulesOK'
    BY DEF RotorInv, RulesOK
  <2>3. RotorType'
    <3>1. rotor \in [Names -> Nat] /\ uses \in [Names -> Seq(Nat)]
      BY DEF RotorInv, RotorType
    <3>2. rotor' \in [Names -> Nat]
      <4>1. CASE r.name \in Names
        BY <2>1, <3>1, <4>1
      <4>2. CASE r.name \notin Names
        BY <2>1, <3>1, <4>2
      <4> QED BY <4>1, <4>2
    <3> QED BY <2>1, <3>1, <3>2 DEF RotorType
  <2> QED BY <2>1, <2>2, <2>3 DEF RotorInv
<1>3. CASE r.values > 0 /\ ~Outdated(r)
  <2>1. PICK i \in DOMAIN rules : rules[i] = r
    BY <1>3 DEF Outdated
  <2>2. r.name \in Names /\ r.values \in Nat /\ rotor[r.name] \in Nat /\ uses[r.name] \in Seq(Nat)
    BY <2>1 DEF RotorInv, RulesOK, RotorType
  <2>3. /\ rotor' = [rotor EXCEPT ![r.name] = rotor[r.name] + 1]
        /\ uses' = [uses EXCEPT ![r.name] = Append(uses[r.name], rotor[r.name] % r.values)]
        /\ mixed' = mixed
    BY <1>3, <2>2 DEF Forward, ValueIndex, RotorInv, RotorType
  <2>4. rotor[r.name] % r.values \in Nat
    <3>1. rotor[r.name] % r.values \in 0 .. r.values - 1
      BY <1>3, <2>2, ModSuccessor, Zenon
    <3> QED BY <2>2, <3>1
  <2>5. RotorType'
    BY <2>2, <2>3, <2>4 DEF RotorInv, RotorType
  <2>6. ASSUME NEW j \in DOMAIN rules, rules[j].values > 0, ~mixed
        PROVE  Rounds(rules[j].name, rules[j].values, ValueIndex(rules[j]))'
    <3>1. Rounds(rules[j].name, rules[j].values, ValueIndex(rules[j]))
      BY <2>6 DEF RotorInv
    <3>2. CASE j = i
      <4>1. Rounds(r.name, r.values, rotor[r.name] % r.values)
        BY <2>1, <3>1, <3>2 DEF ValueIndex
      <4>2. uses'[r.name] = Append(uses[r.name], rotor[r.name] % r.values)
        BY <2>2, <2>3 DEF RotorInv, RotorType
      <4>3. PICK k \in Nat : k = rotor[r.name]
        BY <2>2
      <4>4. Rounds(r.name, r.values, (k + 1) % r.values)'
        BY <1>3, <2>2, <4>1, <4>2, <4>3, RoundsStep
      <4>5. ValueIndex(r)' = (k + 1) % r.values
        BY <2>2, <2>3, <4>3 DEF RotorInv, RotorType, ValueIndex
      <4>6. Rounds(r.name, r.values, ValueIndex(r))'
        BY <4>4, <4>5 DEF Rounds
      <4> QED BY <2>1, <3>2, <4>6
    <3>3. CASE j # i
      <4>1. rules[j].name # r.name
        BY <2>1, <3>3 DEF RotorInv, RulesOK
      <4>2. rotor'[rules[j].name] = rotor[rules[j].name] /\ uses'[rules[j].name] = uses[rules[j].name]
        BY <2>2, <2>3, <4>1 DEF RotorInv, RotorType, RulesOK
      <4>3. PICK n, V, c : n = rules[j].name /\ V = rules[j].values /\ c = ValueIndex(rules[j])
        OBVIOUS
      <4>4. n = rules'[j].name /\ V = rules'[j].values /\ c = ValueIndex(rules[j])'
        BY <4>2, <4>3 DEF ValueIndex
      <4>5. \A v : Sent(n, v)' = Sent(n, v)
        BY <4>2, <4>3 DEF Sent
      <4>6. Rounds(n, V, c)'
        BY <3>1, <4>3, <4>5 DEF Rounds
      <4> QED BY <4>4, <4>6 DEF Rounds
    <3> QED BY <3>2, <3>3
  <2>7. RulesOK'
    BY DEF RotorInv, RulesOK
  <2> QED BY <2>3, <2>5, <2>6, <2>7 DEF RotorInv
<1> QED BY <1>1, <1>2, <1>3 DEF Forward

\* Nothing has been sent of a fresh load.
Unsent == RulesOK /\ rotor = Zero /\ uses = [n \in Names |-> <<>>] /\ mixed = FALSE

LEMMA FreshRotor == Unsent => RotorInv
<1> SUFFICES ASSUME Unsent PROVE RotorInv
  OBVIOUS
<1> USE DEF Unsent
<1>1. RotorType
  <2>1. rotor \in [Names -> Nat] /\ uses \in [Names -> Seq(Nat)]
    BY DEF Zero
  <2> QED BY <2>1 DEF RotorType
<1>2. ASSUME NEW i \in DOMAIN rules, rules[i].values > 0
      PROVE  Rounds(rules[i].name, rules[i].values, ValueIndex(rules[i]))
  <2>1. rules[i].name \in Names /\ rules[i].values \in Nat
    BY DEF RulesOK
  <2>2. ValueIndex(rules[i]) = 0
    BY <1>2, <2>1 DEF ValueIndex, Zero
  <2>3. \A v : Sent(rules[i].name, v) = 0
    <3>1. \A v : {k \in DOMAIN uses[rules[i].name] : uses[rules[i].name][k] = v} = {}
      BY <2>1
    <3> QED BY <3>1, FS_EmptySet DEF Sent
  <2> QED BY <2>2, <2>3 DEF Rounds
<1> QED BY <1>1, <1>2 DEF RotorInv

LEMMA FreshRotorNext == Unsent' => RotorInv'
  BY FreshRotor, PTL

LEMMA NextRotor == DiskOK /\ RotorInv /\ [Next]_vars => RotorInv'
<1> SUFFICES ASSUME DiskOK, RotorInv, [Next]_vars PROVE RotorInv'
  OBVIOUS
<1>1. CASE UNCHANGED <<rules, sending>>
  BY <1>1, RotorFrame
<1>2. CASE Sighup \/ Restart
  <2>1. Load(OnDisk)
    BY <1>2 DEF Sighup, Restart
  <2>2. RulesOK'
    <3>1. CASE disk.torn
      BY <2>1, <3>1 DEF Load, OnDisk, Empty, RulesOK
    <3>2. CASE ~disk.torn
      <4>1. rules' = disk.file.rules /\ disk.file \in Files
        BY <2>1, <3>2 DEF Load, OnDisk, DiskOK
      <4> QED BY <4>1, ProxyAssumption DEF RulesOK
    <3> QED BY <3>1, <3>2
  <2>3. Unsent'
    BY <2>1, <2>2 DEF Load, Unsent, Zero
  <2> QED BY <2>3, FreshRotorNext
<1>3. ASSUME NEW c \in Conns, ConnStep(c)
      PROVE  RotorInv'
  <2>1. ASSUME NEW h \in Hosts, PlainRequest(c, h) PROVE RotorInv'
    BY <1>1, <2>1, ForwardKeeps DEF PlainRequest, store
  <2>2. ASSUME NEW hs \in SUBSET Headers, MitmRequest(c, hs) PROVE RotorInv'
    BY <2>2, ForwardKeeps DEF MitmRequest, store
  <2> QED BY <1>1, <1>3, <2>1, <2>2 DEF ConnStep, ConnectMitm, ConnectTunnel, MitmRejected,
             TunnelEnds, ClientLeaves, ResponseEnds, store
<1> QED BY <1>1, <1>2, <1>3 DEF Next, Tick, ConnectRefused, PlainRefused, PlainRejected, SaveBegins,
           SaveEnds, vars, store

\* Between two loads the values of every rule are sent equally often, whatever the number
\* of values, of rules with the same header, and of connections that share the counter.
THEOREM RotationEvenHolds == Spec => []RotationEven
<1>1. Init => DiskOK /\ RotorInv
  <2> SUFFICES ASSUME Init PROVE DiskOK /\ RotorInv
    OBVIOUS
  <2>1. DiskOK /\ rules = disk.file.rules
    BY DEF Init, DiskOK
  <2>2. RulesOK
    BY <2>1, ProxyAssumption DEF RulesOK, DiskOK
  <2> QED BY <2>1, <2>2, FreshRotor DEF Init, Unsent
<1>2. RotorInv => RotationEven
  <2> SUFFICES ASSUME RotorInv, ~mixed, NEW i \in DOMAIN rules,
                      NEW v \in 0 .. rules[i].values - 1, NEW w \in 0 .. rules[i].values - 1
               PROVE  Sent(rules[i].name, v) <= Sent(rules[i].name, w) + 1
    BY DEF RotationEven
  <2>1. rules[i].values \in Nat
    BY DEF RotorInv, RulesOK
  <2>2. rules[i].values > 0
    BY <2>1
  <2> QED BY <2>2 DEF RotorInv, Rounds
<1> QED BY <1>1, <1>2, NextDisk, NextRotor, PTL DEF Spec

-----------------------------------------------------------------------------
(* The certificate cache *)

Entries == [host : Hosts, made : Nat]

CacheType ==
    /\ now \in Nat /\ requests \in Nat
    /\ cache \in Seq(Entries)
    /\ lastUse \in [Hosts -> Nat]

\* The order of the cache is the order of use.
InOrder(s) ==
    \A i, j \in 1 .. Len(s) : i < j => lastUse[s[i].host] < lastUse[s[j].host]

\* Uses are numbered, and what is in the cache has been used.
Numbered ==
    /\ \A h \in Hosts : lastUse[h] <= requests
    /\ \A g, h \in Hosts : lastUse[g] = lastUse[h] /\ lastUse[g] > 0 => g = h
    /\ \A i \in 1 .. Len(cache) : lastUse[cache[i].host] > 0

\* A host that was used and is not there had to make room for later ones.
EvictedEarlier ==
    \A h \in Hosts : lastUse[h] > 0 /\ Position(h) = {} =>
        /\ Len(cache) = MaxEntries
        /\ \A i \in 1 .. Len(cache) : lastUse[h] < lastUse[cache[i].host]

\* The order of the Map is the order of the last uses.
CacheInv ==
    /\ CacheType
    /\ Len(cache) <= MaxEntries
    /\ InOrder(cache)
    /\ Numbered
    /\ EvictedEarlier

\* Two sequences in one.
LEMMA Concatenated ==
    ASSUME NEW S, NEW u \in Seq(S), NEW v \in Seq(S)
    PROVE  /\ u \o v \in Seq(S) /\ Len(u \o v) = Len(u) + Len(v)
           /\ \A i \in 1 .. Len(u \o v) : (u \o v)[i] = IF i <= Len(u) THEN u[i] ELSE v[i - Len(u)]
  OBVIOUS

\* Taking the entry of h out of the cache.
LEMMA WithoutProps ==
    ASSUME CacheInv, NEW h \in Hosts
    PROVE  /\ Without(h) \in Seq(Entries)
           /\ Len(Without(h)) = IF Position(h) = {} THEN Len(cache) ELSE Len(cache) - 1
           /\ \A i \in 1 .. Len(Without(h)) : Without(h)[i].host # h
           /\ InOrder(Without(h))
           /\ \A i \in 1 .. Len(Without(h)) : \E k \in 1 .. Len(cache) : Without(h)[i] = cache[k]
           /\ \A k \in 1 .. Len(cache) : cache[k].host # h =>
                \E i \in 1 .. Len(Without(h)) : Without(h)[i] = cache[k]
<1>1. cache \in Seq(Entries) /\ InOrder(cache) /\ lastUse \in [Hosts -> Nat] /\ Len(cache) \in Nat
  BY DEF CacheInv, CacheType
<1>2. CASE Position(h) = {}
  <2>1. Without(h) = cache
    BY <1>2 DEF Without
  <2>2. \A i \in 1 .. Len(cache) : cache[i].host # h
    BY <1>1, <1>2 DEF Position
  <2> QED BY <1>1, <1>2, <2>1, <2>2
<1>3. CASE Position(h) # {}
  <2>1. PICK p : p = Where(h)
    OBVIOUS
  <2>2. p \in 1 .. Len(cache) /\ cache[p].host = h
    BY <1>1, <1>3, <2>1 DEF Where, Position
  <2>3. PICK w : w = SubSeq(cache, 1, p - 1) \o SubSeq(cache, p + 1, Len(cache))
    OBVIOUS
  <2>4. Without(h) = w
    BY <1>3, <2>1, <2>3 DEF Without
  <2>5. /\ w \in Seq(Entries) /\ Len(w) = Len(cache) - 1
        /\ \A i \in 1 .. Len(w) : w[i] = cache[IF i < p THEN i ELSE i + 1]
    <3>1. /\ SubSeq(cache, 1, p - 1) \in Seq(Entries) /\ Len(SubSeq(cache, 1, p - 1)) = p - 1
          /\ \A i \in 1 .. p - 1 : SubSeq(cache, 1, p - 1)[i] = cache[i]
      BY <1>1, <2>2
    <3>2. /\ SubSeq(cache, p + 1, Len(cache)) \in Seq(Entries)
          /\ Len(SubSeq(cache, p + 1, Len(cache))) = Len(cache) - p
          /\ \A i \in 1 .. Len(cache) - p : SubSeq(cache, p + 1, Len(cache))[i] = cache[p + i]
      BY <1>1, <2>2
    <3>3. PICK u \in Seq(Entries), v \in Seq(Entries) :
              /\ w = u \o v /\ Len(u) = p - 1 /\ Len(v) = Len(cache) - p
              /\ \A i \in 1 .. p - 1 : u[i] = cache[i]
              /\ \A i \in 1 .. Len(cache) - p : v[i] = cache[p + i]
      BY <2>3, <3>1, <3>2
    <3>4. /\ w \in Seq(Entries) /\ Len(w) = Len(u) + Len(v)
          /\ \A i \in 1 .. Len(w) : w[i] = IF i <= Len(u) THEN u[i] ELSE v[i - Len(u)]
      BY <3>3, Concatenated, Zenon
    <3>5. ASSUME NEW i \in 1 .. Len(w)
          PROVE  w[i] = cache[IF i < p THEN i ELSE i + 1]
      <4>1. CASE i < p
        BY <1>1, <2>2, <3>3, <3>4, <4>1
      <4>2. CASE i >= p
        <5>1. w[i] = v[i - (p - 1)] /\ i - (p - 1) \in 1 .. Len(cache) - p
          <6>1. ~(i <= Len(u))
            BY <2>2, <3>3, <4>2
          <6>2. w[i] = v[i - Len(u)]
            BY <3>4, <6>1, Zenon
          <6>3. i - (p - 1) \in 1 .. Len(cache) - p
            BY <1>1, <2>2, <3>3, <3>4, <4>2
          <6> QED BY <3>3, <6>2, <6>3, Zenon
        <5>2. v[i - (p - 1)] = cache[p + (i - (p - 1))]
          BY <3>3, <5>1
        <5>3. p + (i - (p - 1)) = i + 1
          BY <2>2
        <5> QED BY <2>2, <4>2, <5>1, <5>2, <5>3
      <4> QED BY <2>2, <4>1, <4>2
    <3>6. Len(w) = Len(cache) - 1
      <4>1. Len(w) = (p - 1) + (Len(cache) - p)
        BY <3>3, <3>4, Zenon
      <4> QED BY <1>1, <2>2, <4>1
    <3> QED BY <3>4, <3>5, <3>6, Zenon
  <2>6. \A i \in 1 .. Len(w) : (IF i < p THEN i ELSE i + 1) \in 1 .. Len(cache)
    BY <1>1, <2>2, <2>5
  <2>7. ASSUME NEW i \in 1 .. Len(cache), i # p
        PROVE  cache[i].host # h
    <3>1. \A k \in 1 .. Len(cache) : lastUse[cache[k].host] \in Nat
      <4>1. \A k \in 1 .. Len(cache) : cache[k] \in Entries
        BY <1>1
      <4> QED BY <1>1, <4>1 DEF Entries
    <3> QED BY <1>1, <2>2, <2>7, <3>1 DEF InOrder
  <2>8. \A i \in 1 .. Len(w) : w[i].host # h
    BY <2>2, <2>5, <2>6, <2>7
  <2>9. InOrder(w)
    <3> SUFFICES ASSUME NEW i \in 1 .. Len(w), NEW j \in 1 .. Len(w), i < j
                 PROVE  lastUse[w[i].host] < lastUse[w[j].host]
      BY DEF InOrder
    <3>1. PICK k \in 1 .. Len(cache) : k = IF i < p THEN i ELSE i + 1
      BY <2>6
    <3>2. PICK m \in 1 .. Len(cache) : m = IF j < p THEN j ELSE j + 1
      BY <2>6
    <3>3. k < m
      BY <1>1, <2>2, <2>5, <3>1, <3>2
    <3> QED BY <1>1, <2>5, <3>1, <3>2, <3>3 DEF InOrder
  <2>10. ASSUME NEW k \in 1 .. Len(cache), cache[k].host # h
         PROVE  \E i \in 1 .. Len(w) : w[i] = cache[k]
    <3>1. k # p
      BY <2>2, <2>10
    <3>2. CASE k < p
      <4>1. k \in 1 .. Len(w)
        BY <1>1, <2>2, <2>5, <3>2
      <4> QED BY <2>5, <3>2, <4>1
    <3>3. CASE k > p
      <4>1. k - 1 \in 1 .. Len(w) /\ ~(k - 1 < p) /\ (k - 1) + 1 = k
        BY <1>1, <2>2, <2>5, <3>3
      <4> QED BY <2>5, <4>1
    <3> QED BY <2>2, <3>1, <3>2, <3>3
  <2> QED BY <1>1, <1>3, <2>4, <2>5, <2>6, <2>8, <2>9, <2>10
<1> QED BY <1>2, <1>3

\* What getOrCreate leaves: h at the end, after the others or all of them but the first.
LEMMA GetOrCreateProps ==
    ASSUME CacheInv, NEW h \in Hosts
    PROVE  \E u \in Seq(Entries), e \in Entries :
             /\ GetOrCreate(h) = Append(u, e) /\ e.host = h
             /\ \/ u = Without(h) /\ Len(u) < MaxEntries
                \/ u = Tail(Without(h)) /\ Len(Without(h)) = MaxEntries /\ Position(h) = {}
<1>1. /\ Without(h) \in Seq(Entries)
      /\ Len(Without(h)) = IF Position(h) = {} THEN Len(cache) ELSE Len(cache) - 1
  BY WithoutProps
<1>2. /\ cache \in Seq(Entries) /\ Len(cache) \in Nat /\ Len(cache) <= MaxEntries /\ now \in Nat
      /\ MaxEntries \in Nat /\ MaxEntries > 0
  BY ProxyAssumption DEF CacheInv, CacheType
<1>3. CASE Live(h)
  <2>1. Where(h) \in 1 .. Len(cache) /\ cache[Where(h)].host = h /\ Position(h) # {}
    BY <1>2, <1>3 DEF Live, Where, Position
  <2>2. cache[Where(h)] \in Entries
    BY <1>2, <2>1
  <2>3. GetOrCreate(h) = Append(Without(h), cache[Where(h)])
    BY <1>3 DEF GetOrCreate
  <2>4. Len(Without(h)) < MaxEntries
    BY <1>1, <1>2, <2>1
  <2> QED BY <1>1, <2>1, <2>2, <2>3, <2>4
<1>4. CASE ~Live(h)
  <2>1. PICK e \in Entries : e = [host |-> h, made |-> now]
    BY <1>2 DEF Entries
  <2>2. e.host = h
    BY <2>1
  <2>3. CASE Len(Without(h)) >= MaxEntries
    <3>1. GetOrCreate(h) = Append(Tail(Without(h)), e)
      BY <1>4, <2>1, <2>3 DEF GetOrCreate
    <3>2. Len(Without(h)) = MaxEntries /\ Position(h) = {}
      BY <1>1, <1>2, <2>3
    <3>3. Tail(Without(h)) \in Seq(Entries)
      BY <1>1, <1>2, <3>2
    <3> QED BY <2>2, <3>1, <3>2, <3>3
  <2>4. CASE ~(Len(Without(h)) >= MaxEntries)
    <3>1. GetOrCreate(h) = Append(Without(h), e)
      BY <1>4, <2>1, <2>4 DEF GetOrCreate
    <3>2. Len(Without(h)) < MaxEntries
      BY <1>1, <1>2, <2>4
    <3> QED BY <1>1, <2>2, <3>1, <3>2
  <2> QED BY <2>3, <2>4
<1> QED BY <1>3, <1>4

\* A connection that is intercepted.
LEMMA LastOrBefore ==
    ASSUME NEW n \in Nat, NEW k \in 1 .. n + 1
    PROVE  k = n + 1 \/ k \in 1 .. n
  OBVIOUS

LEMMA UseKeeps ==
    ASSUME CacheInv, NEW h \in Hosts, cache' = GetOrCreate(h), requests' = requests + 1,
           lastUse' = [lastUse EXCEPT ![h] = requests + 1], now' = now
    PROVE  CacheInv'
<1>1. PICK w \in Seq(Entries) :
          /\ w = Without(h)
          /\ Len(w) = IF Position(h) = {} THEN Len(cache) ELSE Len(cache) - 1
          /\ \A i \in 1 .. Len(w) : w[i].host # h
          /\ InOrder(w)
          /\ \A i \in 1 .. Len(w) : \E k \in 1 .. Len(cache) : w[i] = cache[k]
          /\ \A k \in 1 .. Len(cache) : cache[k].host # h => \E i \in 1 .. Len(w) : w[i] = cache[k]
  BY WithoutProps
<1>2. PICK u \in Seq(Entries), e \in Entries :
          /\ cache' = Append(u, e) /\ e.host = h
          /\ \/ u = w /\ Len(u) < MaxEntries
             \/ u = Tail(w) /\ Len(w) = MaxEntries /\ Position(h) = {}
  BY <1>1, GetOrCreateProps
<1>3. /\ cache \in Seq(Entries) /\ Len(cache) \in Nat /\ Len(cache) <= MaxEntries
      /\ lastUse \in [Hosts -> Nat] /\ now \in Nat /\ requests \in Nat
      /\ MaxEntries \in Nat /\ MaxEntries > 0 /\ Len(u) \in Nat /\ Len(w) \in Nat
  <2>1. /\ cache \in Seq(Entries) /\ Len(cache) <= MaxEntries
        /\ lastUse \in [Hosts -> Nat] /\ now \in Nat /\ requests \in Nat
    BY DEF CacheInv, CacheType
  <2>2. Len(cache) \in Nat /\ Len(u) \in Nat /\ Len(w) \in Nat
    BY <2>1
  <2>3. MaxEntries \in Nat /\ MaxEntries > 0
    BY ProxyAssumption
  <2> QED BY <2>1, <2>2, <2>3
\* d entries are dropped from the front: none or one
<1>4. PICK d \in {0, 1} :
          /\ Len(u) = Len(w) - d
          /\ \A i \in 1 .. Len(u) : u[i] = w[i + d]
          /\ Len(u) < MaxEntries
          /\ d = 1 => Len(w) = MaxEntries /\ Position(h) = {}
  <2>1. CASE u = w /\ Len(u) < MaxEntries
    BY <1>3, <2>1
  <2>2. CASE u = Tail(w) /\ Len(w) = MaxEntries /\ Position(h) = {}
    <3>1. Len(u) = Len(w) - 1 /\ \A i \in 1 .. Len(u) : u[i] = w[i + 1]
      BY <1>3, <2>2
    <3> QED BY <1>3, <2>2, <3>1
  <2> QED BY <1>2, <2>1, <2>2
<1>5. /\ cache' \in Seq(Entries) /\ Len(cache') = Len(u) + 1 /\ cache'[Len(u) + 1] = e
      /\ \A i \in 1 .. Len(u) : cache'[i] = u[i]
  BY <1>2
<1>6. \A i \in 1 .. Len(u) : i + d \in 1 .. Len(w)
  BY <1>3, <1>4
<1>7. /\ \A i \in 1 .. Len(u) : u[i] \in Entries /\ u[i].host \in Hosts /\ u[i].host # h
      /\ \A i \in 1 .. Len(w) : w[i].host \in Hosts
  <2>1. \A i \in 1 .. Len(u) : u[i] \in Entries
    OBVIOUS
  <2>2. \A i \in 1 .. Len(w) : w[i] \in Entries
    OBVIOUS
  <2>3. \A i \in 1 .. Len(u) : u[i].host \in Hosts
    BY <2>1 DEF Entries
  <2>4. \A i \in 1 .. Len(w) : w[i].host \in Hosts
    BY <2>2 DEF Entries
  <2>5. \A i \in 1 .. Len(u) : u[i].host # h
    <3> SUFFICES ASSUME NEW i \in 1 .. Len(u) PROVE u[i].host # h
      OBVIOUS
    <3>1. i + d \in 1 .. Len(w) /\ u[i] = w[i + d]
      BY <1>4, <1>6, Zenon
    <3>2. w[i + d].host # h
      BY <1>1, <3>1, Zenon
    <3> QED BY <3>1, <3>2, Zenon
  <2> QED BY <2>1, <2>3, <2>4, <2>5, Zenon
<1>8. /\ lastUse' \in [Hosts -> Nat] /\ lastUse'[h] = requests + 1
      /\ \A g \in Hosts : g # h => lastUse'[g] = lastUse[g]
  BY <1>3
<1>9. CacheType'
  BY <1>3, <1>5, <1>8 DEF CacheType
<1>10. Len(cache') <= MaxEntries
  BY <1>3, <1>4, <1>5
<1>11. InOrder(cache)'
  <2> SUFFICES ASSUME NEW i \in 1 .. Len(cache'), NEW j \in 1 .. Len(cache'), i < j
               PROVE  lastUse'[cache'[i].host] < lastUse'[cache'[j].host]
    BY DEF InOrder
  <2>0. i \in 1 .. Len(u) /\ (j = Len(u) + 1 \/ j \in 1 .. Len(u))
    <3>1. i \in 1 .. Len(u) + 1 /\ j \in 1 .. Len(u) + 1
      BY <1>5, Zenon
    <3>2. j = Len(u) + 1 \/ j \in 1 .. Len(u)
      BY <1>3, <3>1, LastOrBefore, Zenon
    <3>3. i = Len(u) + 1 \/ i \in 1 .. Len(u)
      BY <1>3, <3>1, LastOrBefore, Zenon
    <3> QED BY <1>3, <3>2, <3>3
  <2>1. cache'[i] = w[i + d] /\ i + d \in 1 .. Len(w) /\ cache'[i].host # h
    BY <1>4, <1>5, <1>6, <1>7, <2>0
  <2>2. lastUse'[cache'[i].host] = lastUse[w[i + d].host] /\ w[i + d].host \in Hosts
    BY <1>7, <1>8, <2>1
  <2>3. CASE j = Len(u) + 1
    <3>1. lastUse'[cache'[j].host] = requests + 1
      BY <1>2, <1>5, <1>8, <2>3
    <3>2. lastUse[w[i + d].host] <= requests /\ lastUse[w[i + d].host] \in Nat
      BY <1>3, <2>2 DEF CacheInv, Numbered
    <3>3. lastUse[w[i + d].host] < requests + 1
      <4>1. \A m, n \in Nat : m <= n => m < n + 1
        OBVIOUS
      <4> QED BY <1>3, <3>2, <4>1, Zenon
    <3> QED BY <2>2, <3>1, <3>3, Zenon
  <2>4. CASE j \in 1 .. Len(u)
    <3>1. cache'[j] = w[j + d] /\ j + d \in 1 .. Len(w) /\ cache'[j].host # h /\ w[j + d].host \in Hosts
      BY <1>4, <1>5, <1>6, <1>7, <2>4
    <3>2. lastUse'[cache'[j].host] = lastUse[w[j + d].host]
      BY <1>8, <3>1
    <3>3. i + d < j + d
      BY <1>4
    <3> QED BY <1>1, <2>1, <2>2, <3>1, <3>2, <3>3 DEF InOrder
  <2> QED BY <2>0, <2>3, <2>4
<1>12. Numbered'
  <2>1. \A g \in Hosts : lastUse'[g] <= requests'
    BY <1>3, <1>8 DEF CacheInv, Numbered
  <2>2. ASSUME NEW f \in Hosts, NEW g \in Hosts, lastUse'[f] = lastUse'[g], lastUse'[f] > 0
        PROVE  f = g
    <3>1. lastUse[f] <= requests /\ lastUse[g] <= requests /\ lastUse[f] \in Nat /\ lastUse[g] \in Nat
      BY <1>3 DEF CacheInv, Numbered
    <3>2. CASE f = h
      BY <1>3, <1>8, <2>2, <3>1, <3>2
    <3>3. CASE g = h
      BY <1>3, <1>8, <2>2, <3>1, <3>3
    <3>4. CASE f # h /\ g # h
      BY <1>8, <2>2, <3>4 DEF CacheInv, Numbered
    <3> QED BY <3>2, <3>3, <3>4
  <2>3. ASSUME NEW i \in 1 .. Len(cache') PROVE lastUse'[cache'[i].host] > 0
    <3>1. CASE i = Len(u) + 1
      BY <1>2, <1>3, <1>5, <1>8, <3>1
    <3>2. CASE i \in 1 .. Len(u)
      <4>1. cache'[i] = w[i + d] /\ i + d \in 1 .. Len(w) /\ cache'[i].host # h /\ w[i + d].host \in Hosts
        BY <1>4, <1>5, <1>6, <1>7, <3>2
      <4>2. PICK k \in 1 .. Len(cache) : w[i + d] = cache[k]
        BY <1>1, <4>1
      <4> QED BY <1>8, <4>1, <4>2 DEF CacheInv, Numbered
    <3> QED BY <1>3, <1>5, <3>1, <3>2
  <2> QED BY <2>1, <2>2, <2>3 DEF Numbered
<1>13. EvictedEarlier'
  <2> SUFFICES ASSUME NEW g \in Hosts, lastUse'[g] > 0, Position(g)' = {}
               PROVE  /\ Len(cache') = MaxEntries
                      /\ \A i \in 1 .. Len(cache') : lastUse'[g] < lastUse'[cache'[i].host]
    BY DEF EvictedEarlier
  <2>1. \A i \in 1 .. Len(cache') : cache'[i].host # g
    BY <1>5 DEF Position
  <2>2. g # h
    <3>1. Len(u) + 1 \in 1 .. Len(cache')
      BY <1>3, <1>5
    <3> QED BY <1>2, <1>5, <2>1, <3>1
  <2>3. lastUse'[g] = lastUse[g] /\ lastUse[g] \in Nat /\ lastUse[g] <= requests
    BY <1>3, <1>8, <2>2 DEF CacheInv, Numbered
  \* Either g was the entry dropped now, or it had gone before.
  <2>4. /\ Len(w) - d + 1 = MaxEntries
        /\ \A i \in 1 .. Len(u) : lastUse[g] < lastUse[w[i + d].host]
    <3>1. CASE Position(g) = {}
      <4>1. Len(cache) = MaxEntries /\ \A k \in 1 .. Len(cache) : lastUse[g] < lastUse[cache[k].host]
        BY <2>3, <3>1 DEF CacheInv, EvictedEarlier
      <4>2. \A i \in 1 .. Len(u) : lastUse[g] < lastUse[w[i + d].host]
        BY <1>1, <1>6, <4>1
      <4>3. Len(w) - d + 1 = MaxEntries
        <5>1. CASE d = 1
          BY <1>3, <1>4, <5>1
        <5>2. CASE d = 0
          BY <1>1, <1>3, <1>4, <4>1, <5>2
        <5> QED BY <5>1, <5>2
      <4> QED BY <4>2, <4>3
    <3>2. CASE Position(g) # {}
      <4>0. DOMAIN cache = 1 .. Len(cache)
        BY <1>3
      <4>1. PICK k \in 1 .. Len(cache) : cache[k].host = g
        BY <3>2, <4>0 DEF Position
      <4>2. PICK m \in 1 .. Len(w) : w[m] = cache[k]
        BY <1>1, <2>2, <4>1
      <4>3. d = 1 /\ m = 1
        <5>1. CASE m - d \in 1 .. Len(u)
          <6>0. (m - d) + d = m
            BY <1>4
          <6>1. cache'[m - d] = w[m]
            BY <1>4, <1>5, <5>1, <6>0, Zenon
          <6>2. m - d \in 1 .. Len(cache')
            BY <1>3, <1>5, <5>1
          <6> QED BY <2>1, <4>1, <4>2, <6>1, <6>2
        <5>2. CASE m - d \notin 1 .. Len(u)
          BY <1>3, <1>4, <5>2
        <5> QED BY <5>1, <5>2
      <4>4. \A i \in 1 .. Len(u) : lastUse[g] < lastUse[w[i + d].host]
        <5> SUFFICES ASSUME NEW i \in 1 .. Len(u) PROVE lastUse[g] < lastUse[w[i + d].host]
          OBVIOUS
        <5>1. i + d \in 1 .. Len(w) /\ m < i + d
          BY <1>6, <4>3
        <5> QED BY <1>1, <4>1, <4>2, <5>1 DEF InOrder
      <4> QED BY <1>3, <1>4, <4>3, <4>4
    <3> QED BY <3>1, <3>2
  <2>5. Len(cache') = MaxEntries
    BY <1>3, <1>4, <1>5, <2>4
  <2>6. ASSUME NEW i \in 1 .. Len(cache') PROVE lastUse'[g] < lastUse'[cache'[i].host]
    <3>1. CASE i = Len(u) + 1
      BY <1>2, <1>3, <1>5, <1>8, <2>3, <3>1
    <3>2. CASE i \in 1 .. Len(u)
      <4>1. cache'[i] = w[i + d] /\ cache'[i].host # h /\ w[i + d].host \in Hosts
        BY <1>4, <1>5, <1>6, <1>7, <3>2
      <4> QED BY <1>8, <2>3, <2>4, <3>2, <4>1
    <3>3. i \in 1 .. Len(u) + 1
      BY <1>5, Zenon
    <3> QED BY <1>3, <3>1, <3>2, <3>3, LastOrBefore, Zenon
  <2> QED BY <2>5, <2>6
<1> QED BY <1>9, <1>10, <1>11, <1>12, <1>13 DEF CacheInv

LEMMA NextCache == CacheInv /\ [Next]_vars => CacheInv'
<1> SUFFICES ASSUME CacheInv, [Next]_vars PROVE CacheInv'
  OBVIOUS
<1>1. ASSUME UNCHANGED certs, now' \in Nat, requests' \in Nat, requests' >= requests
      PROVE  CacheInv'
  <2>1. cache' = cache /\ lastUse' = lastUse
    BY <1>1 DEF certs
  <2>2. CacheType' /\ InOrder(cache)' /\ EvictedEarlier' /\ Len(cache') <= MaxEntries
    BY <1>1, <2>1 DEF CacheInv, CacheType, InOrder, EvictedEarlier, Position
  <2>3. Numbered'
    <3>1. \A h \in Hosts : lastUse[h] <= requests'
      <4>1. requests \in Nat /\ \A h \in Hosts : lastUse[h] \in Nat /\ lastUse[h] <= requests
        BY DEF CacheInv, CacheType, Numbered
      <4> QED BY <1>1, <4>1
    <3> QED BY <2>1, <3>1 DEF CacheInv, Numbered
  <2> QED BY <2>2, <2>3 DEF CacheInv
<1>2. now \in Nat /\ requests \in Nat
  BY DEF CacheInv, CacheType
<1>3. CASE UNCHANGED certs /\ now' = now /\ (requests' = requests \/ Counts)
  BY <1>1, <1>2, <1>3 DEF Counts
<1>4. CASE Tick
  BY <1>1, <1>2, <1>4 DEF Tick
<1>5. CASE Restart
  <2>1. cache' = <<>> /\ lastUse' = [h \in Hosts |-> 0] /\ now' = now /\ requests' = requests
    BY <1>5 DEF Restart
  <2>2. MaxEntries \in Nat
    BY ProxyAssumption
  <2> QED BY <1>2, <2>1, <2>2 DEF CacheInv, CacheType, InOrder, Numbered, EvictedEarlier
<1>6. ASSUME NEW c \in Conns, ConnStep(c)
      PROVE  CacheInv'
  <2>1. ASSUME NEW h \in Hosts, ConnectMitm(c, h) PROVE CacheInv'
    BY <2>1, UseKeeps DEF ConnectMitm, Counts
  <2> QED BY <1>3, <1>6, <2>1 DEF ConnStep, ConnectTunnel, PlainRequest, MitmRequest, MitmRejected,
             TunnelEnds, ClientLeaves, ResponseEnds
<1> QED BY <1>3, <1>4, <1>5, <1>6 DEF Next, ConnectRefused, PlainRefused, PlainRejected, SaveBegins,
           SaveEnds, Sighup, vars

\* The cache evicts what was least recently used, for every size of the cache, every set of
\* hosts and every time to live: who is missing has MaxEntries later hosts before it.
THEOREM RecentStaysHolds == Spec => []RecentStays
<1>1. Init => CacheInv
  BY ProxyAssumption DEF Init, CacheInv, CacheType, InOrder, Numbered, EvictedEarlier
<1>2. CacheInv => RecentStays
  <2> SUFFICES ASSUME CacheInv, NEW h \in Hosts, lastUse[h] > 0, Position(h) = {}
               PROVE  ~(Cardinality({g \in Hosts : lastUse[g] > lastUse[h]}) < MaxEntries)
    BY DEF RecentStays
  <2>1. /\ cache \in Seq(Entries) /\ Len(cache) = MaxEntries /\ lastUse \in [Hosts -> Nat]
        /\ requests \in Nat /\ MaxEntries \in Nat
        /\ \A i \in 1 .. Len(cache) : lastUse[h] < lastUse[cache[i].host]
    BY ProxyAssumption DEF CacheInv, CacheType, EvictedEarlier
  <2>2. PICK S : S = {g \in Hosts : lastUse[g] > lastUse[h]}
    OBVIOUS
  <2>3. IsFiniteSet(S)
    <3>1. PICK f : f = [g \in S |-> lastUse[g]]
      OBVIOUS
    <3>2. f \in [S -> 1 .. requests]
      BY <2>1, <2>2, <3>1 DEF CacheInv, Numbered
    <3>3. \A a, b \in S : f[a] = f[b] => a = b
      BY <2>1, <2>2, <3>1 DEF CacheInv, Numbered
    <3>4. f \in Injection(S, 1 .. requests)
      BY <3>2, <3>3 DEF Injection, IsInjective
    <3>5. IsFiniteSet(1 .. requests)
      BY <2>1, FS_Interval
    <3> QED BY <3>4, <3>5, FS_Injection
  <2>4. PICK f : f = [i \in 1 .. MaxEntries |-> cache[i].host]
    OBVIOUS
  <2>5. \A i \in 1 .. MaxEntries : cache[i] \in Entries
    BY <2>1
  <2>6. f \in [1 .. MaxEntries -> S]
    BY <2>1, <2>2, <2>4, <2>5 DEF Entries
  <2>7. \A i, j \in 1 .. MaxEntries : f[i] = f[j] => i = j
    <3> SUFFICES ASSUME NEW i \in 1 .. MaxEntries, NEW j \in 1 .. MaxEntries, i < j PROVE f[i] # f[j]
      OBVIOUS
    <3>1. lastUse[cache[i].host] < lastUse[cache[j].host]
      BY <2>1 DEF CacheInv, InOrder
    <3>2. lastUse[cache[i].host] \in Nat /\ lastUse[cache[j].host] \in Nat
      BY <2>1, <2>5 DEF Entries
    <3> QED BY <2>4, <3>1, <3>2
  <2>8. f \in Injection(1 .. MaxEntries, S)
    BY <2>6, <2>7 DEF Injection, IsInjective
  <2>9. Cardinality(1 .. MaxEntries) <= Cardinality(S)
    BY <2>3, <2>8, FS_Injection
  <2>10. Cardinality(1 .. MaxEntries) = MaxEntries
    BY <2>1, FS_Interval
  <2>11. Cardinality(S) \in Nat
    BY <2>3, FS_CardinalityType
  <2> QED BY <2>1, <2>2, <2>9, <2>10, <2>11
<1> QED BY <1>1, <1>2, NextCache, PTL DEF Spec

-----------------------------------------------------------------------------
-----------------------------------------------------------------------------
(***************************************************************************)
(* The vault.                                                              *)
(***************************************************************************)

\* The types the calls count on.
VaultTypes ==
    /\ pc \in [Actors -> Steps]
    /\ key \in [Actors -> Int]
    /\ ver \in [Actors -> Nat]
    /\ name \in [Actors -> SecretNames]
    /\ keyFile \in Int
    /\ boots \in Nat /\ ops \in Nat
    /\ up \in BOOLEAN /\ channel \in BOOLEAN

\* Calls have a version, so the key one makes is neither 0 nor Blank.
VersionsNumbered == \A a \in KeyHolders : pc[a] # "idle" => (IF a = Orch THEN boots > 0 ELSE ver[a] > 0)

OneCreator ==
    /\ \A a \in KeyHolders : pc[a] = "fillKey" => keyFile = Blank
    /\ \A a, b \in KeyHolders : pc[a] = "fillKey" /\ pc[b] = "fillKey" => a = b

\* A process past ensureKey() has the key that is on disk.
HostsHold == \A a \in KeyHolders : pc[a] \in {"load", "open", "write"} => KeyOnDisk /\ key[a] = keyFile

ChannelHolds ==
    /\ up => KeyOnDisk
    /\ channel => KeyOnDisk /\ \A w \in Writers : key[w] = keyFile
    /\ \A w \in Writers : pc[w] \in {"idle", "load", "open", "write"} /\ (pc[w] # "idle" => channel)

FileReadable == file.st = "ok" => KeyOnDisk /\ file.key = keyFile

IInv == VaultTypes /\ VersionsNumbered /\ OneCreator /\ HostsHold /\ ChannelHolds /\ FileReadable

LEMMA ActorFacts ==
    /\ KeyHolders \subseteq Actors /\ Writers \subseteq Actors /\ Orch \in KeyHolders
    /\ Actors = KeyHolders \cup Writers /\ KeyHolders \cap Writers = {}
    /\ Token \in SecretNames /\ Db \in SecretNames /\ Creds \in SecretNames
    /\ MaxBoots \in Nat /\ MaxOps \in Nat
  BY VaultAssumption DEF KeyHolders, Actors, SecretNames

LEMMA InitReadable == VaultInit => IInv
  <1> SUFFICES ASSUME VaultInit PROVE IInv  OBVIOUS
  <1> USE ActorFacts
  <1>0. up \in BOOLEAN /\ channel \in BOOLEAN  BY Zenon DEF VaultInit
  <1>1. VaultTypes  BY <1>0 DEF VaultInit, VaultTypes, Steps
  <1>2. VersionsNumbered /\ OneCreator /\ HostsHold
    BY DEF VaultInit, VersionsNumbered, OneCreator, HostsHold
  <1>3. ChannelHolds  BY DEF VaultInit, ChannelHolds
  <1>4. FileReadable  BY DEF VaultInit, FileReadable, Vault
  <1> QED  BY <1>1, <1>2, <1>3, <1>4 DEF IInv

\* A host leaves ensureKey() or the file for another step, the key file unchanged.
LEMMA KeyKept ==
    ASSUME IInv, keyFile' = keyFile, VaultTypes', VersionsNumbered',
           \A a \in KeyHolders : pc'[a] = "fillKey" => pc[a] = "fillKey",
           \A a \in KeyHolders : pc'[a] \in {"load", "open", "write"} =>
               \/ pc[a] \in {"load", "open", "write"} /\ key'[a] \in {key[a], keyFile}
               \/ KeyOnDisk /\ key'[a] = keyFile,
           up' => up \/ KeyOnDisk,
           channel' => KeyOnDisk /\ \A w \in Writers : key'[w] = keyFile,
           \A w \in Writers : pc'[w] \in {"idle", "load", "open", "write"} /\ (pc'[w] # "idle" => channel'),
           file'.st = "ok" => KeyOnDisk /\ file'.key = keyFile
    PROVE  IInv'
  <1>1. KeyOnDisk' <=> KeyOnDisk  BY DEF KeyOnDisk
  <1>2. OneCreator'  BY DEF IInv, OneCreator
  <1>3. HostsHold'  BY <1>1 DEF IInv, HostsHold
  <1>4. ChannelHolds'  BY <1>1 DEF IInv, ChannelHolds
  <1>5. FileReadable'  BY <1>1 DEF FileReadable
  <1> QED  BY <1>2, <1>3, <1>4, <1>5 DEF IInv

\* What a call of an actor does when it loads the vault: it goes on to write, or the
\* orchestrator has its answer.
LEMMA LoadEffect ==
    ASSUME IInv, NEW a \in Actors, pc[a] = "load", LoadAndChange(a)
    PROVE  /\ pc' \in [Actors -> Steps] /\ name' \in [Actors -> SecretNames]
           /\ \A b \in Actors : b # a => pc'[b] = pc[b]
           /\ pc'[a] = "open" \/ (a = Orch /\ pc'[a] \in {"key", "idle"})
           /\ up' = up \/ (a = Orch /\ up' = TRUE)
  <1> USE ActorFacts DEF IInv, VaultTypes, Steps
  <1> DEFINE old == IF file.st = "ok" THEN file.map ELSE EmptyVault
  <1>1. CASE a = Orch /\ old[name[a]] # 0
    <2>1. OrchReturns(old)  BY <1>1 DEF LoadAndChange
    <2> QED  BY <1>1, <2>1 DEF OrchReturns
  <1>2. CASE ~(a = Orch /\ old[name[a]] # 0)
    <2>1. pc' = [pc EXCEPT ![a] = "open"] /\ name' = name /\ up' = up
      BY <1>2 DEF LoadAndChange
    <2> QED  BY <2>1
  <1> QED  BY <1>1, <1>2

LEMMA NextReadable ==
    ASSUME IInv, [VaultNext]_vaultVars
    PROVE  IInv'
  <1> USE ActorFacts DEF Steps
  <1>0. VaultTypes /\ VersionsNumbered /\ OneCreator /\ HostsHold /\ ChannelHolds /\ FileReadable
    BY DEF IInv
  <1>1. CASE Boot
    <2>1. VaultTypes' /\ VersionsNumbered'  BY <1>0, <1>1 DEF Boot, VaultTypes, VersionsNumbered
    <2> QED  BY <1>0, <1>1, <2>1, KeyKept DEF Boot, VaultTypes, ChannelHolds, FileReadable
  <1>2. CASE \E c \in Cli, n \in Secrets : CliWrites(c, n)
    <2>0. PICK c \in Cli, n \in Secrets : CliWrites(c, n)  BY <1>2
    <2>1. c \in KeyHolders /\ c # Orch /\ n \in SecretNames  BY VaultAssumption DEF KeyHolders, SecretNames
    <2>2. VaultTypes' /\ VersionsNumbered'  BY <1>0, <2>0, <2>1 DEF CliWrites, VaultTypes, VersionsNumbered
    <2> QED  BY <1>0, <2>0, <2>1, <2>2, KeyKept DEF CliWrites, VaultTypes, ChannelHolds, FileReadable
  <1>3. CASE \E w \in Writers, n \in Secrets : ChannelWrites(w, n)
    <2>0. PICK w \in Writers, n \in Secrets : ChannelWrites(w, n)  BY <1>3
    <2>1. w \in Actors /\ w \notin KeyHolders /\ n \in SecretNames  BY DEF SecretNames
    <2>2. VaultTypes' /\ VersionsNumbered'  BY <1>0, <2>0, <2>1 DEF ChannelWrites, VaultTypes, VersionsNumbered
    <2> QED
      BY <1>0, <2>0, <2>1, <2>2, KeyKept DEF ChannelWrites, VaultTypes, ChannelHolds, FileReadable
  <1>4. CASE StartChannel
    <2>1. VaultTypes' /\ VersionsNumbered'  BY <1>0, <1>4 DEF StartChannel, VaultTypes, VersionsNumbered
    <2>2. \A a \in KeyHolders : key'[a] = key[a]  BY <1>4 DEF StartChannel
    <2>3. \A w \in Writers : key'[w] = keyFile  BY <1>4 DEF StartChannel
    <2> QED
      BY <1>0, <1>4, <2>1, <2>2, <2>3, KeyKept
      DEF StartChannel, VaultTypes, HostsHold, ChannelHolds, FileReadable
  <1>5. CASE OrchDies
    <2>1. VaultTypes' /\ VersionsNumbered'  BY <1>0, <1>5 DEF OrchDies, VaultTypes, VersionsNumbered, EndCalls
    <2> QED
      BY <1>0, <1>5, <2>1, KeyKept DEF OrchDies, VaultTypes, EndCalls, ChannelHolds, FileReadable
  <1>6. CASE ChannelDies
    <2>1. VaultTypes' /\ VersionsNumbered'  BY <1>0, <1>6 DEF ChannelDies, VaultTypes, VersionsNumbered, EndCalls
    <2> QED
      BY <1>0, <1>6, <2>1, KeyKept DEF ChannelDies, VaultTypes, EndCalls, ChannelHolds, FileReadable
  <1>7. ASSUME NEW a \in Actors, ReadKey(a) PROVE IInv'
    <2>1. VaultTypes' /\ VersionsNumbered'  BY <1>0, <1>7 DEF ReadKey, VaultTypes, VersionsNumbered
    <2> QED  BY <1>0, <1>7, <2>1, KeyKept DEF ReadKey, VaultTypes, ChannelHolds, FileReadable
  <1>8. ASSUME NEW a \in Actors, CreateKey(a) PROVE IInv'
    <2>1. VaultTypes' /\ VersionsNumbered'  BY <1>0, <1>8 DEF CreateKey, VaultTypes, VersionsNumbered, Blank
    <2>2. CASE keyFile # 0
      BY <1>0, <1>8, <2>1, <2>2, KeyKept DEF CreateKey, VaultTypes, ChannelHolds, FileReadable
    <2>3. CASE keyFile = 0
      <3>1. ~KeyOnDisk  BY <2>3 DEF KeyOnDisk
      <3>2. keyFile' = Blank /\ pc' = [pc EXCEPT ![a] = "fillKey"] /\ a \in KeyHolders
        BY <1>8, <2>3 DEF CreateKey
      <3>3. \A b \in KeyHolders : pc[b] # "fillKey"  BY <1>0, <2>3 DEF OneCreator, Blank
      <3>4. OneCreator'  BY <1>0, <3>2, <3>3 DEF OneCreator, VaultTypes
      <3>5. HostsHold'  BY <1>0, <3>1, <3>2 DEF HostsHold, VaultTypes
      <3>6. ChannelHolds'
        BY <1>0, <1>8, <3>1, <3>2 DEF ChannelHolds, VaultTypes, CreateKey
      <3>7. FileReadable'  BY <1>0, <1>8, <3>1 DEF FileReadable, CreateKey
      <3> QED  BY <2>1, <3>4, <3>5, <3>6, <3>7 DEF IInv
    <2> QED  BY <2>2, <2>3
  <1>9. ASSUME NEW a \in Actors, FillKey(a) PROVE IInv'
    <2>1. VaultTypes' /\ VersionsNumbered'  BY <1>0, <1>9 DEF FillKey, VaultTypes, VersionsNumbered
    <2>2. keyFile = Blank /\ ~KeyOnDisk /\ \A b \in KeyHolders : b # a => pc[b] # "fillKey"
      BY <1>0, <1>9 DEF FillKey, OneCreator, KeyOnDisk
    <2>3. keyFile' > 0
      BY <1>0, <1>9 DEF FillKey, VersionsNumbered, VaultTypes
    <2>4. KeyOnDisk'  BY <2>1, <2>3 DEF KeyOnDisk, Blank, VaultTypes
    <2>5. OneCreator'  BY <1>0, <1>9, <2>2 DEF OneCreator, FillKey, VaultTypes
    <2>6. HostsHold'  BY <1>0, <1>9, <2>2, <2>4 DEF HostsHold, FillKey, VaultTypes
    <2>7. ChannelHolds'  BY <1>0, <1>9, <2>2, <2>4 DEF ChannelHolds, FillKey, VaultTypes
    <2>8. FileReadable'  BY <1>0, <1>9, <2>2 DEF FileReadable, FillKey
    <2> QED  BY <2>1, <2>5, <2>6, <2>7, <2>8 DEF IInv
  <1>10. ASSUME NEW a \in Actors, LoadVault(a) PROVE IInv'
    <2>0. /\ pc' \in [Actors -> Steps] /\ name' \in [Actors -> SecretNames]
          /\ \A b \in Actors : b # a => pc'[b] = pc[b]
          /\ pc'[a] = "open" \/ (a = Orch /\ pc'[a] \in {"key", "idle"})
          /\ up' = up \/ (a = Orch /\ up' = TRUE)
          /\ pc[a] = "load"
      BY <1>10, LoadEffect DEF LoadVault
    <2>1. UNCHANGED <<file, keyFile, ver, key, channel, ops, boots>>  BY <1>10 DEF LoadVault
    <2>2. a \in KeyHolders => KeyOnDisk  BY <1>0, <2>0 DEF HostsHold
    <2>3. up' \in BOOLEAN  BY <1>0, <2>0, Zenon DEF VaultTypes
    <2>4. VaultTypes'  BY <1>0, <2>0, <2>1, <2>3 DEF VaultTypes
    <2>5. VersionsNumbered'  BY <1>0, <2>0, <2>1 DEF VersionsNumbered
    <2>6. up' => up \/ KeyOnDisk  BY <2>0, <2>2
    <2>7. \A w \in Writers : pc'[w] \in {"idle", "load", "open", "write"} /\ (pc'[w] # "idle" => channel')
      BY <1>0, <2>0, <2>1 DEF ChannelHolds
    <2>8. \A b \in KeyHolders : pc'[b] \in {"load", "open", "write"} =>
              pc[b] \in {"load", "open", "write"} /\ key'[b] \in {key[b], keyFile}
      BY <1>0, <2>0, <2>1
    <2>9. \A b \in KeyHolders : pc'[b] = "fillKey" => pc[b] = "fillKey"
      BY <2>0
    <2> QED
      BY <1>0, <2>1, <2>4, <2>5, <2>6, <2>7, <2>8, <2>9, KeyKept DEF ChannelHolds, FileReadable
  <1>11. ASSUME NEW a \in Actors, LoadFails(a) PROVE IInv'
    <2>1. CASE a \in Writers /\ name[a] = Creds
      <3>1. channel' = FALSE /\ pc' = EndCalls(Writers)  BY <1>11, <2>1 DEF LoadFails
      <3>2. VaultTypes' /\ VersionsNumbered'  BY <1>0, <1>11, <3>1 DEF LoadFails, VaultTypes, VersionsNumbered, EndCalls
      <3> QED
        BY <1>0, <1>11, <3>1, <3>2, KeyKept DEF LoadFails, VaultTypes, EndCalls, ChannelHolds, FileReadable
    <2>2. CASE ~(a \in Writers /\ name[a] = Creds)
      <3>1. channel' = channel /\ pc' = EndCalls({a})  BY <1>11, <2>2 DEF LoadFails
      <3>2. VaultTypes' /\ VersionsNumbered'  BY <1>0, <1>11, <3>1 DEF LoadFails, VaultTypes, VersionsNumbered, EndCalls
      <3> QED
        BY <1>0, <1>11, <3>1, <3>2, KeyKept DEF LoadFails, VaultTypes, EndCalls, ChannelHolds, FileReadable
    <2> QED  BY <2>1, <2>2
  <1>12. ASSUME NEW a \in Actors, OpenFile(a) PROVE IInv'
    <2>1. VaultTypes' /\ VersionsNumbered'  BY <1>0, <1>12 DEF OpenFile, VaultTypes, VersionsNumbered
    <2>2. file'.st # "ok"  BY <1>12 DEF OpenFile, Vault
    <2> QED
      BY <1>0, <1>12, <2>1, <2>2, KeyKept DEF OpenFile, VaultTypes, HostsHold, ChannelHolds
  <1>13. ASSUME NEW a \in Actors, WriteFile(a) PROVE IInv'
    <2>0. /\ pc[a] = "write" /\ file' = Overwrite(a)
          /\ UNCHANGED <<keyFile, ver, key, channel, ops, boots>>
      BY <1>13 DEF WriteFile
    <2>1. KeyOnDisk /\ key[a] = keyFile
      BY <1>0, <2>0 DEF HostsHold, ChannelHolds
    <2>2. file'.st = "ok" => file'.key = keyFile
      BY <2>0, <2>1 DEF Overwrite, Vault
    <2>3. /\ pc' \in [Actors -> Steps] /\ name' \in [Actors -> SecretNames]
          /\ \A b \in Actors : b # a => pc'[b] = pc[b]
          /\ pc'[a] = "idle" \/ (a = Orch /\ pc'[a] = "key")
          /\ up' = up \/ up' = TRUE
      <3>1. CASE a = Orch
        <4>1. OrchReturns(loaded[a])  BY <1>13, <3>1 DEF WriteFile
        <4> QED  BY <1>0, <3>1, <4>1 DEF OrchReturns, VaultTypes
      <3>2. CASE a # Orch
        BY <1>0, <1>13, <3>2 DEF WriteFile, VaultTypes
      <3> QED  BY <3>1, <3>2
    <2>4. up' \in BOOLEAN  BY <1>0, <2>3, Zenon DEF VaultTypes
    <2>5. VaultTypes'  BY <1>0, <2>0, <2>3, <2>4 DEF VaultTypes
    <2>6. VersionsNumbered'  BY <1>0, <2>0, <2>3 DEF VersionsNumbered
    <2>7. \A w \in Writers : pc'[w] \in {"idle", "load", "open", "write"} /\ (pc'[w] # "idle" => channel')
      BY <1>0, <2>0, <2>3 DEF ChannelHolds
    <2> QED  BY <1>0, <2>0, <2>1, <2>2, <2>3, <2>5, <2>6, <2>7, KeyKept DEF ChannelHolds
  <1>14. CASE UNCHANGED vaultVars
    BY <1>0, <1>14 DEF vaultVars, IInv, VaultTypes, VersionsNumbered, OneCreator, HostsHold, ChannelHolds,
       FileReadable, KeyOnDisk
  <1> QED
    BY <1>1, <1>2, <1>3, <1>4, <1>5, <1>6, <1>7, <1>8, <1>9, <1>10, <1>11, <1>12, <1>13, <1>14
    DEF VaultNext

\* A vault that was written completely is encrypted with the key on disk, for any number of
\* processes that race in ensureKey() and saveCredentials().
THEOREM VaultReadableHolds == VaultSpec => []VaultReadable
  <1>1. IInv /\ [VaultNext]_vaultVars => IInv'  BY NextReadable
  <1>2. IInv => VaultReadable  BY DEF IInv, FileReadable, VaultReadable
  <1> QED  BY InitReadable, <1>1, <1>2, PTL DEF VaultSpec

-----------------------------------------------------------------------------
(* The database password *)

Snapshots ==
    /\ file.map \in [SecretNames -> Nat]
    /\ loaded \in [Actors -> [SecretNames -> Nat]]
    /\ \A a \in Actors : a # Orch => name[a] \in Secrets

\* What the orchestrator's call is about.
OrchCall ==
    /\ pc[Orch] # "idle" => name[Orch] \in {Token, Db} /\ ver[Orch] > 0
    /\ pc[Orch] \in {"open", "write"} => loaded[Orch][name[Orch]] = ver[Orch]

\* A CLI call that holds a copy of the vault is alone with it.
Alone ==
    \A c \in Cli, b \in Actors :
        pc[c] \in {"open", "write"} /\ pc[b] \in {"open", "write"} => b = c

\* Every copy of the vault, on disk or in a call, has password p.
Everywhere(p) ==
    /\ file.st # "none"
    /\ file.st = "ok" => file.map[Db] = p
    /\ \A a \in Actors : pc[a] \in {"open", "write"} => loaded[a][Db] = p

\* Before the first password is returned no copy has one, but the one it is made in.
Nowhere ==
    /\ ~up /\ ~channel
    /\ file.st = "ok" => file.map[Db] = 0
    /\ \A a \in Actors :
          pc[a] \in {"open", "write"} => (a = Orch /\ name[a] = Db) \/ loaded[a][Db] = 0

Password ==
    /\ Alone
    /\ returned = {} => Nowhere
    /\ \A p \in returned : p # 0 /\ Everywhere(p)
    /\ \A p, q \in returned : p = q

PInv == IInv /\ Snapshots /\ OrchCall /\ ("cli" \notin clashed => Password)

LEMMA InitPassword == VaultInit => PInv
  <1> SUFFICES ASSUME VaultInit PROVE PInv  OBVIOUS
  <1> USE ActorFacts
  <1>1. IInv  BY InitReadable
  <1>2. Snapshots  BY VaultAssumption DEF VaultInit, Snapshots, Vault, EmptyVault
  <1>3. OrchCall  BY DEF VaultInit, OrchCall
  <1>4. Alone  BY DEF VaultInit, Alone, Actors, KeyHolders
  <1>5. Nowhere  BY DEF VaultInit, Nowhere, Vault
  <1> QED  BY <1>1, <1>2, <1>3, <1>4, <1>5 DEF VaultInit, PInv, Password

\* Steps that neither load nor write.
LEMMA PasswordKept ==
    ASSUME PInv, IInv', OrchCall', loaded' = loaded, returned' = returned, clashed' = clashed,
           \A a \in Actors : a # Orch => name'[a] \in Secrets,
           \/ file' = file \/ file' = Vault("empty", EmptyVault, 0),
           \A a \in Actors : pc'[a] \in {"open", "write"} =>
               pc[a] \in {"open", "write"} /\ name'[a] = name[a],
           up' => up, channel' => channel \/ up
    PROVE  PInv'
  <1>1. Snapshots'  BY ActorFacts DEF PInv, Snapshots, Vault, EmptyVault
  <1>2. ASSUME Password PROVE Password'
    <2>1. \A p \in returned : Everywhere(p)'
      BY <1>2 DEF Password, Everywhere, Vault
    <2>2. Alone'  BY <1>2 DEF Password, Alone, Actors, KeyHolders
    <2>3. returned = {} => Nowhere'
      BY <1>2 DEF Password, Nowhere, Vault
    <2> QED  BY <1>2, <2>1, <2>2, <2>3 DEF Password
  <1> QED  BY <1>1, <1>2 DEF PInv

LEMMA NextPassword ==
    ASSUME PInv, [VaultNext]_vaultVars
    PROVE  PInv'
  <1> USE ActorFacts DEF Steps
  <1>0. IInv /\ VaultTypes /\ VersionsNumbered /\ ChannelHolds /\ Snapshots /\ OrchCall
    BY DEF PInv, IInv
  <1>a. IInv'  BY <1>0, NextReadable
  <1>c. VaultTypes'  BY <1>a DEF IInv
  <1>d. \A a \in Actors : a # Orch => name[a] \in Secrets  BY <1>0 DEF Snapshots
  <1>e. Cli \subseteq Actors /\ Orch \notin Cli  BY VaultAssumption DEF Actors, KeyHolders
  <1>1. CASE Boot
    <2>1. OrchCall'  BY <1>0, <1>1 DEF Boot, VaultTypes, OrchCall
    <2> QED  BY <1>0, <1>a, <1>d, <1>1, <2>1, PasswordKept DEF Boot, VaultTypes
  <1>2. ASSUME NEW w \in Actors, w # Orch, NEW n \in Secrets, ChannelWrites(w, n) \/ CliWrites(w, n)
        PROVE  PInv'
    <2>0. /\ UNCHANGED <<file, loaded, up, channel, returned, clashed>>
          /\ pc' \in [Actors -> Steps] /\ pc'[w] \in {"key", "load"}
          /\ \A b \in Actors : b # w => pc'[b] = pc[b] /\ name'[b] = name[b] /\ ver'[b] = ver[b]
          /\ name'[w] = n
      BY <1>0, <1>2 DEF ChannelWrites, CliWrites, VaultTypes
    <2>1. OrchCall'  BY <1>0, <1>2, <2>0 DEF OrchCall
    <2> QED  BY <1>0, <1>2, <1>a, <1>d, <2>0, <2>1, PasswordKept
  <1>3. CASE StartChannel
    BY <1>0, <1>a, <1>d, <1>3, PasswordKept DEF StartChannel, OrchCall
  <1>4. CASE OrchDies
    <2>1. OrchCall'  BY <1>0, <1>4 DEF OrchDies, VaultTypes, OrchCall, EndCalls
    <2> QED  BY <1>0, <1>a, <1>d, <1>4, <2>1, PasswordKept DEF OrchDies, VaultTypes, EndCalls
  <1>5. CASE ChannelDies
    <2>1. OrchCall'  BY <1>0, <1>5 DEF ChannelDies, VaultTypes, OrchCall, EndCalls
    <2> QED  BY <1>0, <1>a, <1>d, <1>5, <2>1, PasswordKept DEF ChannelDies, VaultTypes, EndCalls
  <1>6. ASSUME NEW a \in Actors, ReadKey(a) \/ CreateKey(a) \/ FillKey(a) PROVE PInv'
    <2>0. /\ UNCHANGED <<file, loaded, name, ver, up, channel, returned, clashed>>
          /\ pc[a] \in {"key", "createKey", "fillKey"}
          /\ pc'[a] \in {"load", "createKey", "fillKey", "idle"}
          /\ \A b \in Actors : b # a => pc'[b] = pc[b]
      BY <1>0, <1>6 DEF ReadKey, CreateKey, FillKey, VaultTypes
    <2>1. OrchCall'  BY <1>0, <2>0 DEF OrchCall
    <2> QED  BY <1>0, <1>a, <1>d, <2>0, <2>1, PasswordKept
  <1>7. ASSUME NEW a \in Actors, LoadFails(a) PROVE PInv'
    <2>0. /\ UNCHANGED <<file, name, ver, loaded, up, returned, clashed>>
          /\ channel' => channel
          /\ \A b \in Actors : pc'[b] \in {pc[b], "idle"}
      BY <1>0, <1>7 DEF LoadFails, EndCalls, VaultTypes
    <2>1. OrchCall'  BY <1>0, <2>0 DEF OrchCall
    <2> QED  BY <1>0, <1>a, <1>d, <2>0, <2>1, PasswordKept
  <1>8. ASSUME NEW a \in Actors, OpenFile(a) PROVE PInv'
    <2>1. OrchCall'  BY <1>0, <1>8 DEF OpenFile, VaultTypes, OrchCall
    <2> QED  BY <1>0, <1>a, <1>d, <1>8, <2>1, PasswordKept DEF OpenFile, VaultTypes
  <1>9. ASSUME NEW a \in Actors, LoadVault(a) PROVE PInv'
    <2> DEFINE old == IF file.st = "ok" THEN file.map ELSE EmptyVault
    <2>0. /\ UNCHANGED <<file, ver, channel>> /\ pc[a] = "load" /\ Loads(a) /\ LoadAndChange(a)
      BY <1>9 DEF LoadVault
    <2>1. old \in [SecretNames -> Nat]  BY <1>0 DEF Snapshots, EmptyVault
    <2>2. Password => \A p \in returned : old[Db] = p
      BY <2>0 DEF Password, Everywhere, Loads
    <2>3. CASE a = Orch /\ old[name[a]] # 0 /\ name[a] = Token
      <3>1. /\ pc' = [pc EXCEPT ![Orch] = "key"] /\ name' = [name EXCEPT ![Orch] = Db]
            /\ UNCHANGED <<up, returned, loaded, clashed>>
        BY <2>0, <2>3 DEF LoadAndChange, OrchReturns
      <3>2. OrchCall'  BY <1>0, <2>0, <2>3, <3>1 DEF OrchCall, VaultTypes
      <3> QED  BY <1>0, <1>a, <1>d, <2>0, <3>1, <3>2, PasswordKept DEF VaultTypes
    <2>4. CASE a = Orch /\ old[name[a]] # 0 /\ name[a] # Token
      <3>0. name[Orch] = Db  BY <1>0, <2>0, <2>4 DEF OrchCall
      <3>1. /\ pc' = [pc EXCEPT ![Orch] = "idle"] /\ name' = name /\ loaded' = loaded
            /\ clashed' = clashed /\ returned' = returned \cup {old[Db]}
        BY <2>0, <2>4 DEF LoadAndChange, OrchReturns
      <3>2. OrchCall'  BY <1>0, <2>0, <3>1 DEF OrchCall, VaultTypes
      <3>3. old[Db] # 0 /\ file.st = "ok" /\ file.map[Db] = old[Db]
        BY <2>4, <3>0 DEF EmptyVault
      <3>4. PICK q : q = old[Db]  OBVIOUS
      <3>5. Snapshots'  BY <1>0, <2>0, <3>1 DEF Snapshots
      <3>6. ASSUME Password PROVE Password'
        <4>1. returned # {}  BY <3>3, <3>6 DEF Password, Nowhere
        <4>2. returned' = {q} /\ Everywhere(q)  BY <2>2, <3>1, <3>4, <3>6, <4>1 DEF Password
        <4>3. Everywhere(q)'  BY <1>0, <2>0, <3>1, <4>2 DEF Everywhere, VaultTypes
        <4>4. Alone'  BY <1>0, <1>e, <3>1, <3>6 DEF Password, Alone, VaultTypes
        <4> QED  BY <3>3, <3>4, <4>2, <4>3, <4>4 DEF Password
      <3> QED  BY <1>a, <3>1, <3>2, <3>5, <3>6 DEF PInv
    <2>5. CASE ~(a = Orch /\ old[name[a]] # 0)
      <3>1. /\ pc' = [pc EXCEPT ![a] = "open"]
            /\ loaded' = [loaded EXCEPT ![a] = [old EXCEPT ![name[a]] = ver[a]]]
            /\ clashed' = clashed \cup {Kind(a, b) : b \in Changing}
            /\ UNCHANGED <<name, up, returned>>
        BY <2>0, <2>5 DEF LoadAndChange
      <3>2. ver[a] \in Nat /\ name[a] \in SecretNames  BY <1>0 DEF VaultTypes
      <3>3. PICK nw : nw = [old EXCEPT ![name[a]] = ver[a]]  OBVIOUS
      <3>4. nw \in [SecretNames -> Nat] /\ nw[name[a]] = ver[a]  BY <2>1, <3>2, <3>3
      <3>5. Snapshots'  BY <1>0, <2>0, <3>1, <3>3, <3>4 DEF Snapshots
      <3>6. OrchCall'
        BY <1>0, <2>0, <3>1, <3>3, <3>4 DEF OrchCall, VaultTypes, Snapshots
      <3>7. /\ pc'[a] = "open" /\ loaded'[a] = nw
            /\ \A b \in Actors : b # a => pc'[b] = pc[b] /\ loaded'[b] = loaded[b]
        BY <1>0, <3>1, <3>3 DEF VaultTypes, Snapshots
      <3>8. ASSUME Password, "cli" \notin clashed' PROVE Password'
        <4>1. \A b \in Actors : pc[b] \in {"open", "write"} => a \notin Cli /\ b \notin Cli
          BY <3>1, <3>8 DEF Changing, Kind
        <4>2. Alone'
          BY <1>e, <3>7, <3>8, <4>1 DEF Password, Alone
        <4>3. ASSUME NEW p \in returned PROVE Everywhere(p)'
          <5>0. p # 0 /\ old[Db] = p /\ Everywhere(p)  BY <2>2, <3>8 DEF Password
          <5>1. name[a] # Db
            <6>1. CASE a = Orch  BY <2>5, <5>0, <6>1
            <6>2. CASE a # Orch  BY <1>d, <6>2, VaultAssumption
            <6> QED  BY <6>1, <6>2
          <5>2. nw[Db] = p  BY <2>1, <3>2, <3>3, <5>0, <5>1
          <5> QED  BY <2>0, <3>7, <5>0, <5>2 DEF Everywhere
        <4>4. ASSUME returned = {} PROVE Nowhere'
          <5>0. Nowhere  BY <3>8, <4>4 DEF Password
          <5>1. (a = Orch /\ name[a] = Db) \/ nw[Db] = 0
            <6>1. old[Db] = 0  BY <5>0 DEF Nowhere, EmptyVault
            <6>2. CASE name[a] = Db
              BY <1>d, <6>2, VaultAssumption
            <6>3. CASE name[a] # Db
              BY <2>1, <3>2, <3>3, <6>1, <6>3
            <6> QED  BY <6>2, <6>3
          <5> QED  BY <2>0, <3>1, <3>7, <5>0, <5>1 DEF Nowhere
        <4> QED  BY <3>1, <3>8, <4>2, <4>3, <4>4 DEF Password
      <3>9. "cli" \notin clashed' => "cli" \notin clashed  BY <3>1
      <3> QED  BY <1>a, <3>5, <3>6, <3>8, <3>9 DEF PInv
    <2> QED  BY <2>3, <2>4, <2>5
  <1>10. ASSUME NEW a \in Actors, WriteFile(a) PROVE PInv'
    <2>0. /\ pc[a] = "write" /\ file' = Overwrite(a)
          /\ UNCHANGED <<ver, loaded, channel, clashed>>
      BY <1>10 DEF WriteFile
    <2>1. file'.st # "none" /\ (file'.st = "ok" => file'.map = loaded[a])
      BY <2>0 DEF Overwrite, Vault
    <2>2. file'.map \in [SecretNames -> Nat]
      BY <1>0, <2>0 DEF Overwrite, Vault, EmptyVault, Snapshots
    <2>3. ASSUME NEW p, loaded[a][Db] = p,
                 \A b \in Actors : b # a /\ pc[b] \in {"open", "write"} => loaded[b][Db] = p,
                 \A b \in Actors : b # a => pc'[b] = pc[b], pc'[a] \in {"idle", "key"}
          PROVE  Everywhere(p)'
      BY <2>0, <2>1, <2>3 DEF Everywhere
    <2>4. Password => \A p \in returned : Everywhere(p) /\ loaded[a][Db] = p
      BY <2>0 DEF Password, Everywhere
    <2>5. CASE a = Orch /\ name[a] # Token
      <3>0. name[Orch] = Db /\ loaded[Orch][Db] = ver[Orch] /\ ver[Orch] > 0
        BY <1>0, <2>0, <2>5 DEF OrchCall
      <3>1. /\ pc' = [pc EXCEPT ![Orch] = "idle"] /\ name' = name
            /\ returned' = returned \cup {loaded[Orch][Db]}
        BY <1>10, <2>5 DEF WriteFile, OrchReturns
      <3>2. OrchCall'  BY <1>0, <2>0, <3>1 DEF OrchCall, VaultTypes
      <3>3. PICK q : q = loaded[Orch][Db]  OBVIOUS
      <3>4. q # 0  BY <1>0, <3>0, <3>3 DEF VaultTypes
      <3>5. (\A b \in Actors : b # a => pc'[b] = pc[b]) /\ pc'[a] \in {"idle", "key"}
        BY <1>0, <2>5, <3>1 DEF VaultTypes
      <3>6. Snapshots'  BY <1>0, <2>0, <2>2, <3>1 DEF Snapshots
      <3>7. ASSUME Password PROVE Password'
        <4>1. \A b \in Actors : b # a /\ pc[b] \in {"open", "write"} => loaded[b][Db] = q
          <5>1. CASE returned = {}
            <6>1. \A w \in Writers : pc[w] = "idle"
              BY <1>0, <3>7, <5>1 DEF Password, Nowhere, ChannelHolds
            <6>2. \A c \in Cli : pc[c] \notin {"open", "write"}
              BY <1>e, <2>0, <2>5, <3>7 DEF Password, Alone
            <6> QED  BY <2>5, <6>1, <6>2 DEF Actors, KeyHolders
          <5>2. CASE returned # {}
            BY <2>4, <2>5, <3>3, <3>7, <5>2 DEF Everywhere
          <5> QED  BY <5>1, <5>2
        <4>2. returned' = {q}  BY <2>4, <2>5, <3>1, <3>3, <3>7
        <4>3. Everywhere(q)'  BY <2>3, <2>5, <3>3, <3>5, <4>1
        <4>4. Alone'  BY <1>e, <3>5, <3>7 DEF Password, Alone
        <4> QED  BY <3>4, <4>2, <4>3, <4>4 DEF Password
      <3> QED  BY <1>a, <2>0, <3>2, <3>6, <3>7 DEF PInv
    <2>6. CASE ~(a = Orch /\ name[a] # Token)
      <3>1. /\ UNCHANGED <<up, returned>>
            /\ \A b \in Actors : b # a => pc'[b] = pc[b]
            /\ pc'[a] \in {"idle", "key"}
            /\ \A b \in Actors : b # Orch => name'[b] = name[b]
            /\ a = Orch => name'[Orch] = Db
            /\ a # Orch => name' = name
        <4>1. CASE a = Orch
          <5>1. /\ pc' = [pc EXCEPT ![Orch] = "key"] /\ name' = [name EXCEPT ![Orch] = Db]
                /\ UNCHANGED <<up, returned>>
            BY <1>10, <2>6, <4>1 DEF WriteFile, OrchReturns
          <5> QED  BY <1>0, <4>1, <5>1 DEF VaultTypes
        <4>2. CASE a # Orch  BY <1>0, <1>10, <4>2 DEF WriteFile, VaultTypes
        <4> QED  BY <4>1, <4>2
      <3>2. OrchCall'  BY <1>0, <2>0, <3>1 DEF OrchCall, VaultTypes
      <3>4. Snapshots'  BY <1>0, <2>0, <2>2, <3>1 DEF Snapshots
      <3>5. ASSUME Password PROVE Password'
        <4>1. \A p \in returned : Everywhere(p)'
          BY <2>3, <2>4, <3>1, <3>5 DEF Everywhere
        <4>2. Alone'  BY <1>e, <3>1, <3>5 DEF Password, Alone
        <4>3. ASSUME returned = {} PROVE Nowhere'
          <5>0. Nowhere  BY <3>5, <4>3 DEF Password
          <5>1. loaded[a][Db] = 0
            BY <2>0, <2>6, <5>0, VaultAssumption DEF Nowhere
          <5>2. \A b \in Actors : pc'[b] \in {"open", "write"} =>
                    b # a /\ pc[b] \in {"open", "write"} /\ (b = Orch => name'[b] = name[b])
            BY <3>1
          <5> QED  BY <2>0, <2>1, <3>1, <5>0, <5>1, <5>2 DEF Nowhere
        <4> QED  BY <3>1, <3>5, <4>1, <4>2, <4>3 DEF Password
      <3> QED  BY <1>a, <2>0, <3>2, <3>4, <3>5 DEF PInv
    <2> QED  BY <2>5, <2>6
  <1>11. CASE UNCHANGED vaultVars
    <2>1. OrchCall'  BY <1>0, <1>11 DEF vaultVars, OrchCall
    <2> QED  BY <1>0, <1>a, <1>d, <1>11, <2>1, PasswordKept DEF vaultVars
  <1>12. \A c \in Cli \cup Writers : c \in Actors /\ c # Orch
    BY VaultAssumption DEF Actors, KeyHolders
  <1> QED
    BY <1>1, <1>2, <1>3, <1>4, <1>5, <1>6, <1>7, <1>8, <1>9, <1>10, <1>11, <1>12 DEF VaultNext

\* dbPassword() returns the same password at every boot, for any number of processes,
\* overlapping calls of the channel container, boots and deaths, as long as no CLI call
\* overlaps another load-change-save.
THEOREM PasswordStableHolds == VaultSpec => []PasswordStable
  <1>1. PInv /\ [VaultNext]_vaultVars => PInv'  BY NextPassword
  <1>2. PInv => PasswordStable  BY DEF PInv, Password, PasswordStable
  <1> QED  BY InitPassword, <1>1, <1>2, PTL DEF VaultSpec

-----------------------------------------------------------------------------
(* Completed writes *)

\* At most one call holds a copy of the vault, and that copy is what was completed with its
\* own change; a vault on disk is what was completed, and a missing one that nothing was.
Whole ==
    /\ \A a, b \in Actors : pc[a] \in {"open", "write"} /\ pc[b] \in {"open", "write"} => a = b
    /\ \A a \in Actors : pc[a] \in {"open", "write"} => loaded[a] = [done EXCEPT ![name[a]] = ver[a]]
    /\ file.st = "ok" => file.map = done
    /\ file.st = "none" => done = EmptyVault

WInv == PInv /\ (clashed = {} => Whole)

LEMMA InitWhole == VaultInit => WInv
  <1> SUFFICES ASSUME VaultInit PROVE WInv  OBVIOUS
  <1>1. PInv  BY InitPassword
  <1>2. Whole  BY DEF VaultInit, Whole, Vault
  <1> QED  BY <1>1, <1>2 DEF WInv

\* Steps that neither load nor write.
LEMMA WholeKept ==
    ASSUME WInv, PInv', loaded' = loaded, done' = done, clashed' = clashed,
           \/ file' = file \/ file' = Vault("empty", EmptyVault, 0),
           \A a \in Actors : pc'[a] \in {"open", "write"} =>
               pc[a] \in {"open", "write"} /\ name'[a] = name[a] /\ ver'[a] = ver[a]
    PROVE  WInv'
  <1>1. ASSUME Whole PROVE Whole'
    <2>1. (file'.st = file.st /\ file'.map = file.map) \/ file'.st = "empty"  BY DEF Vault
    <2> QED  BY <1>1, <2>1 DEF Whole
  <1> QED  BY <1>1 DEF WInv

LEMMA NextWhole ==
    ASSUME WInv, [VaultNext]_vaultVars
    PROVE  WInv'
  <1> USE ActorFacts DEF Steps
  <1>0. PInv /\ VaultTypes /\ Snapshots  BY DEF WInv, PInv, IInv
  <1>a. PInv'  BY <1>0, NextPassword
  <1>1. CASE Boot
    BY <1>0, <1>a, <1>1, WholeKept DEF Boot, VaultTypes
  <1>2. ASSUME NEW w \in Actors, NEW n \in Secrets, ChannelWrites(w, n) \/ CliWrites(w, n)
        PROVE  WInv'
    BY <1>0, <1>a, <1>2, WholeKept DEF ChannelWrites, CliWrites, VaultTypes
  <1>3. CASE StartChannel  BY <1>a, <1>3, WholeKept DEF StartChannel
  <1>4. CASE OrchDies  BY <1>0, <1>a, <1>4, WholeKept DEF OrchDies, VaultTypes, EndCalls
  <1>5. CASE ChannelDies  BY <1>0, <1>a, <1>5, WholeKept DEF ChannelDies, VaultTypes, EndCalls
  <1>6. ASSUME NEW a \in Actors, ReadKey(a) \/ CreateKey(a) \/ FillKey(a) PROVE WInv'
    <2>0. /\ UNCHANGED <<file, loaded, name, ver, done, clashed>>
          /\ pc'[a] \in {"load", "createKey", "fillKey", "idle"}
          /\ \A b \in Actors : b # a => pc'[b] = pc[b]
      BY <1>0, <1>6 DEF ReadKey, CreateKey, FillKey, VaultTypes
    <2> QED  BY <1>a, <2>0, WholeKept
  <1>7. ASSUME NEW a \in Actors, LoadFails(a) PROVE WInv'
    <2>0. /\ UNCHANGED <<file, loaded, name, ver, done, clashed>>
          /\ \A b \in Actors : pc'[b] \in {pc[b], "idle"}
      BY <1>0, <1>7 DEF LoadFails, EndCalls, VaultTypes
    <2> QED  BY <1>a, <2>0, WholeKept
  <1>8. ASSUME NEW a \in Actors, OpenFile(a) PROVE WInv'
    BY <1>0, <1>a, <1>8, WholeKept DEF OpenFile, VaultTypes
  <1>9. ASSUME NEW a \in Actors, LoadVault(a) PROVE WInv'
    <2> DEFINE old == IF file.st = "ok" THEN file.map ELSE EmptyVault
    <2>0. /\ UNCHANGED <<file, ver, done>> /\ pc[a] = "load" /\ Loads(a) /\ LoadAndChange(a)
      BY <1>9 DEF LoadVault
    <2>1. CASE a = Orch /\ old[name[a]] # 0
      <3>1. OrchReturns(old) /\ UNCHANGED <<loaded, clashed>>  BY <2>0, <2>1 DEF LoadAndChange
      <3>2. /\ pc'[Orch] \in {"key", "idle"}
            /\ \A b \in Actors : b # Orch => pc'[b] = pc[b] /\ name'[b] = name[b]
        BY <1>0, <3>1 DEF OrchReturns, VaultTypes
      <3> QED  BY <1>a, <2>0, <2>1, <3>1, <3>2, WholeKept
    <2>2. CASE ~(a = Orch /\ old[name[a]] # 0)
      <3>1. /\ pc' = [pc EXCEPT ![a] = "open"]
            /\ loaded' = [loaded EXCEPT ![a] = [old EXCEPT ![name[a]] = ver[a]]]
            /\ clashed' = clashed \cup {Kind(a, b) : b \in Changing}
            /\ name' = name
        BY <2>0, <2>2 DEF LoadAndChange
      <3>2. ASSUME clashed' = {} PROVE Whole'
        <4>1. clashed = {} /\ Changing = {}  BY <3>1, <3>2
        <4>2. Whole /\ \A b \in Actors : pc[b] \notin {"open", "write"}
          BY <4>1 DEF WInv, Changing
        <4>3. old = done  BY <2>0, <4>2 DEF Whole, Loads
        <4>4. PICK nw : nw = [done EXCEPT ![name[a]] = ver[a]]  OBVIOUS
        <4>5. /\ loaded'[a] = nw /\ pc'[a] = "open"
              /\ \A b \in Actors : b # a => pc'[b] = pc[b]
          BY <1>0, <3>1, <4>3, <4>4 DEF VaultTypes, Snapshots
        <4>6. \A b \in Actors : pc'[b] \in {"open", "write"} => b = a  BY <4>2, <4>5
        <4>7. nw = [done' EXCEPT ![name'[a]] = ver'[a]]  BY <2>0, <3>1, <4>4
        <4>8. (file'.st = "ok" => file'.map = done') /\ (file'.st = "none" => done' = EmptyVault)
          BY <2>0, <4>2 DEF Whole
        <4> QED  BY <4>5, <4>6, <4>7, <4>8 DEF Whole
      <3> QED  BY <1>a, <3>2 DEF WInv
    <2> QED  BY <2>1, <2>2
  <1>10. ASSUME NEW a \in Actors, WriteFile(a) PROVE WInv'
    <2>0. /\ pc[a] = "write" /\ file' = Overwrite(a)
          /\ done' = [done EXCEPT ![name[a]] = ver[a]]
          /\ UNCHANGED <<ver, loaded, clashed>>
      BY <1>10 DEF WriteFile
    <2>1. file'.st # "none" /\ (file'.st = "ok" => file'.map = loaded[a])
      BY <2>0 DEF Overwrite, Vault
    <2>2. /\ pc'[a] \in {"idle", "key"}
          /\ \A b \in Actors : b # a => pc'[b] = pc[b]
      <3>1. CASE a = Orch
        <4>1. OrchReturns(loaded[a])  BY <1>10, <3>1 DEF WriteFile
        <4> QED  BY <1>0, <3>1, <4>1 DEF OrchReturns, VaultTypes
      <3>2. CASE a # Orch  BY <1>0, <1>10, <3>2 DEF WriteFile, VaultTypes
      <3> QED  BY <3>1, <3>2
    <2>3. ASSUME Whole PROVE Whole'
      <3>1. loaded[a] = done'  BY <2>0, <2>3 DEF Whole
      <3>2. \A b \in Actors : pc'[b] \notin {"open", "write"}  BY <2>0, <2>2, <2>3 DEF Whole
      <3> QED  BY <2>1, <3>1, <3>2 DEF Whole
    <2> QED  BY <1>a, <2>0, <2>3 DEF WInv
  <1>11. CASE UNCHANGED vaultVars  BY <1>a, <1>11, WholeKept DEF vaultVars
  <1>12. \A c \in Cli \cup Writers : c \in Actors  BY DEF Actors, KeyHolders
  <1> QED
    BY <1>1, <1>2, <1>3, <1>4, <1>5, <1>6, <1>7, <1>8, <1>9, <1>10, <1>11, <1>12 DEF VaultNext

\* As long as no two load-change-save calls overlap, a complete credentials.enc holds the
\* last completed write of every name, for any number of processes, boots and deaths
\* between the truncation and the write of saveCredentials().
THEOREM NoLostUpdateHolds == VaultSpec => []NoLostUpdate
  <1>1. WInv /\ [VaultNext]_vaultVars => WInv'  BY NextWhole
  <1>2. WInv => NoLostUpdate  BY DEF WInv, Whole, NoLostUpdate
  <1> QED  BY InitWhole, <1>1, <1>2, PTL DEF VaultSpec
=============================================================================
