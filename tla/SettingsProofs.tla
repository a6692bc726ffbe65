---------------------------- MODULE SettingsProofs ----------------------------
(* What becomes of a configuration file, for every file and every list of urls, *)
(* of any length: TLC tries the members of Configs and lists of MaxUrls urls.   *)
EXTENDS RecorderRegistry, SequenceTheorems, WellFoundedInduction, TLAPS

\* Induction, for a set of numbers: a number that is missing has a smallest one
\* that is missing with it.
LEMMA InductionOnNat ==
  ASSUME NEW T, 0 \in T, \A n \in Nat : n \in T => n + 1 \in T
  PROVE  \A n \in Nat : n \in T
<1> DEFINE R   == OpToRel(<, Nat)
           Bad == Nat \ T
<1> SUFFICES ASSUME Bad # {} PROVE FALSE
  OBVIOUS
<1>1. IsWellFoundedOn(R, Nat)
  BY NatLessThanWellFounded
<1>2. \A x, y \in Nat : y < x => <<y, x>> \in R
  BY DEF OpToRel
<1> HIDE DEF R
<1>3. PICK m \in Bad : \A y \in Bad : ~ (<<y, m>> \in R)
  BY <1>1, WFMin
<1>4. m # 0 /\ m \in Nat
  OBVIOUS
<1>5. m - 1 \in Nat /\ m - 1 < m /\ (m - 1) + 1 = m
  BY <1>4
<1>6. m - 1 \in T
  BY <1>2, <1>3, <1>5
<1> QED BY <1>3, <1>5, <1>6

-----------------------------------------------------------------------------
(* normalizeNatsUrls *)

\* The entries of a configuration file, and what they become.
Entries == Urls \cup {Mapped(u) : u \in {v \in Urls : Acceptable(v)}}

Accs == [ok : BOOLEAN, urls : Seq(Entries)]

\* An entry is mapped to what stays when it is mapped again.
LEMMA MappedUrl ==
  ASSUME NEW url \in Entries, Acceptable(url)
  PROVE  /\ Mapped(url) \in Entries /\ Acceptable(Mapped(url))
         /\ Mapped(Mapped(url)) = Mapped(url)
<1>1. \A k \in DOMAIN Transport :
          /\ Transport[k] \in DOMAIN Transport
          /\ Transport[Transport[k]] = Transport[k]
  BY DEF Transport
<1>2. ASSUME NEW u, u = [scheme |-> u.scheme, rest |-> u.rest], Acceptable(u)
      PROVE  /\ Mapped(u) = [scheme |-> Transport[u.scheme], rest |-> u.rest]
             /\ Acceptable(Mapped(u)) /\ Mapped(Mapped(u)) = Mapped(u)
  <2>1. u.scheme \in DOMAIN Transport /\ u.rest # ""
    BY <1>2 DEF Acceptable
  <2>2. Mapped(u) = [scheme |-> Transport[u.scheme], rest |-> u.rest]
    <3> DEFINE t == Transport[u.scheme]
    <3>1. Mapped(u) = [u EXCEPT !.scheme = t]
      BY DEF Mapped
    <3> HIDE DEF t
    <3>2. [u EXCEPT !.scheme = t] = [scheme |-> t, rest |-> u.rest]
      BY <1>2
    <3> QED BY <3>1, <3>2 DEF t
  <2> DEFINE v == Mapped(u)
  <2>3. v.scheme = Transport[u.scheme] /\ v.rest = u.rest
    BY <2>2
  <2> HIDE DEF v
  <2>4. v.scheme \in DOMAIN Transport /\ Transport[v.scheme] = v.scheme
    BY <1>1, <2>1, <2>3
  <2>5. Acceptable(v)
    BY <2>1, <2>3, <2>4 DEF Acceptable
  <2>6. Mapped(v) = [v EXCEPT !.scheme = v.scheme]
    BY <2>4 DEF Mapped
  <2>7. v = [scheme |-> v.scheme, rest |-> v.rest]
    BY <2>2, <2>3 DEF v
  <2>8. [v EXCEPT !.scheme = v.scheme] = v
    BY <2>7
  <2> QED BY <2>2, <2>5, <2>6, <2>8 DEF v
<1>3. \A u \in Urls : u = [scheme |-> u.scheme, rest |-> u.rest]
  BY SettingsAssumption
<1>4. CASE url \in Urls
  BY <1>2, <1>3, <1>4 DEF Entries
<1>5. ASSUME NEW u \in Urls, Acceptable(u), url = Mapped(u)
      PROVE  /\ Mapped(url) \in Entries /\ Acceptable(Mapped(url))
             /\ Mapped(Mapped(url)) = Mapped(url)
  BY <1>2, <1>3, <1>5
<1> QED BY <1>4, <1>5 DEF Entries

\* One round.
LEMMA TakeUrlType ==
  ASSUME NEW acc \in Accs, NEW url \in Entries
  PROVE  TakeUrl(acc, url) \in Accs
<1>1. Refused \in Accs
  BY EmptySeq DEF Refused, Accs
<1>2. CASE Acceptable(url)
  <2>1. [acc EXCEPT !.urls = Append(@, Mapped(url))] \in Accs
    BY <1>2, MappedUrl, AppendProperties DEF Accs
  <2> QED BY <1>1, <2>1 DEF TakeUrl
<1>3. CASE ~Acceptable(url)
  BY <1>1, <1>3 DEF TakeUrl
<1> QED BY <1>2, <1>3

\* The rounds of the loop are defined one after the other.
LEMMA RoundsAre ==
  ASSUME NEW list \in Seq(Entries)
  PROVE  Rounds(list) = [n \in 0..Len(list) |->
            IF n = 0 THEN NoUrls ELSE TakeUrl(Rounds(list)[n - 1], list[n])]
<1> DEFINE Def(g, k) == [n \in 0..k |->
                            IF n = 0 THEN NoUrls ELSE TakeUrl(g[n - 1], list[n])]
           T == {k \in Nat : \E g : g = Def(g, k)}
<1>1. 0 \in T
  <2> DEFINE g == [n \in 0..0 |-> NoUrls]
  <2>1. g = Def(g, 0)
    OBVIOUS
  <2> QED BY <2>1
<1>2. ASSUME NEW k \in Nat, k \in T PROVE k + 1 \in T
  <2>1. PICK g : g = Def(g, k)
    BY <1>2
  <2> DEFINE h == [n \in 0..(k + 1) |->
                      IF n = k + 1 THEN TakeUrl(g[k], list[k + 1]) ELSE g[n]]
  <2>2. \A n \in 0..k : h[n] = g[n]
    OBVIOUS
  <2>3. \A n \in 0..k : g[n] = IF n = 0 THEN NoUrls ELSE TakeUrl(g[n - 1], list[n])
    BY <2>1
  <2> HIDE DEF Def
  <2>4. \A n \in 0..(k + 1) :
            h[n] = IF n = 0 THEN NoUrls ELSE TakeUrl(h[n - 1], list[n])
    <3> TAKE n \in 0..(k + 1)
    <3>1. CASE n = k + 1
      BY <2>2, <3>1
    <3>2. CASE n # k + 1
      <4>1. n \in 0..k /\ (n # 0 => n - 1 \in 0..k)
        BY <3>2
      <4> QED BY <2>2, <2>3, <4>1
    <3> QED BY <3>1, <3>2
  <2>5. h = Def(h, k + 1)
    BY <2>4 DEF Def
  <2> HIDE DEF h
  <2> QED BY <2>5
<1> HIDE DEF T
<1>3. \A k \in Nat : k \in T
  BY <1>1, <1>2, InductionOnNat
<1>4. \E g : g = Def(g, Len(list))
  BY <1>3, LenProperties DEF T
<1> QED BY <1>4 DEF Rounds

\* All rounds, from the first.
LEMMA RoundsType ==
  ASSUME NEW list \in Seq(Entries)
  PROVE  /\ Rounds(list)[0] = NoUrls
         /\ \A n \in 1..Len(list) :
               Rounds(list)[n] = TakeUrl(Rounds(list)[n - 1], list[n])
         /\ \A n \in 0..Len(list) : Rounds(list)[n] \in Accs
<1>1. Len(list) \in Nat /\ \A n \in 1..Len(list) : list[n] \in Entries
  BY LenProperties, ElementOfSeq
<1>2. /\ Rounds(list)[0] = NoUrls
      /\ \A n \in 1..Len(list) :
            Rounds(list)[n] = TakeUrl(Rounds(list)[n - 1], list[n])
  <2> DEFINE r == Rounds(list)
  <2>1. r = [n \in 0..Len(list) |->
                IF n = 0 THEN NoUrls ELSE TakeUrl(r[n - 1], list[n])]
    BY RoundsAre
  <2> HIDE DEF r
  <2>2. r[0] = NoUrls
    BY <1>1, <2>1
  <2>3. \A n \in 1..Len(list) : r[n] = TakeUrl(r[n - 1], list[n])
    BY <1>1, <2>1
  <2> QED BY <2>2, <2>3 DEF r
<1> DEFINE T == {n \in Nat : n <= Len(list) => Rounds(list)[n] \in Accs}
<1>3. 0 \in T
  <2>1. NoUrls \in Accs
    BY EmptySeq DEF NoUrls, Accs
  <2> QED BY <1>2, <2>1
<1>4. ASSUME NEW n \in Nat, n \in T PROVE n + 1 \in T
  <2> SUFFICES ASSUME n + 1 <= Len(list) PROVE Rounds(list)[n + 1] \in Accs
    OBVIOUS
  <2>1. n + 1 \in 1..Len(list) /\ n <= Len(list) /\ (n + 1) - 1 = n
    BY <1>1
  <2>2. Rounds(list)[n + 1] = TakeUrl(Rounds(list)[n], list[n + 1])
    BY <1>2, <2>1
  <2> QED BY <1>1, <1>4, <2>1, <2>2, TakeUrlType
<1> HIDE DEF T
<1>5. \A n \in Nat : n \in T
  BY <1>3, <1>4, InductionOnNat
<1> QED BY <1>1, <1>2, <1>5 DEF T

-----------------------------------------------------------------------------

\* What a list asks of its first n entries, and what the rounds have made of them.
Used(list, n)      == {m \in 1..n : list[m] # Blank}
MentionsOf(list, n, u) == {m \in Used(list, n) : Mapped(list[m]) = u}

GoodSoFar(list, n) ==
    /\ \A m \in Used(list, n) : Acceptable(list[m])
    /\ \A m, k \in Used(list, n) : Mapped(list[m]).scheme = Mapped(list[k]).scheme

KeptSoFar(list, n, urls) ==
    /\ \A u : u \in Range(urls) <=> \E m \in Used(list, n) : u = Mapped(list[m])
    /\ \A a, b \in 1..Len(urls) : a < b =>
          \E m \in MentionsOf(list, n, urls[a]) :
              \A k \in MentionsOf(list, n, urls[b]) : m < k

RoundInv(list, n, acc) ==
    /\ acc.ok <=> GoodSoFar(list, n)
    /\ ~acc.ok => acc = Refused
    /\ acc.ok => KeptSoFar(list, n, acc.urls)

\* One round keeps what the rounds before have made.
LEMMA TakeUrlKeeps ==
  ASSUME NEW list \in Seq(Entries), NEW n \in Nat, n + 1 <= Len(list),
         NEW acc \in Accs, RoundInv(list, n, acc)
  PROVE  RoundInv(list, n + 1, TakeUrl(acc, list[n + 1]))
<1> DEFINE url == list[n + 1]
<1>1. url \in Entries /\ Len(list) \in Nat
  BY LenProperties, ElementOfSeq
<1>2. ~Acceptable(Blank)
  BY DEF Acceptable, Blank, Transport
<1>3. Used(list, n + 1) = IF url = Blank THEN Used(list, n)
                                         ELSE Used(list, n) \cup {n + 1}
  BY DEF Used
<1>4. Used(list, n) \subseteq 1..n /\ n + 1 \notin Used(list, n)
  BY DEF Used
<1> HIDE DEF url
<1>5. CASE ~acc.ok
  <2>1. ~GoodSoFar(list, n + 1)
    BY <1>3, <1>5 DEF GoodSoFar, RoundInv
  <2>2. TakeUrl(acc, url) = acc
    BY <1>5 DEF TakeUrl
  <2> QED BY <1>5, <2>1, <2>2 DEF RoundInv, url
<1>6. CASE acc.ok /\ url = Blank
  <2>1. TakeUrl(acc, url) = acc /\ Used(list, n + 1) = Used(list, n)
    BY <1>3, <1>6 DEF TakeUrl
  <2> QED BY <1>6, <2>1 DEF RoundInv, GoodSoFar, KeptSoFar, MentionsOf, url
<1>7. CASE acc.ok /\ url # Blank /\ ~Acceptable(url)
  <2>1. TakeUrl(acc, url) = Refused
    BY <1>7 DEF TakeUrl, Known
  <2>2. ~GoodSoFar(list, n + 1)
    BY <1>3, <1>7 DEF GoodSoFar, url
  <2> QED BY <2>1, <2>2 DEF RoundInv, Refused, url
<1>8. CASE acc.ok /\ url # Blank /\ Acceptable(url)
  <2> DEFINE u == Mapped(url)
  <2>1. u \in Entries
    BY <1>1, <1>8, MappedUrl
  <2>2. Used(list, n + 1) = Used(list, n) \cup {n + 1}
    BY <1>3, <1>8
  <2>3. GoodSoFar(list, n) /\ KeptSoFar(list, n, acc.urls)
    BY <1>8 DEF RoundInv
  <2>4. acc.urls \in Seq(Entries)
    BY DEF Accs
  <2>5. Len(acc.urls) \in Nat /\ DOMAIN acc.urls = 1..Len(acc.urls)
    BY <2>4, LenProperties
  <2>6. \A v : v \in Range(acc.urls) <=> \E a \in 1..Len(acc.urls) : v = acc.urls[a]
    BY <2>5 DEF Range
  <2>7. u = Mapped(list[n + 1])
    BY DEF url
  <2> HIDE DEF u
  <2>8. GoodSoFar(list, n + 1) <=> \A m \in Used(list, n) : Mapped(list[m]).scheme = u.scheme
    BY <1>8, <2>2, <2>3, <2>7 DEF GoodSoFar, url
  <2>9. CASE u \in Range(acc.urls)
    <3>1. TakeUrl(acc, url) = acc
      BY <1>8, <2>9 DEF TakeUrl, Known, u
    <3>2. PICK m \in Used(list, n) : u = Mapped(list[m])
      BY <2>3, <2>9 DEF KeptSoFar
    <3>3. GoodSoFar(list, n + 1)
      BY <2>3, <2>8, <3>2 DEF GoodSoFar
    <3>4. \A v : v \in Range(acc.urls) <=> \E k \in Used(list, n + 1) : v = Mapped(list[k])
      BY <2>2, <2>3, <2>7, <2>9 DEF KeptSoFar
    <3>5. ASSUME NEW a \in 1..Len(acc.urls), NEW b \in 1..Len(acc.urls), a < b
          PROVE  \E k \in MentionsOf(list, n + 1, acc.urls[a]) :
                    \A l \in MentionsOf(list, n + 1, acc.urls[b]) : k < l
      <4>1. PICK k \in MentionsOf(list, n, acc.urls[a]) :
                    \A l \in MentionsOf(list, n, acc.urls[b]) : k < l
        BY <2>3, <3>5 DEF KeptSoFar
      <4>2. k \in MentionsOf(list, n + 1, acc.urls[a]) /\ k < n + 1
        BY <1>4, <2>2 DEF MentionsOf
      <4>3. \A l \in MentionsOf(list, n + 1, acc.urls[b]) :
                l = n + 1 \/ l \in MentionsOf(list, n, acc.urls[b])
        BY <2>2 DEF MentionsOf
      <4> QED BY <4>1, <4>2, <4>3
    <3>6. KeptSoFar(list, n + 1, acc.urls)
      BY <3>4, <3>5 DEF KeptSoFar
    <3> QED BY <1>8, <3>1, <3>3, <3>6 DEF RoundInv, url
  <2>10. CASE u \notin Range(acc.urls) /\ Mixed(acc, u)
    <3>1. TakeUrl(acc, url) = Refused
      BY <1>8, <2>10 DEF TakeUrl, Known, u
    <3>2. 1 \in 1..Len(acc.urls) /\ acc.urls[1].scheme # u.scheme
      BY <2>4, <2>5, <2>10, EmptySeq DEF Mixed
    <3>3. PICK m \in Used(list, n) : acc.urls[1] = Mapped(list[m])
      BY <2>3, <2>6, <3>2 DEF KeptSoFar
    <3>4. ~GoodSoFar(list, n + 1)
      BY <2>8, <3>2, <3>3
    <3> QED BY <3>1, <3>4 DEF RoundInv, Refused, url
  <2>11. CASE u \notin Range(acc.urls) /\ ~Mixed(acc, u)
    <3> DEFINE new == Append(acc.urls, u)
    <3>1. TakeUrl(acc, url) = [acc EXCEPT !.urls = new]
      BY <1>8, <2>11 DEF TakeUrl, Known, u
    <3>2. /\ new \in Seq(Entries) /\ Len(new) = Len(acc.urls) + 1
          /\ \A a \in 1..Len(acc.urls) : new[a] = acc.urls[a]
          /\ new[Len(acc.urls) + 1] = u
      BY <2>1, <2>4, AppendProperties
    <3>3. DOMAIN new = 1..(Len(acc.urls) + 1)
      BY <3>2, LenProperties
    <3>4. \A v : v \in Range(new) <=> v \in Range(acc.urls) \/ v = u
      <4>1. \A v : v \in Range(new) <=> \E a \in 1..Len(new) : v = new[a]
        BY <3>2, <3>3 DEF Range
      <4> HIDE DEF new
      <4>2. \A a \in 1..Len(new) : a \in 1..Len(acc.urls) \/ a = Len(acc.urls) + 1
        BY <2>5, <3>2
      <4>3. 1..Len(acc.urls) \subseteq 1..Len(new) /\ Len(acc.urls) + 1 \in 1..Len(new)
        BY <2>5, <3>2
      <4>4. \A v : v \in Range(acc.urls) => v \in Range(new)
        BY <2>6, <3>2, <4>1, <4>3
      <4>5. u \in Range(new)
        BY <3>2, <4>1, <4>3
      <4>6. \A v : v \in Range(new) => v \in Range(acc.urls) \/ v = u
        BY <2>6, <3>2, <4>1, <4>2
      <4> QED BY <4>4, <4>5, <4>6
    <3> HIDE DEF new
    <3>5. TakeUrl(acc, url).ok /\ TakeUrl(acc, url).urls = new
      BY <1>8, <3>1 DEF Accs
    <3>6. GoodSoFar(list, n + 1)
      <4>1. CASE acc.urls = <<>>
        <5>1. Len(acc.urls) = 0
          BY <4>1, EmptySeq
        <5>2. \A v : v \notin Range(acc.urls)
          BY <2>6, <5>1
        <5>3. Used(list, n) = {}
          BY <2>3, <5>2 DEF KeptSoFar
        <5> QED BY <2>8, <5>3
      <4>2. CASE acc.urls # <<>>
        <5>1. 1 \in 1..Len(acc.urls) /\ acc.urls[1].scheme = u.scheme
          BY <2>4, <2>5, <2>11, <4>2, EmptySeq DEF Mixed
        <5>2. PICK m \in Used(list, n) : acc.urls[1] = Mapped(list[m])
          BY <2>3, <2>6, <5>1 DEF KeptSoFar
        <5> QED BY <2>3, <2>8, <5>1, <5>2 DEF GoodSoFar
      <4> QED BY <4>1, <4>2
    <3>7. \A v : v \in Range(new) <=> \E k \in Used(list, n + 1) : v = Mapped(list[k])
      BY <2>2, <2>3, <2>7, <3>4 DEF KeptSoFar
    <3>8. ASSUME NEW a \in 1..Len(new), NEW b \in 1..Len(new), a < b
          PROVE  \E k \in MentionsOf(list, n + 1, new[a]) :
                    \A l \in MentionsOf(list, n + 1, new[b]) : k < l
      <4>1. a \in 1..Len(acc.urls) /\ new[a] = acc.urls[a]
        BY <2>5, <3>2, <3>8
      <4>2. new[a] # u
        BY <2>6, <2>11, <4>1
      <4>3. CASE b \in 1..Len(acc.urls)
        <5>1. new[b] = acc.urls[b] /\ new[b] # u
          BY <2>6, <2>11, <3>2, <4>3
        <5>2. PICK k \in MentionsOf(list, n, new[a]) :
                    \A l \in MentionsOf(list, n, new[b]) : k < l
          BY <2>3, <3>8, <4>1, <4>3, <5>1 DEF KeptSoFar
        <5>3. /\ k \in MentionsOf(list, n + 1, new[a])
              /\ \A l \in MentionsOf(list, n + 1, new[b]) : l \in MentionsOf(list, n, new[b])
          BY <2>2, <2>7, <5>1, <5>2 DEF MentionsOf
        <5> QED BY <5>2, <5>3
      <4>4. CASE b \notin 1..Len(acc.urls)
        <5>1. new[b] = u
          BY <2>5, <3>2, <4>4
        <5>2. PICK k \in Used(list, n) : new[a] = Mapped(list[k])
          BY <2>3, <2>6, <4>1 DEF KeptSoFar
        <5>3. k \in MentionsOf(list, n + 1, new[a]) /\ k < n + 1
          BY <1>4, <2>2, <5>2 DEF MentionsOf
        <5>4. \A l \in MentionsOf(list, n + 1, u) : l = n + 1
          BY <2>2, <2>3, <2>11 DEF MentionsOf, KeptSoFar
        <5> QED BY <5>1, <5>3, <5>4
      <4> QED BY <4>3, <4>4
    <3>9. KeptSoFar(list, n + 1, new)
      BY <3>7, <3>8 DEF KeptSoFar
    <3> QED BY <3>5, <3>6, <3>9 DEF RoundInv, url
  <2> QED BY <2>9, <2>10, <2>11
<1> QED BY <1>5, <1>6, <1>7, <1>8

\* After all rounds.
LEMMA RoundsKeep ==
  ASSUME NEW list \in Seq(Entries)
  PROVE  \A n \in 0..Len(list) : RoundInv(list, n, Rounds(list)[n])
<1> DEFINE T == {n \in Nat : n <= Len(list) => RoundInv(list, n, Rounds(list)[n])}
<1>0. Len(list) \in Nat
  BY LenProperties
<1>1. 0 \in T
  <2>1. RoundInv(list, 0, NoUrls)
    <3>1. Used(list, 0) = {}
      BY DEF Used
    <3>2. GoodSoFar(list, 0)
      BY <3>1 DEF GoodSoFar
    <3>3. NoUrls.ok /\ NoUrls.urls = <<>>
      BY DEF NoUrls
    <3>4. KeptSoFar(list, 0, <<>>)
      BY <3>1, EmptySeq DEF KeptSoFar, Range
    <3> QED BY <3>2, <3>3, <3>4 DEF RoundInv
  <2> QED BY <2>1, RoundsType
<1>2. ASSUME NEW n \in Nat, n \in T PROVE n + 1 \in T
  <2> SUFFICES ASSUME n + 1 <= Len(list)
               PROVE  RoundInv(list, n + 1, Rounds(list)[n + 1])
    OBVIOUS
  <2>1. n + 1 \in 1..Len(list) /\ n \in 0..Len(list) /\ (n + 1) - 1 = n
    BY <1>0
  <2>2. Rounds(list)[n + 1] = TakeUrl(Rounds(list)[n], list[n + 1])
    BY <2>1, RoundsType
  <2>3. Rounds(list)[n] \in Accs /\ RoundInv(list, n, Rounds(list)[n])
    BY <1>0, <1>2, <2>1, RoundsType
  <2> QED BY <2>2, <2>3, TakeUrlKeeps
<1> HIDE DEF T
<1>3. \A n \in Nat : n \in T
  BY <1>1, <1>2, InductionOnNat
<1> QED BY <1>0, <1>3 DEF T

\* What normalizeNatsUrls returns.
LEMMA NormalizedType ==
  ASSUME NEW list \in Seq(Entries)
  PROVE  /\ NormalizeNatsUrls(list) \in Accs
         /\ NormalizeNatsUrls(list).ok =>
               /\ NormalizeNatsUrls(list) = Rounds(list)[Len(list)]
               /\ NormalizeNatsUrls(list).urls # <<>>
<1>1. Len(list) \in 0..Len(list)
  BY LenProperties
<1>2. Rounds(list)[Len(list)] \in Accs
  BY <1>1, RoundsType
<1>3. Refused \in Accs /\ ~Refused.ok
  BY EmptySeq DEF Refused, Accs
<1> QED BY <1>2, <1>3 DEF NormalizeNatsUrls

\* It accepts what can be connected to, and nothing is lost, doubled or put in
\* another order, whatever the list.
LEMMA Normalized ==
  ASSUME NEW list \in Seq(Entries) PROVE NormalizesUrls(list)
<1> DEFINE last == Rounds(list)[Len(list)]
           n    == Len(list)
           used == {m \in DOMAIN list : list[m] # Blank}
           got  == NormalizeNatsUrls(list)
<1>1. n \in Nat /\ DOMAIN list = 1..n /\ n \in 0..n
  BY LenProperties
<1>2. used = Used(list, n)
  BY <1>1 DEF Used
<1>3. RoundInv(list, n, last) /\ last \in Accs
  BY <1>1, RoundsKeep, RoundsType
<1>4. got = IF last.urls = <<>> THEN Refused ELSE last
  BY DEF NormalizeNatsUrls
<1>5. ~Refused.ok /\ Refused.urls = <<>>
  BY DEF Refused
<1>6. last.urls \in Seq(Entries) /\ Len(last.urls) \in Nat
      /\ DOMAIN last.urls = 1..Len(last.urls)
  BY <1>3, LenProperties DEF Accs
<1> HIDE DEF last, got
<1>7. ASSUME last.ok PROVE last.urls # <<>> <=> used # {}
  <2>1. \A u : u \in Range(last.urls) <=> \E m \in used : u = Mapped(list[m])
    BY <1>2, <1>3, <1>7 DEF RoundInv, KeptSoFar
  <2>2. CASE last.urls = <<>>
    <3>1. \A u : u \notin Range(last.urls)
      BY <2>2, EmptySeq, <1>6 DEF Range
    <3> QED BY <2>1, <2>2, <3>1
  <2>3. CASE last.urls # <<>>
    <3>1. 1 \in DOMAIN last.urls
      BY <1>6, <2>3, EmptySeq
    <3>2. last.urls[1] \in Range(last.urls)
      BY <3>1 DEF Range
    <3> QED BY <2>1, <2>3, <3>2
  <2> QED BY <2>2, <2>3
<1>8. got.ok <=> last.ok /\ used # {}
  BY <1>3, <1>4, <1>5, <1>7 DEF RoundInv
<1>9. got.ok <=> used # {} /\ GoodSoFar(list, n)
  BY <1>3, <1>8 DEF RoundInv
<1>10. ASSUME got.ok
       PROVE  /\ Range(got.urls) = {Mapped(list[m]) : m \in used}
              /\ \A a, b \in DOMAIN got.urls : a < b =>
                    \E m \in MentionsOf(list, n, got.urls[a]) :
                        \A k \in MentionsOf(list, n, got.urls[b]) : m < k
  <2>1. got = last /\ last.ok
    BY <1>4, <1>5, <1>8, <1>10
  <2>2. KeptSoFar(list, n, got.urls)
    BY <1>3, <2>1 DEF RoundInv
  <2>3. Range(got.urls) = {Mapped(list[m]) : m \in used}
    BY <1>2, <2>2 DEF KeptSoFar
  <2> QED BY <1>6, <2>1, <2>2, <2>3 DEF KeptSoFar
<1> QED BY <1>2, <1>9, <1>10 DEF NormalizesUrls, GoodSoFar, MentionsOf, got

\* The first url tells the transport of all.
LEMMA FirstDecides ==
  ASSUME NEW list \in Seq(Entries) PROVE FirstUrlDecides(list)
<1> DEFINE got == NormalizeNatsUrls(list)
<1> SUFFICES ASSUME NEW a \in DOMAIN got.urls
             PROVE  IsWebsocketNats(<<got.urls[a]>>) <=> IsWebsocketNats(got.urls)
  BY DEF FirstUrlDecides
<1>1. CASE ~got.ok
  <2>1. RoundInv(list, Len(list), Rounds(list)[Len(list)])
    BY RoundsKeep, LenProperties
  <2>2. got.urls = <<>>
    BY <1>1, <2>1 DEF NormalizeNatsUrls, RoundInv, Refused
  <2> QED BY <2>2, EmptySeq
<1>2. CASE got.ok
  <2>1. got.urls \in Seq(Entries) /\ got.urls # <<>>
    BY <1>2, NormalizedType DEF Accs
  <2>2. 1 \in DOMAIN got.urls
    BY <2>1, EmptySeq, LenProperties
  <2>3. /\ Range(got.urls) = {Mapped(list[m]) : m \in {k \in DOMAIN list : list[k] # Blank}}
        /\ \A m, k \in {l \in DOMAIN list : list[l] # Blank} :
              Mapped(list[m]).scheme = Mapped(list[k]).scheme
    BY <1>2, Normalized DEF NormalizesUrls
  <2>4. got.urls[a] \in Range(got.urls) /\ got.urls[1] \in Range(got.urls)
    BY <2>2 DEF Range
  <2> HIDE DEF got
  <2>5. got.urls[a].scheme = got.urls[1].scheme
    BY <2>3, <2>4
  <2>6. <<got.urls[a]>>[1] = got.urls[a] /\ <<got.urls[a]>> # <<>>
    OBVIOUS
  <2> QED BY <2>1, <2>5, <2>6 DEF IsWebsocketNats
<1> QED BY <1>1, <1>2

\* A list that was normalized is not changed by a second pass.
LEMMA NormalizedAgain ==
  ASSUME NEW list \in Seq(Entries), NormalizeNatsUrls(list).ok
  PROVE  NormalizeNatsUrls(NormalizeNatsUrls(list).urls) = NormalizeNatsUrls(list)
<1> DEFINE got  == NormalizeNatsUrls(list)
           L    == got.urls
           used == {m \in DOMAIN list : list[m] # Blank}
           P(acc, n) == /\ acc.ok /\ acc.urls \in Seq(Entries) /\ Len(acc.urls) = n
                        /\ \A a \in 1..n : acc.urls[a] = L[a]
<1>1. got \in Accs /\ L \in Seq(Entries) /\ L # <<>>
  BY NormalizedType DEF Accs
<1>2. /\ \A m \in used : Acceptable(list[m])
      /\ \A m, k \in used : Mapped(list[m]).scheme = Mapped(list[k]).scheme
      /\ Range(L) = {Mapped(list[m]) : m \in used}
      /\ \A a, b \in DOMAIN L : a < b =>
            \E m \in {l \in used : Mapped(list[l]) = L[a]} :
                \A k \in {l \in used : Mapped(list[l]) = L[b]} : m < k
  BY Normalized DEF NormalizesUrls
<1>3. Len(L) \in Nat /\ DOMAIN L = 1..Len(L)
  BY <1>1, LenProperties
<1>4. \A m \in DOMAIN list : list[m] \in Entries
  BY LenProperties, ElementOfSeq
<1> HIDE DEF got
<1>5. ASSUME NEW a \in 1..Len(L)
      PROVE  \E m \in used : L[a] = Mapped(list[m])
  <2>1. L[a] \in Range(L)
    BY <1>3 DEF Range
  <2> QED BY <1>2, <2>1
<1>6. ASSUME NEW a \in 1..Len(L)
      PROVE  Acceptable(L[a]) /\ Mapped(L[a]) = L[a] /\ L[a] \in Entries
  <2>1. PICK m \in used : L[a] = Mapped(list[m])
    BY <1>5
  <2> QED BY <1>2, <1>4, <2>1, MappedUrl
<1>7. ASSUME NEW a \in 1..Len(L), NEW b \in 1..Len(L), a < b PROVE L[a] # L[b]
  <2>1. PICK m \in used : /\ Mapped(list[m]) = L[a]
                          /\ \A k \in {l \in used : Mapped(list[l]) = L[b]} : m < k
    BY <1>2, <1>3, <1>7
  <2>2. m \in Nat
    BY LenProperties
  <2> QED BY <2>1, <2>2
<1>8. ASSUME NEW a \in 1..Len(L), NEW b \in 1..Len(L) PROVE L[a].scheme = L[b].scheme
  BY <1>2, <1>5
<1>9. ~Acceptable(Blank)
  BY DEF Acceptable, Blank, Transport
<1> DEFINE T == {n \in Nat : n <= Len(L) => P(Rounds(L)[n], n)}
<1>10. 0 \in T
  <2>1. Rounds(L)[0] = NoUrls
    BY <1>1, RoundsType
  <2>2. P(NoUrls, 0)
    BY EmptySeq DEF NoUrls
  <2> QED BY <2>1, <2>2
<1>11. ASSUME NEW n \in Nat, n \in T PROVE n + 1 \in T
  <2> SUFFICES ASSUME n + 1 <= Len(L) PROVE P(Rounds(L)[n + 1], n + 1)
    OBVIOUS
  <2> DEFINE acc == Rounds(L)[n]
             url == L[n + 1]
             new == Append(acc.urls, url)
  <2>1. n + 1 \in 1..Len(L) /\ (n + 1) - 1 = n /\ n \in 0..Len(L)
    BY <1>3
  <2>2. Rounds(L)[n + 1] = TakeUrl(acc, url) /\ acc \in Accs
    BY <1>1, <2>1, RoundsType
  <2>3. P(acc, n)
    BY <1>3, <1>11, <2>1
  <2>4. Acceptable(url) /\ Mapped(url) = url /\ url # Blank /\ url \in Entries
    BY <1>6, <1>9, <2>1
  <2> HIDE DEF acc
  <2>5. DOMAIN acc.urls = 1..n
    BY <2>3, LenProperties
  <2>6. url \notin Range(acc.urls)
    <3>1. \A a \in 1..n : a \in 1..Len(L) /\ a < n + 1
      BY <1>3, <2>1
    <3>2. \A a \in 1..n : acc.urls[a] # url
      BY <1>7, <2>1, <2>3, <3>1
    <3> QED BY <2>5, <3>2 DEF Range
  <2>7. ~Mixed(acc, url)
    <3> SUFFICES ASSUME acc.urls # <<>> PROVE acc.urls[1].scheme = url.scheme
      BY DEF Mixed
    <3>1. 1 \in 1..n /\ 1 \in 1..Len(L)
      BY <1>3, <2>1, <2>3, EmptySeq
    <3> QED BY <1>8, <2>1, <2>3, <3>1
  <2>8. TakeUrl(acc, url) = [acc EXCEPT !.urls = Append(@, url)]
    BY <2>3, <2>4, <2>6, <2>7 DEF TakeUrl, Known
  <2>9. [acc EXCEPT !.urls = Append(@, url)] = [acc EXCEPT !.urls = new]
    OBVIOUS
  <2>10. /\ new \in Seq(Entries) /\ Len(new) = n + 1
         /\ \A a \in 1..n : new[a] = acc.urls[a]
         /\ new[n + 1] = url
    BY <2>3, <2>4, AppendProperties
  <2> HIDE DEF new
  <2>11. TakeUrl(acc, url).ok /\ TakeUrl(acc, url).urls = new
    BY <2>2, <2>3, <2>8, <2>9 DEF Accs
  <2>12. \A a \in 1..(n + 1) : new[a] = L[a]
    <3>1. \A a \in 1..n : new[a] = L[a]
      BY <2>3, <2>10
    <3>2. \A a \in 1..(n + 1) : a \in 1..n \/ a = n + 1
      BY <1>3
    <3> QED BY <2>10, <3>1, <3>2
  <2> QED BY <2>2, <2>10, <2>11, <2>12
<1> HIDE DEF T
<1>12. \A n \in Nat : n \in T
  BY <1>10, <1>11, InductionOnNat
<1> DEFINE last == Rounds(L)[Len(L)]
<1>13. P(last, Len(L)) /\ last \in Accs
  BY <1>1, <1>3, <1>12, RoundsType DEF T
<1>14. last.urls = L
  BY <1>1, <1>13, SeqEqual
<1> HIDE DEF last
<1>15. last = got
  BY <1>1, <1>13, <1>14 DEF Accs, got
<1>16. NormalizeNatsUrls(L) = last
  BY <1>1, <1>14 DEF NormalizeNatsUrls, last
<1> QED BY <1>15, <1>16 DEF got

-----------------------------------------------------------------------------
(* setDefaultConfig *)

\* A configuration has these fields, whatever is in them.
IsConfig(c) ==
    /\ c = [mode |-> c.mode, numbers |-> c.numbers, cpuLimit |-> c.cpuLimit,
            oldChrome |-> c.oldChrome, chrome |-> c.chrome, logFile |-> c.logFile,
            scripts |-> c.scripts, hooks |-> c.hooks, ffmpeg |-> c.ffmpeg,
            jobs |-> c.jobs, urls |-> c.urls]
    /\ c.numbers = [maxLimit |-> c.numbers.maxLimit, width |-> c.numbers.width,
                    height |-> c.numbers.height, dpi |-> c.numbers.dpi]
    /\ c.scripts \in Seq(Scripts) /\ c.hooks \in [Categories -> Hooks]
    /\ c.urls \in Seq(Entries)

LEMMA FileIsConfig == ASSUME NEW c \in ConfigFiles PROVE IsConfig(c)
<1>1. c.urls \in Seq(Entries)
  <2>1. c.urls \in Seq(Urls) /\ Urls \subseteq Entries
    BY DEF ConfigFiles, Entries
  <2> QED BY <2>1, SeqMonotonic
<1>2. c = [mode |-> c.mode, numbers |-> c.numbers, cpuLimit |-> c.cpuLimit,
           oldChrome |-> c.oldChrome, chrome |-> c.chrome, logFile |-> c.logFile,
           scripts |-> c.scripts, hooks |-> c.hooks, ffmpeg |-> c.ffmpeg,
           jobs |-> c.jobs, urls |-> c.urls]
  BY DEF ConfigFiles
<1>3. c.numbers = [maxLimit |-> c.numbers.maxLimit, width |-> c.numbers.width,
                   height |-> c.numbers.height, dpi |-> c.numbers.dpi]
  BY DEF ConfigFiles
<1>4. c.scripts \in Seq(Scripts) /\ c.hooks \in [Categories -> Hooks]
  BY DEF ConfigFiles
<1> QED BY <1>1, <1>2, <1>3, <1>4 DEF IsConfig

SetNumbers(c) ==
    [f \in DOMAIN c.numbers |->
        IF c.numbers[f] = 0 THEN DefaultNumbers[f] ELSE c.numbers[f]]

\* Field by field.
LEMMA DefaultsAre ==
  ASSUME NEW c, IsConfig(c)
  PROVE  SetDefaultConfig(c) =
            [mode |-> IF c.mode = "" THEN "both" ELSE c.mode,
             numbers |-> SetNumbers(c),
             cpuLimit |-> IF c.cpuLimit = Absent THEN "80" ELSE c.cpuLimit,
             oldChrome |-> c.oldChrome,
             chrome |-> IF c.chrome = "" THEN c.oldChrome ELSE c.chrome,
             logFile |-> "absolute", scripts |-> c.scripts,
             hooks |-> Migrated(c), ffmpeg |-> FfmpegOf(c),
             jobs |-> IF c.jobs = "" THEN "pnm-RecorderTranscoderJobs" ELSE c.jobs,
             urls |-> NormalizeNatsUrls(c.urls).urls]
<1> DEFINE m == IF c.mode = "" THEN "both" ELSE c.mode
           p == IF c.cpuLimit = Absent THEN "80" ELSE c.cpuLimit
           k == IF c.chrome = "" THEN c.oldChrome ELSE c.chrome
           j == IF c.jobs = "" THEN "pnm-RecorderTranscoderJobs" ELSE c.jobs
           u == NormalizeNatsUrls(c.urls).urls
           n == SetNumbers(c)
           h == Migrated(c)
           f == FfmpegOf(c)
<1>1. SetDefaultConfig(c) =
        [c EXCEPT !.mode = m, !.numbers = n, !.cpuLimit = p, !.chrome = k,
                  !.logFile = "absolute", !.hooks = h, !.ffmpeg = f, !.jobs = j, !.urls = u]
  BY DEF SetDefaultConfig, SetNumbers
<1> HIDE DEF m, p, k, j, u, n, h, f
<1> DEFINE c1 == [c EXCEPT !.mode = m]
           c2 == [c1 EXCEPT !.numbers = n]
           c3 == [c2 EXCEPT !.cpuLimit = p]
           c4 == [c3 EXCEPT !.chrome = k]
           c5 == [c4 EXCEPT !.logFile = "absolute"]
           c6 == [c5 EXCEPT !.hooks = h]
           c7 == [c6 EXCEPT !.ffmpeg = f]
           c8 == [c7 EXCEPT !.jobs = j]
           c9 == [c8 EXCEPT !.urls = u]
<1>2. SetDefaultConfig(c) = c9
  BY <1>1
<1> HIDE DEF c1, c2, c3, c4, c5, c6, c7, c8, c9
<1>3. c1 = [mode |-> m, numbers |-> c.numbers, cpuLimit |-> c.cpuLimit, oldChrome |-> c.oldChrome,
            chrome |-> c.chrome, logFile |-> c.logFile, scripts |-> c.scripts, hooks |-> c.hooks,
            ffmpeg |-> c.ffmpeg, jobs |-> c.jobs, urls |-> c.urls]
  <2>1. c = [mode |-> c.mode, numbers |-> c.numbers, cpuLimit |-> c.cpuLimit,
             oldChrome |-> c.oldChrome, chrome |-> c.chrome, logFile |-> c.logFile,
             scripts |-> c.scripts, hooks |-> c.hooks, ffmpeg |-> c.ffmpeg,
             jobs |-> c.jobs, urls |-> c.urls]
    BY DEF IsConfig
  <2> QED BY <2>1 DEF c1
<1>4. c2 = [mode |-> m, numbers |-> n, cpuLimit |-> c.cpuLimit, oldChrome |-> c.oldChrome,
            chrome |-> c.chrome, logFile |-> c.logFile, scripts |-> c.scripts, hooks |-> c.hooks,
            ffmpeg |-> c.ffmpeg, jobs |-> c.jobs, urls |-> c.urls]
  BY <1>3 DEF c2
<1>5. c3 = [mode |-> m, numbers |-> n, cpuLimit |-> p, oldChrome |-> c.oldChrome,
            chrome |-> c.chrome, logFile |-> c.logFile, scripts |-> c.scripts, hooks |-> c.hooks,
            ffmpeg |-> c.ffmpeg, jobs |-> c.jobs, urls |-> c.urls]
  BY <1>4 DEF c3
<1>6. c4 = [mode |-> m, numbers |-> n, cpuLimit |-> p, oldChrome |-> c.oldChrome,
            chrome |-> k, logFile |-> c.logFile, scripts |-> c.scripts, hooks |-> c.hooks,
            ffmpeg |-> c.ffmpeg, jobs |-> c.jobs, urls |-> c.urls]
  BY <1>5 DEF c4
<1>7. c5 = [mode |-> m, numbers |-> n, cpuLimit |-> p, oldChrome |-> c.oldChrome,
            chrome |-> k, logFile |-> "absolute", scripts |-> c.scripts, hooks |-> c.hooks,
            ffmpeg |-> c.ffmpeg, jobs |-> c.jobs, urls |-> c.urls]
  BY <1>6 DEF c5
<1>8. c6 = [mode |-> m, numbers |-> n, cpuLimit |-> p, oldChrome |-> c.oldChrome,
            chrome |-> k, logFile |-> "absolute", scripts |-> c.scripts, hooks |-> h,
            ffmpeg |-> c.ffmpeg, jobs |-> c.jobs, urls |-> c.urls]
  BY <1>7 DEF c6
<1>9. c7 = [mode |-> m, numbers |-> n, cpuLimit |-> p, oldChrome |-> c.oldChrome,
            chrome |-> k, logFile |-> "absolute", scripts |-> c.scripts, hooks |-> h,
            ffmpeg |-> f, jobs |-> c.jobs, urls |-> c.urls]
  BY <1>8 DEF c7
<1>10. c8 = [mode |-> m, numbers |-> n, cpuLimit |-> p, oldChrome |-> c.oldChrome,
            chrome |-> k, logFile |-> "absolute", scripts |-> c.scripts, hooks |-> h,
            ffmpeg |-> f, jobs |-> j, urls |-> c.urls]
  BY <1>9 DEF c8
<1>11. c9 = [mode |-> m, numbers |-> n, cpuLimit |-> p, oldChrome |-> c.oldChrome,
            chrome |-> k, logFile |-> "absolute", scripts |-> c.scripts, hooks |-> h,
            ffmpeg |-> f, jobs |-> j, urls |-> u]
  BY <1>10 DEF c9
<1> QED BY <1>2, <1>11 DEF m, p, k, j, u, n, h, f

\* The deprecated list is migrated once, and never over the section that replaces it.
LEMMA MigratedHooks ==
  ASSUME NEW c, IsConfig(c)
  PROVE  /\ Migrated(c) \in [Categories -> Hooks]
         /\ c.scripts = <<>> \/ Migrated(c)["post_transcoding"].present
         /\ \A h \in Categories : c.hooks[h].present => Migrated(c)[h] = c.hooks[h]
<1> DEFINE new == [n \in DOMAIN c.scripts |-> [c.scripts[n] EXCEPT !.oneShot = TRUE]]
           sec == [present |-> TRUE, pool |-> 0, scripts |-> new]
<1>1. c.scripts \in Seq(Scripts) /\ c.hooks \in [Categories -> Hooks]
  BY DEF IsConfig
<1>2. "post_transcoding" \in Categories
  BY DEF Categories
<1>3. new \in Seq(Scripts)
  <2>1. DOMAIN c.scripts = 1..Len(c.scripts) /\ Len(c.scripts) \in Nat
    BY <1>1, LenProperties
  <2>2. \A n \in 1..Len(c.scripts) : [c.scripts[n] EXCEPT !.oneShot = TRUE] \in Scripts
    <3> TAKE n \in 1..Len(c.scripts)
    <3> DEFINE x == c.scripts[n]
    <3>1. x \in Scripts
      BY <1>1, ElementOfSeq
    <3> HIDE DEF x
    <3>2. [x EXCEPT !.oneShot = TRUE] \in Scripts
      BY <3>1 DEF Scripts
    <3> QED BY <3>2 DEF x
  <2> QED BY <2>1, <2>2
<1>4. sec \in Hooks /\ sec.present
  BY <1>3 DEF Hooks
<1>5. Migrated(c) = IF c.scripts = <<>> \/ c.hooks["post_transcoding"].present
                    THEN c.hooks
                    ELSE [c.hooks EXCEPT !["post_transcoding"] = sec]
  BY DEF Migrated
<1> HIDE DEF sec
<1> QED BY <1>1, <1>2, <1>4, <1>5

\* The defaults of a configuration are settled.
LEMMA DefaultsSettled ==
  ASSUME NEW c \in ConfigFiles, ValidConfig(c) PROVE Settles(c)
<1> DEFINE d == SetDefaultConfig(c)
           e == SetDefaultConfig(d)
<1>1. IsConfig(c)
  BY FileIsConfig
<1>2. /\ d = [mode |-> d.mode, numbers |-> d.numbers, cpuLimit |-> d.cpuLimit,
              oldChrome |-> d.oldChrome, chrome |-> d.chrome, logFile |-> d.logFile,
              scripts |-> d.scripts, hooks |-> d.hooks, ffmpeg |-> d.ffmpeg,
              jobs |-> d.jobs, urls |-> d.urls]
      /\ d.mode = (IF c.mode = "" THEN "both" ELSE c.mode) /\ d.numbers = SetNumbers(c)
      /\ d.cpuLimit = (IF c.cpuLimit = Absent THEN "80" ELSE c.cpuLimit)
      /\ d.oldChrome = c.oldChrome
      /\ d.chrome = (IF c.chrome = "" THEN c.oldChrome ELSE c.chrome)
      /\ d.logFile = "absolute" /\ d.scripts = c.scripts /\ d.hooks = Migrated(c)
      /\ d.ffmpeg = FfmpegOf(c)
      /\ d.jobs = (IF c.jobs = "" THEN "pnm-RecorderTranscoderJobs" ELSE c.jobs)
      /\ d.urls = NormalizeNatsUrls(c.urls).urls
  <2>1. d = [mode |-> IF c.mode = "" THEN "both" ELSE c.mode,
             numbers |-> SetNumbers(c),
             cpuLimit |-> IF c.cpuLimit = Absent THEN "80" ELSE c.cpuLimit,
             oldChrome |-> c.oldChrome,
             chrome |-> IF c.chrome = "" THEN c.oldChrome ELSE c.chrome,
             logFile |-> "absolute", scripts |-> c.scripts,
             hooks |-> Migrated(c), ffmpeg |-> FfmpegOf(c),
             jobs |-> IF c.jobs = "" THEN "pnm-RecorderTranscoderJobs" ELSE c.jobs,
             urls |-> NormalizeNatsUrls(c.urls).urls]
    BY <1>1, DefaultsAre
  <2> HIDE DEF d
  <2> QED BY <2>1
<1> HIDE DEF d
<1>3. NormalizeNatsUrls(c.urls).ok /\ c.urls \in Seq(Entries)
  BY <1>1 DEF ValidConfig, IsConfig
<1>4. NormalizeNatsUrls(d.urls) = NormalizeNatsUrls(c.urls)
  BY <1>2, <1>3, NormalizedAgain
<1>5. d.urls \in Seq(Entries)
  BY <1>2, <1>3, NormalizedType DEF Accs
<1>6. /\ d.numbers = [maxLimit |-> d.numbers.maxLimit, width |-> d.numbers.width,
                      height |-> d.numbers.height, dpi |-> d.numbers.dpi]
      /\ SetNumbers(d) = d.numbers
  <2>1. DOMAIN c.numbers = {"maxLimit", "width", "height", "dpi"}
    BY <1>1 DEF IsConfig
  <2>2. d.numbers = [f \in {"maxLimit", "width", "height", "dpi"} |->
                        IF c.numbers[f] = 0 THEN DefaultNumbers[f] ELSE c.numbers[f]]
    BY <1>2, <2>1 DEF SetNumbers
  <2>3. \A f \in {"maxLimit", "width", "height", "dpi"} : DefaultNumbers[f] # 0
    BY DEF DefaultNumbers
  <2>4. \A f \in DOMAIN d.numbers : d.numbers[f] # 0
    BY <2>2, <2>3
  <2>5. SetNumbers(d) = d.numbers
    BY <2>2, <2>4 DEF SetNumbers
  <2> QED BY <2>2, <2>5
<1>7. IsConfig(d)
  <2>1. d.scripts \in Seq(Scripts)
    BY <1>1, <1>2 DEF IsConfig
  <2>2. d.hooks \in [Categories -> Hooks]
    BY <1>1, <1>2, MigratedHooks
  <2> QED BY <1>2, <1>5, <1>6, <2>1, <2>2 DEF IsConfig
<1>8. Migrated(d) = d.hooks
  BY <1>1, <1>2, MigratedHooks DEF Migrated
<1>9. FfmpegOf(d) = d.ffmpeg
  BY <1>2 DEF FfmpegOf, Absent
<1>10. e = d
  <2>1. e = [mode |-> IF d.mode = "" THEN "both" ELSE d.mode,
             numbers |-> SetNumbers(d),
             cpuLimit |-> IF d.cpuLimit = Absent THEN "80" ELSE d.cpuLimit,
             oldChrome |-> d.oldChrome,
             chrome |-> IF d.chrome = "" THEN d.oldChrome ELSE d.chrome,
             logFile |-> "absolute", scripts |-> d.scripts,
             hooks |-> Migrated(d), ffmpeg |-> FfmpegOf(d),
             jobs |-> IF d.jobs = "" THEN "pnm-RecorderTranscoderJobs" ELSE d.jobs,
             urls |-> NormalizeNatsUrls(d.urls).urls]
    BY <1>7, DefaultsAre
  <2>2. (IF d.mode = "" THEN "both" ELSE d.mode) = d.mode
    BY <1>2
  <2>3. (IF d.cpuLimit = Absent THEN "80" ELSE d.cpuLimit) = d.cpuLimit
    BY <1>2 DEF Absent
  <2>4. (IF d.chrome = "" THEN d.oldChrome ELSE d.chrome) = d.chrome
    BY <1>2
  <2>5. (IF d.jobs = "" THEN "pnm-RecorderTranscoderJobs" ELSE d.jobs) = d.jobs
    BY <1>2
  <2>6. NormalizeNatsUrls(d.urls).urls = d.urls
    BY <1>2, <1>4
  <2> HIDE DEF e
  <2> QED BY <1>2, <1>6, <1>8, <1>9, <2>1, <2>2, <2>3, <2>4, <2>5, <2>6
<1>11. ValidConfig(d)
  BY <1>2, <1>3, <1>4 DEF ValidConfig, Modes
<1>12. \A h \in Categories : c.hooks[h].present => d.hooks[h] = c.hooks[h]
  <2>1. d.hooks = Migrated(c)
    BY <1>2
  <2> QED BY <1>1, <2>1, MigratedHooks
<1>13. c.chrome # "" => d.chrome = c.chrome
  BY <1>2
<1> QED BY <1>10, <1>11, <1>12, <1>13 DEF Settles, d

-----------------------------------------------------------------------------
(* InitializeHooks *)

IsPools(pools) == \A path \in DOMAIN pools : pools[path] \in Int

\* No pool gets smaller.
Grows(old, new) ==
    \A path \in DOMAIN old : path \in DOMAIN new /\ new[path] >= old[path]

\* The first n scripts of a category have the processes it asks for.
Enough(pools, hook, n) ==
    \A m \in 1..n : ~hook.scripts[m].oneShot =>
        /\ Resolve(hook.scripts[m]) \in DOMAIN pools
        /\ pools[Resolve(hook.scripts[m])] >= PoolSize(hook)

\* One script.
LEMMA AddScriptGrows ==
  ASSUME NEW pools, IsPools(pools), NEW script, NEW size \in Int
  PROVE  LET new == AddScript(pools, script, size) IN
         /\ IsPools(new) /\ Grows(pools, new)
         /\ script.oneShot \/ (/\ Resolve(script) \in DOMAIN new
                               /\ new[Resolve(script)] >= size)
<1> DEFINE path == Resolve(script)
           next == [p \in DOMAIN pools \cup {path} |-> IF p = path THEN size ELSE pools[p]]
           new  == AddScript(pools, script, size)
<1>1. /\ DOMAIN next = DOMAIN pools \cup {path} /\ next[path] = size
      /\ \A q \in DOMAIN pools : q # path => next[q] = pools[q]
  OBVIOUS
<1>2. new = IF script.oneShot \/ (path \in DOMAIN pools /\ pools[path] >= size)
            THEN pools ELSE next
  BY DEF AddScript
<1> HIDE DEF path, next, new
<1>3. CASE script.oneShot \/ (path \in DOMAIN pools /\ pools[path] >= size)
  BY <1>2, <1>3 DEF IsPools, Grows, path, new
<1>4. CASE ~script.oneShot /\ ~(path \in DOMAIN pools /\ pools[path] >= size)
  <2>1. new = next
    BY <1>2, <1>4
  <2>2. IsPools(next)
    BY <1>1 DEF IsPools
  <2>3. Grows(pools, next)
    <3> SUFFICES ASSUME NEW q \in DOMAIN pools PROVE next[q] >= pools[q]
      BY <1>1 DEF Grows
    <3>1. pools[q] \in Int
      BY DEF IsPools
    <3> QED BY <1>1, <1>4, <3>1
  <2>4. path \in DOMAIN next /\ next[path] >= size
    BY <1>1
  <2> QED BY <2>1, <2>2, <2>3, <2>4 DEF path, new
<1> QED BY <1>3, <1>4

\* The scripts of a category are added one after the other.
LEMMA AddedAre ==
  ASSUME NEW pools, NEW hook \in Hooks
  PROVE  AddScripts(pools, hook) = [n \in 0..Len(hook.scripts) |->
            IF n = 0 THEN pools
            ELSE AddScript(AddScripts(pools, hook)[n - 1], hook.scripts[n],
                           PoolSize(hook))]
<1> DEFINE Add(g, n)  == AddScript(g, hook.scripts[n], PoolSize(hook))
           Def(g, k)  == [n \in 0..k |-> IF n = 0 THEN pools ELSE Add(g[n - 1], n)]
           T == {k \in Nat : \E g : g = Def(g, k)}
<1> HIDE DEF Add
<1>1. 0 \in T
  <2> DEFINE g == [n \in 0..0 |-> pools]
  <2>1. g = Def(g, 0)
    OBVIOUS
  <2> QED BY <2>1
<1>2. ASSUME NEW k \in Nat, k \in T PROVE k + 1 \in T
  <2>1. PICK g : g = Def(g, k)
    BY <1>2
  <2> DEFINE h == [n \in 0..(k + 1) |-> IF n = k + 1 THEN Add(g[k], k + 1) ELSE g[n]]
  <2>2. \A n \in 0..k : h[n] = g[n]
    OBVIOUS
  <2>3. \A n \in 0..k : g[n] = IF n = 0 THEN pools ELSE Add(g[n - 1], n)
    BY <2>1
  <2> HIDE DEF Def
  <2>4. \A n \in 0..(k + 1) : h[n] = IF n = 0 THEN pools ELSE Add(h[n - 1], n)
    <3> TAKE n \in 0..(k + 1)
    <3>1. CASE n = k + 1
      BY <2>2, <3>1
    <3>2. CASE n # k + 1
      <4>1. n \in 0..k /\ (n # 0 => n - 1 \in 0..k)
        BY <3>2
      <4> QED BY <2>2, <2>3, <4>1
    <3> QED BY <3>1, <3>2
  <2>5. h = Def(h, k + 1)
    BY <2>4 DEF Def
  <2> HIDE DEF h
  <2> QED BY <2>5
<1> HIDE DEF T
<1>3. \A k \in Nat : k \in T
  BY <1>1, <1>2, InductionOnNat
<1>4. Len(hook.scripts) \in Nat
  BY LenProperties DEF Hooks
<1>5. \E g : g = Def(g, Len(hook.scripts))
  BY <1>3, <1>4 DEF T
<1> QED BY <1>5 DEF AddScripts, Add

\* A category makes no pool smaller, and has enough processes itself.
LEMMA CategoryAdded ==
  ASSUME NEW pools, IsPools(pools), NEW hook \in Hooks
  PROVE  LET new == AddScripts(pools, hook)[Len(hook.scripts)]
         IN  IsPools(new) /\ Grows(pools, new) /\ Enough(new, hook, Len(hook.scripts))
<1> DEFINE r == AddScripts(pools, hook)
           P(n) == IsPools(r[n]) /\ Grows(pools, r[n]) /\ Enough(r[n], hook, n)
           T == {n \in Nat : n <= Len(hook.scripts) => P(n)}
<1>1. Len(hook.scripts) \in Nat
  BY LenProperties DEF Hooks
<1>2. PoolSize(hook) \in Int
  BY DEF PoolSize, Hooks
<1>3. r[0] = pools
  <2>1. r = [n \in 0..Len(hook.scripts) |->
                IF n = 0 THEN pools
                ELSE AddScript(r[n - 1], hook.scripts[n], PoolSize(hook))]
    BY AddedAre
  <2> HIDE DEF r
  <2> QED BY <1>1, <2>1
<1>4. \A n \in 1..Len(hook.scripts) :
          r[n] = AddScript(r[n - 1], hook.scripts[n], PoolSize(hook))
  <2>1. r = [n \in 0..Len(hook.scripts) |->
                IF n = 0 THEN pools
                ELSE AddScript(r[n - 1], hook.scripts[n], PoolSize(hook))]
    BY AddedAre
  <2> HIDE DEF r
  <2> QED BY <1>1, <2>1
<1> HIDE DEF r
<1>5. 0 \in T
  BY <1>3 DEF IsPools, Grows, Enough
<1>6. ASSUME NEW n \in Nat, n \in T PROVE n + 1 \in T
  <2> SUFFICES ASSUME n + 1 <= Len(hook.scripts) PROVE P(n + 1)
    OBVIOUS
  <2> DEFINE old == r[n]
             new == r[n + 1]
             script == hook.scripts[n + 1]
  <2>1. P(n)
    BY <1>1, <1>6
  <2>2. n + 1 \in 1..Len(hook.scripts) /\ (n + 1) - 1 = n
    BY <1>1
  <2>3. new = AddScript(old, script, PoolSize(hook))
    BY <1>4, <2>2
  <2> HIDE DEF old, new, script
  <2>4. IsPools(old) /\ Grows(pools, old) /\ Enough(old, hook, n)
    BY <2>1 DEF old
  <2>5. /\ IsPools(new) /\ Grows(old, new)
        /\ script.oneShot \/ (/\ Resolve(script) \in DOMAIN new
                              /\ new[Resolve(script)] >= PoolSize(hook))
    BY <1>2, <2>3, <2>4, AddScriptGrows
  <2>6. Grows(pools, new)
    BY <2>4, <2>5 DEF Grows, IsPools
  <2>7. Enough(new, hook, n + 1)
    <3> SUFFICES ASSUME NEW m \in 1..(n + 1), ~hook.scripts[m].oneShot
                 PROVE  /\ Resolve(hook.scripts[m]) \in DOMAIN new
                        /\ new[Resolve(hook.scripts[m])] >= PoolSize(hook)
      BY DEF Enough
    <3>1. CASE m = n + 1
      BY <2>5, <3>1 DEF script
    <3>2. CASE m # n + 1
      <4> DEFINE q == Resolve(hook.scripts[m])
      <4>1. q \in DOMAIN old /\ old[q] >= PoolSize(hook)
        BY <2>4, <3>2 DEF Enough
      <4> HIDE DEF q
      <4>2. q \in DOMAIN new /\ new[q] >= old[q] /\ new[q] \in Int /\ old[q] \in Int
        BY <2>4, <2>5, <4>1 DEF Grows, IsPools
      <4>3. q \in DOMAIN new /\ new[q] >= PoolSize(hook)
        BY <1>2, <4>1, <4>2
      <4> QED BY <4>3 DEF q
    <3> QED BY <3>1, <3>2
  <2> QED BY <2>5, <2>6, <2>7 DEF new
<1> HIDE DEF T
<1>7. \A n \in Nat : n \in T
  BY <1>5, <1>6, InductionOnNat
<1> QED BY <1>1, <1>7 DEF T, r

\* What one category has, the next ones leave.
LEMMA EnoughKept ==
  ASSUME NEW hook \in Hooks, NEW old, NEW new, IsPools(old), IsPools(new),
         Grows(old, new), Enough(old, hook, Len(hook.scripts))
  PROVE  Enough(new, hook, Len(hook.scripts))
<1> SUFFICES ASSUME NEW m \in 1..Len(hook.scripts), ~hook.scripts[m].oneShot
             PROVE  /\ Resolve(hook.scripts[m]) \in DOMAIN new
                    /\ new[Resolve(hook.scripts[m])] >= PoolSize(hook)
  BY DEF Enough
<1> DEFINE q == Resolve(hook.scripts[m])
<1>1. q \in DOMAIN old /\ old[q] >= PoolSize(hook)
  BY DEF Enough
<1> HIDE DEF q
<1>2. q \in DOMAIN new /\ new[q] >= old[q] /\ new[q] \in Int /\ old[q] \in Int
  BY <1>1 DEF Grows, IsPools
<1>3. PoolSize(hook) \in Int
  BY DEF PoolSize, Hooks
<1>4. q \in DOMAIN new /\ new[q] >= PoolSize(hook)
  BY <1>1, <1>2, <1>3
<1> QED BY <1>4 DEF q

\* The scripts a service runs have the processes their category asks for.
LEMMA PoolsAreEnough ==
  ASSUME NEW c \in ConfigFiles, ValidConfig(c) PROVE PoolsSuffice(c)
<1> DEFINE d == SetDefaultConfig(c)
           H(h) == d.hooks[h]
           p1 == ProcessHookCategory(d, <<>>, "post_recording")
           p2 == ProcessHookCategory(d, p1, "pre_transcoding")
           p3 == ProcessHookCategory(d, p2, "post_transcoding")
<1>1. IsConfig(c)
  BY FileIsConfig
<1>2. d.mode = (IF c.mode = "" THEN "both" ELSE c.mode) /\ d.hooks = Migrated(c)
  <2>1. d = [mode |-> IF c.mode = "" THEN "both" ELSE c.mode,
             numbers |-> SetNumbers(c),
             cpuLimit |-> IF c.cpuLimit = Absent THEN "80" ELSE c.cpuLimit,
             oldChrome |-> c.oldChrome,
             chrome |-> IF c.chrome = "" THEN c.oldChrome ELSE c.chrome,
             logFile |-> "absolute", scripts |-> c.scripts,
             hooks |-> Migrated(c), ffmpeg |-> FfmpegOf(c),
             jobs |-> IF c.jobs = "" THEN "pnm-RecorderTranscoderJobs" ELSE c.jobs,
             urls |-> NormalizeNatsUrls(c.urls).urls]
    BY <1>1, DefaultsAre
  <2> HIDE DEF d
  <2> QED BY <2>1
<1> HIDE DEF d
<1>3. d.mode \in Modes
  BY <1>2 DEF ValidConfig, Modes
<1>4. d.hooks \in [Categories -> Hooks]
  BY <1>1, <1>2, MigratedHooks
<1>5. Needed(d.mode) \subseteq Processed(d.mode) /\ Needed(d.mode) \subseteq Categories
  BY <1>3 DEF Needed, Processed, Records, Transcodes, Modes, Categories
<1>6. ASSUME NEW pools, IsPools(pools), NEW h \in Categories
      PROVE  LET new == ProcessHookCategory(d, pools, h) IN
             /\ IsPools(new) /\ Grows(pools, new)
             /\ h \in Processed(d.mode) => Enough(new, H(h), Len(H(h).scripts))
  <2>1. H(h) \in Hooks
    BY <1>4
  <2>2. Grows(pools, pools)
    BY <1>6 DEF Grows, IsPools
  <2> QED BY <1>6, <2>1, <2>2, CategoryAdded DEF ProcessHookCategory
<1>7. IsPools(<<>>)
  BY DEF IsPools
<1>8. Categories = {"post_recording", "pre_transcoding", "post_transcoding"}
  BY DEF Categories
<1>9. /\ IsPools(p1)
      /\ "post_recording" \in Processed(d.mode) =>
            Enough(p1, H("post_recording"), Len(H("post_recording").scripts))
  BY <1>6, <1>7, <1>8
<1> HIDE DEF p1
<1>10. /\ IsPools(p2) /\ Grows(p1, p2)
       /\ "pre_transcoding" \in Processed(d.mode) =>
            Enough(p2, H("pre_transcoding"), Len(H("pre_transcoding").scripts))
  BY <1>6, <1>8, <1>9
<1> HIDE DEF p2
<1>11. /\ IsPools(p3) /\ Grows(p2, p3)
       /\ "post_transcoding" \in Processed(d.mode) =>
            Enough(p3, H("post_transcoding"), Len(H("post_transcoding").scripts))
  BY <1>6, <1>8, <1>10
<1>12. HookPools(d) = p3
  BY DEF HookPools, p1, p2
<1> HIDE DEF p3
<1>13. \A h \in Categories : H(h) \in Hooks
  BY <1>4
<1>14. ASSUME NEW h \in Needed(d.mode) PROVE Enough(p3, H(h), Len(H(h).scripts))
  <2>1. h \in Categories /\ h \in Processed(d.mode)
    BY <1>5
  <2>2. CASE h = "post_recording"
    <3>1. Enough(p2, H(h), Len(H(h).scripts))
      BY <1>9, <1>10, <1>13, <2>1, <2>2, EnoughKept
    <3> QED BY <1>10, <1>11, <1>13, <2>1, <3>1, EnoughKept
  <2>3. CASE h = "pre_transcoding"
    BY <1>10, <1>11, <1>13, <2>1, <2>3, EnoughKept
  <2>4. CASE h = "post_transcoding"
    BY <1>11, <2>1, <2>4
  <2> QED BY <1>8, <2>1, <2>2, <2>3, <2>4
<1>15. ASSUME NEW h \in Needed(d.mode) PROVE DOMAIN H(h).scripts = 1..Len(H(h).scripts)
  <2>1. H(h).scripts \in Seq(Scripts)
    BY <1>5, <1>13 DEF Hooks
  <2> QED BY <2>1, LenProperties
<1> QED BY <1>12, <1>14, <1>15 DEF PoolsSuffice, Enough, d

-----------------------------------------------------------------------------

\* The lists that are tried are lists.
LEMMA BoundedLists ==
  ASSUME NEW list \in BoundedSeq(Urls, MaxUrls)
  PROVE  list \in Seq(Urls) /\ list \in Seq(Entries)
<1>1. PICK n \in 0..MaxUrls : list \in [1..n -> Urls]
  BY DEF BoundedSeq, SeqOf
<1>2. list \in Seq(Urls)
  BY <1>1, SettingsAssumption
<1> QED BY <1>2, SeqMonotonic DEF Entries

\* normalizeNatsUrls accepts exactly the lists that can be connected to and
\* returns every url once, in the order of first mention, for a list of any length.
THEOREM UrlsNormalized ==
  (\A list \in Seq(Urls) : NormalizesUrls(list)) /\ (Spec => []UrlsAsSpecified)
<1>1. \A list \in Seq(Urls) : list \in Seq(Entries)
  BY SeqMonotonic DEF Entries
<1>2. UrlsAsSpecified
  BY BoundedLists, Normalized DEF UrlsAsSpecified
<1>3. \A list \in Seq(Urls) : NormalizesUrls(list)
  BY <1>1, Normalized
<1>4. Spec => []UrlsAsSpecified
  BY <1>2, PTL
<1> QED BY <1>3, <1>4

\* The options the connection takes from the first url fit all urls of the list.
THEOREM TransportDecided ==
  (\A list \in Seq(Urls) : FirstUrlDecides(list)) /\ (Spec => []OneTransport)
<1>1. \A list \in Seq(Urls) : list \in Seq(Entries)
  BY SeqMonotonic DEF Entries
<1>2. OneTransport
  BY BoundedLists, FirstDecides DEF OneTransport
<1>3. \A list \in Seq(Urls) : FirstUrlDecides(list)
  BY <1>1, FirstDecides
<1>4. Spec => []OneTransport
  BY <1>2, PTL
<1> QED BY <1>3, <1>4

\* A second pass of setDefaultConfig changes nothing, and no pass changes what the
\* operator set in a field that replaces a deprecated one, for every configuration.
THEOREM DefaultsAreSettled ==
  /\ \A c \in ConfigFiles : ValidConfig(c) => Settles(c)
  /\ Spec => []DefaultsSettle
<1>1. DefaultsSettle
  BY SettingsAssumption, DefaultsSettled DEF DefaultsSettle
<1>2. \A c \in ConfigFiles : ValidConfig(c) => Settles(c)
  BY DefaultsSettled
<1>3. Spec => []DefaultsSettle
  BY <1>1, PTL
<1> QED BY <1>2, <1>3

\* Every service has the hook processes it uses, whatever scripts, however many,
\* the categories share.
THEOREM HooksAreReady ==
  /\ \A c \in ConfigFiles : ValidConfig(c) => PoolsSuffice(c)
  /\ Spec => []HooksReady
<1>1. HooksReady
  BY SettingsAssumption, PoolsAreEnough DEF HooksReady
<1>2. \A c \in ConfigFiles : ValidConfig(c) => PoolsSuffice(c)
  BY PoolsAreEnough
<1>3. Spec => []HooksReady
  BY <1>1, PTL
<1> QED BY <1>2, <1>3
=============================================================================
