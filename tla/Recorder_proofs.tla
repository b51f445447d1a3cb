-------------------------- MODULE Recorder_proofs --------------------------
(* Proofs about Recorder, for any number of callers, keys and events and any  *)
(* length of the queue.  The argument: a request has one place to wait in; a   *)
(* staged batch is alone in the buffer, and what is completed is in the        *)
(* journal; a batch with a line somewhere is staged or completed for as long   *)
(* as somebody asks for it, or it was forgotten, so only a forgotten batch is  *)
(* written again.                                                              *)
EXTENDS Recorder, SequenceTheorems, FiniteSetTheorems, TLAPS

\* the lines that are somewhere
Lines == Range(journal) \cup Range(buffer)

Remembered(k) == k = pending \/ k \in Range(completed)

Asks(c, k) == caller[c].pc # "idle" /\ caller[c].key = k

\* the requests that wait for the worker
Waiting == Range(queue) \cup ({deferred} \ {None})

\* who waits for the worker, and only once
RequestInv ==
  /\ \A r \in asked : IF r.of = None THEN r.key \in Events ELSE r.key \in Keys
  /\ \A r \in Waiting :
       r \in asked /\ (r.of # None => caller[r.of].pc = "asking" /\ caller[r.of].key = r.key)
  /\ IsInjective(queue)
  /\ deferred # None => deferred.of = None /\ deferred \notin Range(queue)
  /\ \A c \in Callers : IF caller[c].pc = "idle" THEN caller[c] = NotAsking
                        ELSE caller[c].key \in Keys /\ [of |-> c, key |-> caller[c].key] \in asked

\* a line is of a request, and an event that waits has none yet
LineInv ==
  /\ \A l \in Lines : \E r \in asked : r.key = l[1]
  /\ \A r \in Waiting : r.of = None => <<r.key, 1>> \notin Lines

\* a staged batch is alone in the buffer, and what is completed is in the journal
StagedInv ==
  /\ pending # None => LinesOf(pending) \subseteq Lines
  /\ StagedAlone
  /\ \A k \in Range(completed) \cup acked : LinesOf(k) \subseteq Range(journal)

IInv == TypeOK /\ RequestInv /\ LineInv /\ StagedInv

\* nothing is twice in s, but what is in X
OnceBut(s, X) == \A i, j \in DOMAIN s : s[i] = s[j] => i = j \/ s[i] \in X

\* the lines that may be written again
Excused == UNION {LinesOf(k) : k \in forgotten}

\* what is asked for is remembered or forgotten, and no other line is written twice
OnceInv ==
  /\ OnceBut(journal, Excused) /\ OnceBut(buffer, Excused) /\ Range(journal) \cap Range(buffer) \subseteq Excused
  /\ \A c \in Callers, k \in Keys : Asks(c, k) /\ LinesOf(k) \cap Lines # {} => Remembered(k) \/ k \in forgotten

----------------------------------------------------------------------------
(* Sequences *)

\* The elements of a sequence.
LEMMA Elements ==
  ASSUME NEW S, NEW s \in Seq(S)
  PROVE  /\ Range(s) = {s[i] : i \in 1..Len(s)} /\ Range(s) \subseteq S
         /\ IsInjective(s) <=> \A i, j \in 1..Len(s) : s[i] = s[j] => i = j
         /\ \A X : OnceBut(s, X) <=> \A i, j \in 1..Len(s) : s[i] = s[j] => i = j \/ s[i] \in X
         /\ \A x : Contains(s, x) <=> x \in Range(s)
<1>1. DOMAIN s = 1..Len(s) /\ \A i \in 1..Len(s) : s[i] \in S
  OBVIOUS
<1> QED
  BY <1>1 DEF Range, IsInjective, OnceBut, Contains

\* Two sequences in a row.
LEMMA InARow ==
  ASSUME NEW S, NEW s \in Seq(S), NEW t \in Seq(S)
  PROVE  /\ s \o t \in Seq(S) /\ Range(s \o t) = Range(s) \cup Range(t)
         /\ IsInjective(s) /\ IsInjective(t) /\ Range(s) \cap Range(t) = {} => IsInjective(s \o t)
         /\ \A X : OnceBut(s, X) /\ OnceBut(t, X) /\ Range(s) \cap Range(t) \subseteq X => OnceBut(s \o t, X)
<1> DEFINE u == s \o t
<1>1. /\ u \in Seq(S) /\ Len(u) = Len(s) + Len(t) /\ Len(s) \in Nat /\ Len(t) \in Nat
      /\ \A i \in 1..Len(s) + Len(t) : u[i] = IF i <= Len(s) THEN s[i] ELSE t[i - Len(s)]
  BY ConcatProperties
<1> HIDE DEF u
<1>0. /\ Range(u) = {u[i] : i \in 1..Len(u)}
      /\ Range(s) = {s[i] : i \in 1..Len(s)}
      /\ Range(t) = {t[i] : i \in 1..Len(t)}
  <2>1. Range(u) = {u[i] : i \in 1..Len(u)}
    BY <1>1, Elements
  <2>2. Range(s) = {s[i] : i \in 1..Len(s)}
    BY Elements
  <2>3. Range(t) = {t[i] : i \in 1..Len(t)}
    BY Elements
  <2> QED
    BY <2>1, <2>2, <2>3
<1>2. Range(u) = Range(s) \cup Range(t)
  <2>1. ASSUME NEW i \in 1..Len(u)
        PROVE  u[i] \in Range(s) \cup Range(t)
    BY <1>1, <2>1, Elements
  <2>2. ASSUME NEW i \in 1..Len(s)
        PROVE  s[i] \in Range(u)
    BY <1>1, <2>2, Elements
  <2>3. ASSUME NEW i \in 1..Len(t)
        PROVE  t[i] \in Range(u)
    <3>1. PICK a : a = Len(s) + i
      OBVIOUS
    <3>2. a \in 1..Len(s) + Len(t) /\ ~(a <= Len(s)) /\ a - Len(s) = i
      BY <1>1, <2>3, <3>1
    <3>3. a \in 1..Len(u) /\ u[a] = t[i]
      BY <1>1, <3>2
    <3> QED
      BY <1>0, <3>3
  <2>4. Range(u) \subseteq Range(s) \cup Range(t)
    BY <1>0, <2>1
  <2>5. Range(s) \subseteq Range(u) /\ Range(t) \subseteq Range(u)
    BY <1>0, <2>2, <2>3
  <2> QED
    BY <2>4, <2>5
<1>3. ASSUME NEW X, OnceBut(s, X), OnceBut(t, X), Range(s) \cap Range(t) \subseteq X
      PROVE  OnceBut(u, X)
  <2>1. ASSUME NEW i \in 1..Len(u), NEW j \in 1..Len(u), u[i] = u[j]
        PROVE  i = j \/ u[i] \in X
    <3>1. CASE i <= Len(s) /\ j <= Len(s)
      BY <1>1, <1>3, <2>1, <3>1, Elements
    <3>2. CASE i > Len(s) /\ j > Len(s)
      <4>1. /\ i - Len(s) \in 1..Len(t) /\ j - Len(s) \in 1..Len(t) /\ t[i - Len(s)] = t[j - Len(s)]
            /\ u[i] = t[i - Len(s)]
        BY <1>1, <2>1, <3>2
      <4>2. i - Len(s) = j - Len(s) \/ t[i - Len(s)] \in X
        BY <1>3, <4>1, Elements
      <4> QED
        BY <1>1, <4>1, <4>2
    <3>3. ASSUME NEW a \in 1..Len(u), NEW b \in 1..Len(u), a <= Len(s), b > Len(s), u[a] = u[b]
          PROVE  u[a] \in X
      <4>1. PICK d : d = b - Len(s)
        OBVIOUS
      <4>2. a \in 1..Len(s) /\ d \in 1..Len(t) /\ u[a] = s[a] /\ u[b] = t[d]
        BY <1>1, <3>3, <4>1
      <4>3. s[a] \in Range(s) /\ t[d] \in Range(t)
        BY <4>2, Elements
      <4> QED
        BY <1>3, <3>3, <4>2, <4>3
    <3> QED
      BY <1>1, <2>1, <3>1, <3>2, <3>3
  <2> QED
    BY <1>1, <2>1, Elements
<1>4. \A v \in Seq(S) : IsInjective(v) <=> OnceBut(v, {})
  BY Elements
<1>5. IsInjective(s) /\ IsInjective(t) /\ Range(s) \cap Range(t) = {} => IsInjective(u)
  BY <1>1, <1>3, <1>4
<1> QED
  BY <1>1, <1>2, <1>3, <1>5 DEF u

\* A sequence with one more.
LEMMA OneMore ==
  ASSUME NEW S, NEW s \in Seq(S), NEW x \in S
  PROVE  /\ Append(s, x) \in Seq(S) /\ Range(Append(s, x)) = Range(s) \cup {x}
         /\ IsInjective(s) /\ x \notin Range(s) => IsInjective(Append(s, x))
<1>1. <<x>> \in Seq(S) /\ Len(<<x>>) = 1 /\ <<x>>[1] = x /\ 1..1 = {1}
  OBVIOUS
<1>2. PICK t : t = <<x>>
  OBVIOUS
<1>3. t \in Seq(S) /\ Len(t) = 1 /\ t[1] = x
  BY <1>1, <1>2
<1>4. Range(t) = {x} /\ IsInjective(t)
  <2>1. Range(t) = {t[i] : i \in 1..Len(t)} /\ (IsInjective(t) <=> \A i, j \in 1..Len(t) : t[i] = t[j] => i = j)
    <3>1. t \in Seq(S)
      BY <1>3
    <3> QED
      BY <3>1, Elements
  <2> QED
    BY <1>1, <1>3, <2>1
<1>5. Append(s, x) = s \o t
  BY <1>2, AppendIsConcat
<1>6. /\ s \o t \in Seq(S) /\ Range(s \o t) = Range(s) \cup Range(t)
      /\ IsInjective(s) /\ IsInjective(t) /\ Range(s) \cap Range(t) = {} => IsInjective(s \o t)
  BY <1>3, InARow
<1> QED
  BY <1>4, <1>5, <1>6

\* A part of a sequence.
LEMMA Part ==
  ASSUME NEW S, NEW s \in Seq(S), NEW m \in 1..Len(s) + 1, NEW n \in 0..Len(s), n >= m - 1
  PROVE  /\ SubSeq(s, m, n) \in Seq(S) /\ Len(SubSeq(s, m, n)) = n - m + 1
         /\ \A i \in 1..n - m + 1 : SubSeq(s, m, n)[i] = s[m + i - 1]
         /\ Range(SubSeq(s, m, n)) = {s[i] : i \in m..n}
         /\ IsInjective(s) => IsInjective(SubSeq(s, m, n))
         /\ \A X : OnceBut(s, X) => OnceBut(SubSeq(s, m, n), X)
<1> DEFINE u == SubSeq(s, m, n)
<1>1. /\ u \in Seq(S) /\ Len(u) = n - m + 1 /\ \A i \in 1..n - m + 1 : u[i] = s[m + i - 1]
      /\ Len(s) \in Nat /\ m \in Nat /\ n \in Nat
  BY SubSeqProperties
<1> HIDE DEF u
<1>2. Range(u) = {s[i] : i \in m..n}
  <2>1. ASSUME NEW i \in 1..Len(u)
        PROVE  m + i - 1 \in m..n /\ u[i] = s[m + i - 1]
    BY <1>1, <2>1
  <2>2. ASSUME NEW i \in m..n
        PROVE  i - m + 1 \in 1..Len(u) /\ u[i - m + 1] = s[i]
    BY <1>1, <2>2
  <2>3. Range(u) = {u[i] : i \in 1..Len(u)}
    BY <1>1, Elements
  <2>4. Range(u) \subseteq {s[i] : i \in m..n}
    BY <2>1, <2>3
  <2>5. {s[i] : i \in m..n} \subseteq Range(u)
    BY <2>2, <2>3
  <2> QED
    BY <2>4, <2>5
<1>3. ASSUME NEW X, OnceBut(s, X)
      PROVE  OnceBut(u, X)
  <2>1. ASSUME NEW i \in 1..Len(u), NEW j \in 1..Len(u), u[i] = u[j]
        PROVE  i = j \/ u[i] \in X
    <3>1. /\ m + i - 1 \in 1..Len(s) /\ m + j - 1 \in 1..Len(s) /\ s[m + i - 1] = s[m + j - 1]
          /\ u[i] = s[m + i - 1]
      BY <1>1, <2>1
    <3>2. m + i - 1 = m + j - 1 \/ s[m + i - 1] \in X
      BY <1>3, <3>1, Elements
    <3> QED
      BY <1>1, <3>1, <3>2
  <2> QED
    BY <1>1, <2>1, Elements
<1>4. \A v \in Seq(S) : IsInjective(v) <=> OnceBut(v, {})
  BY Elements
<1>5. IsInjective(s) => IsInjective(u)
  BY <1>1, <1>3, <1>4
<1> QED
  BY <1>1, <1>2, <1>3, <1>5 DEF u

\* A queue without its first.
LEMMA Rest ==
  ASSUME NEW S, NEW s \in Seq(S), 1 \in DOMAIN s
  PROVE  /\ Tail(s) \in Seq(S) /\ Len(Tail(s)) = Len(s) - 1 /\ s[1] \in Range(s)
         /\ Range(Tail(s)) \subseteq Range(s) /\ Range(s) \subseteq Range(Tail(s)) \cup {s[1]}
         /\ IsInjective(s) => IsInjective(Tail(s)) /\ s[1] \notin Range(Tail(s))
<1>1. Len(s) \in Nat /\ DOMAIN s = 1..Len(s) /\ s # <<>>
  BY EmptySeq
<1>2. Tail(s) = SubSeq(s, 2, Len(s))
  BY <1>1, TailIsSubSeq
<1>3. 2 \in 1..Len(s) + 1 /\ Len(s) \in 0..Len(s) /\ Len(s) >= 2 - 1
  BY <1>1
<1>4. /\ Tail(s) \in Seq(S) /\ Len(Tail(s)) = Len(s) - 1 /\ Range(Tail(s)) = {s[i] : i \in 2..Len(s)}
      /\ IsInjective(s) => IsInjective(Tail(s))
  <2>1. PICK n : n = Len(s)
    OBVIOUS
  <2>2. /\ SubSeq(s, 2, n) \in Seq(S) /\ Len(SubSeq(s, 2, n)) = n - 2 + 1
        /\ Range(SubSeq(s, 2, n)) = {s[i] : i \in 2..n}
        /\ IsInjective(s) => IsInjective(SubSeq(s, 2, n))
    BY <1>3, <2>1, Part
  <2>3. n - 2 + 1 = Len(s) - 1
    BY <1>1, <2>1
  <2> QED
    BY <1>2, <2>1, <2>2, <2>3
<1>5. ASSUME IsInjective(s)
      PROVE  s[1] \notin Range(Tail(s))
  BY <1>1, <1>4, <1>5, Elements
<1>6. Range(s) \subseteq Range(Tail(s)) \cup {s[1]}
  <2>1. ASSUME NEW i \in 1..Len(s)
        PROVE  i = 1 \/ i \in 2..Len(s)
    BY <1>1
  <2> QED
    BY <1>4, <2>1, Elements
<1>7. Range(Tail(s)) \subseteq Range(s)
  BY <1>1, <1>4, Elements
<1> QED
  BY <1>1, <1>4, <1>5, <1>6, <1>7, Elements

----------------------------------------------------------------------------
(* What the worker does to its sequences *)

\* The lines of a batch and of an event.
LEMMA LinesOfRequests ==
  /\ \A k \in Keys : /\ BatchLines(k) \in Seq(AllLines) /\ Len(BatchLines(k)) = 2
                     /\ Range(BatchLines(k)) = LinesOf(k) /\ IsInjective(BatchLines(k))
                     /\ BatchLines(k)[1] = <<k, 1>> /\ BatchLines(k)[2] = <<k, 2>>
  /\ \A e \in Events : /\ EventLines(e) \in Seq(AllLines) /\ Len(EventLines(e)) = 1
                       /\ Range(EventLines(e)) = {<<e, 1>>} /\ IsInjective(EventLines(e))
<1>1. ASSUME NEW k \in Keys
      PROVE  /\ BatchLines(k) \in Seq(AllLines) /\ Len(BatchLines(k)) = 2
             /\ Range(BatchLines(k)) = LinesOf(k) /\ IsInjective(BatchLines(k))
             /\ BatchLines(k)[1] = <<k, 1>> /\ BatchLines(k)[2] = <<k, 2>>
  <2> DEFINE s == << <<k, 1>>, <<k, 2>> >>
  <2>1. <<k, 1>> \in AllLines /\ <<k, 2>> \in AllLines
    BY DEF AllLines, LinesOf
  <2>2. s \in Seq(AllLines) /\ Len(s) = 2 /\ s[1] = <<k, 1>> /\ s[2] = <<k, 2>>
    BY <2>1
  <2> HIDE DEF s
  <2>3. 1..Len(s) = {1, 2}
    BY <2>2
  <2>4. Range(s) = {s[i] : i \in 1..Len(s)} /\ (IsInjective(s) <=> \A i, j \in 1..Len(s) : s[i] = s[j] => i = j)
    BY <2>2, Elements
  <2>5. Range(s) = LinesOf(k)
    BY <2>2, <2>3, <2>4 DEF LinesOf
  <2>6. IsInjective(s)
    BY <2>2, <2>3, <2>4
  <2> QED
    BY <2>2, <2>5, <2>6 DEF s, BatchLines
<1>2. ASSUME NEW e \in Events
      PROVE  /\ EventLines(e) \in Seq(AllLines) /\ Len(EventLines(e)) = 1
             /\ Range(EventLines(e)) = {<<e, 1>>} /\ IsInjective(EventLines(e))
  <2> DEFINE s == << <<e, 1>> >>
  <2>1. <<e, 1>> \in AllLines
    BY DEF AllLines
  <2>2. s \in Seq(AllLines) /\ Len(s) = 1 /\ s[1] = <<e, 1>>
    BY <2>1
  <2> HIDE DEF s
  <2>3. 1..Len(s) = {1}
    BY <2>2
  <2>4. Range(s) = {s[i] : i \in 1..Len(s)} /\ (IsInjective(s) <=> \A i, j \in 1..Len(s) : s[i] = s[j] => i = j)
    BY <2>2, Elements
  <2> QED
    BY <2>2, <2>3, <2>4 DEF s, EventLines
<1> QED
  BY <1>1, <1>2

\* Landing moves lines from the buffer to the end of the journal, and loses none.
LEMMA Lands ==
  ASSUME TypeOK, NEW lines \in Seq(AllLines), NEW n \in 0..Len(lines), Land(lines, n)
  PROVE  /\ journal' \in Seq(AllLines) /\ buffer' \in Seq(AllLines)
         /\ IsPrefix(journal, journal')
         /\ Lines' = Range(journal) \cup Range(lines)
         /\ Range(journal') = Range(journal) \cup {lines[i] : i \in 1..n}
         /\ Range(buffer') = {lines[i] : i \in n + 1..Len(lines)}
         /\ n = Len(lines) => Range(buffer') = {}
         /\ \A X : OnceBut(journal, X) /\ OnceBut(lines, X) /\ Range(journal) \cap Range(lines) \subseteq X =>
              OnceBut(journal', X) /\ OnceBut(buffer', X) /\ Range(journal') \cap Range(buffer') \subseteq X
<1> DEFINE landed == SubSeq(lines, 1, n)
           rest   == SubSeq(lines, n + 1, Len(lines))
<1>1. journal \in Seq(AllLines) /\ Len(lines) \in Nat /\ n \in Nat /\ Len(journal) \in Nat
  BY DEF TypeOK
<1>2. /\ landed \in Seq(AllLines) /\ Len(landed) = n - 1 + 1 /\ Range(landed) = {lines[i] : i \in 1..n}
      /\ \A X : OnceBut(lines, X) => OnceBut(landed, X)
  <2>1. 1 \in 1..Len(lines) + 1 /\ n >= 1 - 1
    BY <1>1
  <2> QED
    BY <2>1, Part
<1>3. /\ rest \in Seq(AllLines) /\ Range(rest) = {lines[i] : i \in n + 1..Len(lines)}
      /\ \A X : OnceBut(lines, X) => OnceBut(rest, X)
  <2>1. PICK m, l : m = n + 1 /\ l = Len(lines)
    OBVIOUS
  <2>2. m \in 1..Len(lines) + 1 /\ l \in 0..Len(lines) /\ l >= m - 1
    BY <1>1, <2>1
  <2>3. /\ SubSeq(lines, m, l) \in Seq(AllLines) /\ Range(SubSeq(lines, m, l)) = {lines[i] : i \in m..l}
        /\ \A X : OnceBut(lines, X) => OnceBut(SubSeq(lines, m, l), X)
    BY <2>2, Part
  <2> QED
    BY <2>1, <2>3
<1>4. Range(lines) = {lines[i] : i \in 1..Len(lines)}
      /\ \A X : OnceBut(lines, X) => \A i, j \in 1..Len(lines) : lines[i] = lines[j] => i = j \/ lines[i] \in X
  BY Elements
<1>5. journal' = journal \o landed /\ buffer' = rest
  BY DEF Land
<1> HIDE DEF landed, rest
<1>6. /\ journal' \in Seq(AllLines) /\ Range(journal') = Range(journal) \cup Range(landed)
      /\ \A X : OnceBut(journal, X) /\ OnceBut(landed, X) /\ Range(journal) \cap Range(landed) \subseteq X => OnceBut(journal', X)
  BY <1>1, <1>2, <1>5, InARow
<1>7. IsPrefix(journal, journal')
  <2>0. /\ Len(journal \o landed) = Len(journal) + Len(landed) /\ Len(landed) \in Nat
        /\ \A i \in 1..Len(journal) + Len(landed) :
             (journal \o landed)[i] = IF i <= Len(journal) THEN journal[i] ELSE landed[i - Len(journal)]
    <3>1. journal \in Seq(AllLines) /\ landed \in Seq(AllLines) /\ Len(landed) \in Nat
      BY <1>1, <1>2
    <3> QED
      BY <3>1, ConcatProperties
  <2>1. /\ Len(journal') = Len(journal) + Len(landed) /\ Len(landed) \in Nat
        /\ \A i \in 1..Len(journal) + Len(landed) :
             journal'[i] = IF i <= Len(journal) THEN journal[i] ELSE landed[i - Len(journal)]
    BY <1>5, <2>0
  <2>2. PICK m : m = Len(journal)
    OBVIOUS
  <2>3. m \in Nat /\ m <= Len(journal') /\ \A i \in 1..m : journal'[i] = journal[i]
    BY <1>1, <2>1, <2>2
  <2>4. /\ SubSeq(journal, 1, m) \in Seq(AllLines) /\ Len(SubSeq(journal, 1, m)) = m - 1 + 1
        /\ \A i \in 1..m - 1 + 1 : SubSeq(journal, 1, m)[i] = journal[1 + i - 1]
    <3>1. 1 \in 1..Len(journal) + 1 /\ m \in 0..Len(journal) /\ m >= 1 - 1
      BY <1>1, <2>2
    <3> QED
      BY <1>1, <3>1, Part
  <2>5. /\ SubSeq(journal', 1, m) \in Seq(AllLines) /\ Len(SubSeq(journal', 1, m)) = m - 1 + 1
        /\ \A i \in 1..m - 1 + 1 : SubSeq(journal', 1, m)[i] = journal'[1 + i - 1]
    <3>1. Len(journal') \in Nat /\ 1 \in 1..Len(journal') + 1 /\ m \in 0..Len(journal') /\ m >= 1 - 1
      BY <1>6, <2>3
    <3> QED
      BY <1>6, <3>1, Part
  <2>6. \A i \in 1..m : SubSeq(journal, 1, m)[i] = SubSeq(journal', 1, m)[i]
    BY <2>3, <2>4, <2>5
  <2>7. Len(SubSeq(journal, 1, m)) = m /\ Len(SubSeq(journal', 1, m)) = m
    BY <2>3, <2>4, <2>5
  <2>8. SubSeq(journal, 1, m) = SubSeq(journal', 1, m)
    BY <2>4, <2>5, <2>6, <2>7, SeqEqual
  <2> QED
    BY <2>2, <2>3, <2>8 DEF IsPrefix
<1>8. Range(landed) \cup Range(rest) = Range(lines)
  <2>1. \A i \in 1..Len(lines) : i \in 1..n \/ i \in n + 1..Len(lines)
    BY <1>1
  <2>2. \A i \in 1..n : i \in 1..Len(lines)
    BY <1>1
  <2>3. \A i \in n + 1..Len(lines) : i \in 1..Len(lines)
    BY <1>1
  <2> QED
    BY <1>2, <1>3, <1>4, <2>1, <2>2, <2>3
<1>9. \A X : OnceBut(lines, X) => Range(landed) \cap Range(rest) \subseteq X
  <2>1. \A i \in 1..n, j \in n + 1..Len(lines) : i \in 1..Len(lines) /\ j \in 1..Len(lines) /\ i # j
    BY <1>1
  <2> QED
    BY <1>2, <1>3, <1>4, <2>1
<1>10. n = Len(lines) => n + 1..Len(lines) = {}
  BY <1>1
<1>11. ASSUME NEW X, OnceBut(journal, X), OnceBut(lines, X), Range(journal) \cap Range(lines) \subseteq X
       PROVE  OnceBut(journal', X) /\ OnceBut(buffer', X) /\ Range(journal') \cap Range(buffer') \subseteq X
  <2>1. OnceBut(landed, X) /\ OnceBut(rest, X) /\ Range(landed) \cap Range(rest) \subseteq X
    BY <1>2, <1>3, <1>9, <1>11
  <2>2. Range(landed) \subseteq Range(lines) /\ Range(rest) \subseteq Range(lines)
    BY <1>8
  <2>3. OnceBut(journal', X)
    BY <1>6, <1>11, <2>1, <2>2
  <2> QED
    BY <1>5, <1>6, <1>11, <2>1, <2>2, <2>3
<1> QED
  BY <1>2, <1>3, <1>5, <1>6, <1>7, <1>8, <1>10, <1>11 DEF Lines

\* A key that is remembered is among the last ones, and no key goes but the oldest.
LEMMA Remembers ==
  ASSUME NEW done \in Seq(Keys), Len(done) <= CompletedLimit, NEW k \in Keys
  PROVE  LET new == RememberCompleted(done, k) IN
         /\ new \in Seq(Keys) /\ Len(new) <= CompletedLimit
         /\ k \in Range(new) /\ Range(new) \subseteq Range(done) \cup {k}
         /\ Range(done) \subseteq Range(new) \cup Oldest(done, k)
         /\ Oldest(done, k) \subseteq Keys
<1> DEFINE longer == Append(done, k)
           new == RememberCompleted(done, k)
<1>1. CompletedLimit \in Nat /\ CompletedLimit >= 1 /\ Len(done) \in Nat
  BY RecorderAssumption
<1>2. Contains(done, k) <=> k \in Range(done)
  BY Elements
<1>3. CASE k \in Range(done)
  <2>1. new = done
    BY <1>1, <1>2, <1>3 DEF RememberCompleted
  <2>2. Oldest(done, k) = {}
    BY <1>2, <1>3 DEF Oldest
  <2> QED
    BY <1>3, <2>1, <2>2
<1>4. CASE k \notin Range(done)
  <2>3. longer \in Seq(Keys) /\ Range(longer) = Range(done) \cup {k}
    BY <1>4, OneMore
  <2>4. Len(longer) = Len(done) + 1 /\ longer[Len(done) + 1] = k /\ (Len(done) >= 1 => longer[1] = done[1])
    OBVIOUS
  <2> HIDE DEF longer
  <2>5. new = IF Len(longer) > CompletedLimit THEN Tail(longer) ELSE longer
    BY <1>2, <1>4 DEF RememberCompleted, longer
  <2>6. CASE Len(longer) <= CompletedLimit
    <3>1. new = longer /\ Oldest(done, k) = {}
      BY <1>1, <2>4, <2>5, <2>6 DEF Oldest
    <3> QED
      BY <2>3, <2>6, <3>1
  <2>7. CASE Len(longer) > CompletedLimit
    <3>1. new = Tail(longer) /\ 1 \in DOMAIN longer
      BY <1>1, <2>3, <2>4, <2>5, <2>7
    <3>2. /\ new \in Seq(Keys) /\ Len(new) = Len(done) /\ Range(new) \subseteq Range(done) \cup {k}
          /\ Range(longer) \subseteq Range(new) \cup {longer[1]}
      BY <1>1, <2>3, <2>4, <3>1, Rest
    <3>3. k \in Range(new)
      <4>1. PICK m : m = Len(done)
        OBVIOUS
      <4>2. m \in 1..Len(new) /\ m + 1 = Len(longer)
        BY <1>1, <2>4, <2>7, <3>2, <4>1
      <4>3. new[m] = longer[m + 1]
        BY <2>3, <3>1, <4>2, HeadTailProperties, EmptySeq
      <4> QED
        BY <2>4, <3>2, <4>1, <4>2, <4>3, Elements
    <3>4. Oldest(done, k) = {done[1]} /\ longer[1] = done[1] /\ done[1] \in Keys
      <4>1. Len(done) = CompletedLimit /\ Len(done) >= 1
        BY <1>1, <2>4, <2>7
      <4>2. Head(done) = done[1] /\ done[1] \in Keys
        BY <4>1
      <4> QED
        BY <1>2, <1>4, <2>4, <4>1, <4>2 DEF Oldest
    <3> QED
      BY <2>3, <3>2, <3>3, <3>4
  <2> QED
    BY <1>1, <2>4, <2>6, <2>7
<1> QED
  BY <1>3, <1>4

----------------------------------------------------------------------------
(* What a step may change *)

\* A request the worker takes has waited, and does not wait any more.
LEMMA Takes ==
  ASSUME TypeOK, RequestInv, NEW r \in Upcoming
  PROVE  /\ r \in Waiting /\ r \in Request /\ r \in asked
         /\ IF r.of = None THEN r.key \in Events
            ELSE /\ r.key \in Keys /\ r.of \in Callers /\ deferred = None
                 /\ caller[r.of].pc = "asking" /\ caller[r.of].key = r.key
         /\ queue' = (IF deferred # None THEN queue ELSE Tail(queue)) =>
              /\ queue' \in Seq(Request) /\ IsInjective(queue') /\ r \notin Range(queue')
              /\ Range(queue') \subseteq Range(queue)
<1>1. queue \in Seq(Request) /\ Len(queue) \in Nat /\ Range(queue) \subseteq Request
      /\ DOMAIN queue = 1..Len(queue) /\ (deferred # None => deferred \in Request)
  BY Elements DEF TypeOK
<1>2. CASE deferred # None
  <2>1. r = deferred /\ r \in Waiting
    BY <1>2 DEF Upcoming, Waiting
  <2> QED
    BY <1>1, <1>2, <2>1 DEF RequestInv
<1>3. CASE deferred = None
  <2>1. 1 \in DOMAIN queue /\ r = queue[1]
    BY <1>3 DEF Upcoming
  <2>2. /\ Tail(queue) \in Seq(Request) /\ r \in Range(queue) /\ Range(Tail(queue)) \subseteq Range(queue)
        /\ IsInjective(Tail(queue)) /\ r \notin Range(Tail(queue))
    BY <1>1, <2>1, Rest DEF RequestInv
  <2>3. r \in Waiting /\ r \in Request /\ r \in asked
    BY <1>1, <2>2 DEF Waiting, RequestInv
  <2>4. r.of # None => r.of \in Callers /\ caller[r.of].pc = "asking" /\ caller[r.of].key = r.key
    BY <2>3 DEF RequestInv, Request
  <2> QED
    BY <1>3, <2>2, <2>3, <2>4 DEF RequestInv
<1> QED
  BY <1>2, <1>3

\* what is written of the lines, and what the worker remembers of the batches
Stores(lines, n, done, staged) == Land(lines, n) /\ completed' = done /\ pending' = staged

\* the keys that are no longer remembered once the staged batch is resumed
Drops == IF pending = None THEN {} ELSE Oldest(completed, pending)

Rests ==
  UNCHANGED <<journal, buffer, completed, pending, forgotten>> /\ acked' \subseteq acked \cup Range(completed)
Flushes ==
  /\ \E n \in 0..Len(buffer) : Stores(buffer, n, completed, pending) /\ acked' = acked
  /\ forgotten' = forgotten
Resumes ==
  /\ Stores(buffer, Len(buffer), Resumed, None) /\ acked' \subseteq acked \cup ({pending} \ {None})
  /\ forgotten' = forgotten \cup Drops
Persists(k) ==
  /\ Stores(buffer \o BatchLines(k), Len(buffer \o BatchLines(k)), RememberCompleted(Resumed, k), None)
  /\ acked' = acked \cup {k} /\ forgotten' = forgotten \cup Oldest(Resumed, k) \cup Drops
StagesBatch(k) ==
  /\ \E n \in 0..2 : Stores(buffer \o BatchLines(k), Len(buffer) + n, Resumed, k) /\ acked' = acked
  /\ forgotten' = forgotten \cup Drops
Records(e) ==
  /\ \E n \in 0..Len(buffer \o EventLines(e)) :
       /\ pending # None => n >= Len(buffer)
       /\ Stores(buffer \o EventLines(e), n, Resumed, None) /\ acked' = acked
  /\ forgotten' = forgotten \cup Drops
Restarts ==
  /\ forgotten' = forgotten /\ journal' = journal /\ buffer' = <<>> /\ completed' = <<>> /\ pending' = None /\ acked' = acked
  /\ queue' = <<>> /\ deferred' = None /\ caller' = [c \in Callers |-> NotAsking] /\ asked' = asked

\* Every step leaves the lines alone, lands some of them, resumes what is staged,
\* persists or stages a batch that waited and is not remembered, records an event that
\* waited, or restarts the process.
LEMMA WorkerMoves ==
  ASSUME TypeOK, RequestInv, [Next]_vars
  PROVE  /\ acked \subseteq acked'
         /\ \/ Rests \/ Flushes \/ Resumes \/ Restarts
            \/ \E r \in Waiting : /\ r.of \in Callers /\ r.key \in Keys /\ Asks(r.of, r.key)
                                  /\ r.key \notin Range(completed) /\ pending # r.key
                                  /\ Persists(r.key) \/ StagesBatch(r.key)
            \/ \E r \in Waiting : r.of = None /\ r.key \in Events /\ r \notin Waiting' /\ Records(r.key)
<1>1. buffer \in Seq(AllLines) /\ completed \in Seq(Keys) /\ Len(buffer) \in Nat /\ pending \in Keys \cup {None}
  BY DEF TypeOK
<1>2. \A k : Contains(completed, k) <=> k \in Range(completed)
  BY <1>1, Elements
<1>3. CASE (\E e \in Events : Post(e)) \/ (\E c \in Callers, k \in Keys : Begin(c, k))
           \/ (\E c \in Callers : RetryFrozen(c)) \/ CallerReacts \/ UNCHANGED vars
  BY <1>3 DEF Post, Begin, RetryFrozen, CallerReacts, TryAgain, Exhaust, vars, worker, Rests
<1>4. ASSUME NEW r \in Upcoming, HandleDurable(r)
      PROVE  /\ acked \subseteq acked'
             /\ \/ Rests \/ Flushes \/ Resumes
                \/ /\ r \in Waiting /\ r.of \in Callers /\ r.key \in Keys /\ Asks(r.of, r.key)
                   /\ r.key \notin Range(completed) /\ pending # r.key
                   /\ Persists(r.key) \/ StagesBatch(r.key)
  <2>1. r \in Waiting /\ r.of \in Callers /\ r.key \in Keys /\ Asks(r.of, r.key) /\ r.key # None
    BY <1>4, Takes, RecorderAssumption DEF HandleDurable, IsDurable, Asks
  <2>2. CASE AlreadyDurable(r)
    BY <1>2, <2>2 DEF AlreadyDurable, Answer, Rests
  <2>3. CASE Blocked(r)
    BY <2>3 DEF Blocked, Answer, LandSome, Flushes, Stores
  <2>4. CASE ResumedIsEnough(r)
    BY <2>1, <2>4 DEF ResumedIsEnough, Answer, LandAll, Resume, Resumes, Stores, Drops
  <2>5. CASE Persisted(r)
    BY <1>2, <2>1, <2>5 DEF Persisted, Stages, Answer, LandAll, Persists, Stores, Drops
  <2>6. CASE Staged(r)
    BY <1>2, <2>1, <2>6 DEF Staged, Stages, Answer, Resume, StagesBatch, Stores, Drops
  <2> QED
    BY <1>4, <2>2, <2>3, <2>4, <2>5, <2>6 DEF HandleDurable
<1>5. ASSUME NEW r \in Upcoming, HandleEvent(r)
      PROVE  /\ acked \subseteq acked'
             /\ \/ Flushes
                \/ r \in Waiting /\ r.of = None /\ r.key \in Events /\ r \notin Waiting' /\ Records(r.key)
  <2>1. r \in Waiting /\ r.of = None /\ r.key \in Events
    BY <1>5, Takes DEF HandleEvent, IsDurable
  <2>2. CASE DeferEvent(r)
    BY <1>5, <2>2 DEF DeferEvent, HandleEvent, LandSome, Flushes, Stores
  <2>3. CASE RecordEvent(r)
    <3>1. r \notin Waiting'
      BY <2>3, Takes DEF RecordEvent, Taken, Waiting
    <3>2. Len(EventLines(r.key)) = 1 /\ EventLines(r.key) \in Seq(AllLines)
      BY <2>1, LinesOfRequests
    <3>3. Len(buffer \o EventLines(r.key)) = Len(buffer) + 1
      <4>1. Len(buffer \o EventLines(r.key)) = Len(buffer) + Len(EventLines(r.key))
        BY <1>1, <3>2, ConcatProperties
      <4> QED
        BY <3>2, <4>1
    <3>4. Records(r.key)
      <4>1. \A n \in 0..1 : Len(buffer) + n \in 0..Len(buffer) + 1 /\ Len(buffer) + n >= Len(buffer)
        BY <1>1
      <4>2. acked' = acked /\ completed' = Resumed /\ pending' = None /\ forgotten' = forgotten \cup Drops
        BY <1>5, <2>3 DEF RecordEvent, HandleEvent, Resume, Drops
      <4>3. \E n \in 0..Len(buffer) + 1 :
              (pending # None => n >= Len(buffer)) /\ Land(buffer \o EventLines(r.key), n)
        BY <2>3, <3>3, <4>1 DEF RecordEvent, LandSome
      <4> QED
        BY <3>3, <4>2, <4>3 DEF Records, Stores
    <3> QED
      BY <1>5, <2>1, <3>1, <3>4 DEF HandleEvent
  <2> QED
    BY <1>5, <2>2, <2>3 DEF HandleEvent
<1>6. CASE Tick
  BY <1>1, <1>6 DEF Tick, LandAll, LandSome, Resume, Resumes, Flushes, Stores, Drops
<1>7. CASE Crash
  BY <1>7 DEF Crash, Restarts
<1> QED
  BY <1>3, <1>4, <1>5, <1>6, <1>7 DEF Next, Handle

----------------------------------------------------------------------------
(* Requests *)

CallerStates == [pc : {"idle", "asking", "told", "refused"}, key : Keys \cup {None},
                 attempt : 0 .. REQUIRED_RECORDER_ATTEMPTS]

\* the caller is told, or given the batch up, or freezes it
Becomes(c, x) == caller' = [caller EXCEPT ![c] = x]

Sends(c, k) ==
  /\ caller[c].pc # "asking"
  /\ \E n \in 1..REQUIRED_RECORDER_ATTEMPTS : Becomes(c, [pc |-> "asking", key |-> k, attempt |-> n])
  /\ asked' = asked \cup {[of |-> c, key |-> k]} /\ Send(c, k) /\ UNCHANGED <<deferred, counts>>

Serves(r) ==
  /\ queue' = IF deferred # None THEN queue ELSE Tail(queue)
  /\ IF r.of = None THEN deferred' \in {None, r} /\ caller' = caller
     ELSE deferred' = None /\ \/ Becomes(r.of, NotAsking)
                              \/ Becomes(r.of, [caller[r.of] EXCEPT !.pc = "told"])
  /\ UNCHANGED <<asked, crashes>> /\ (faults' = faults \/ Fault)

GivesUp(c) ==
  /\ caller[c].pc = "told"
  /\ Becomes(c, NotAsking) \/ Becomes(c, [caller[c] EXCEPT !.pc = "refused"])
  /\ UNCHANGED <<queue, deferred, asked, counts>>

Starts == Restarts /\ crashes < MaxCrashes /\ crashes' = crashes + 1 /\ faults' = faults

Idles == UNCHANGED <<queue, deferred, asked, caller, crashes>> /\ (faults' = faults \/ Fault)

\* Every step posts an event, sends the batch of a caller, serves a request, lets a
\* caller give up, restarts the process, or leaves the requests alone.
LEMMA RequestMoves ==
  ASSUME TypeOK, RequestInv, [Next]_vars
  PROVE  \/ \E e \in Events : Post(e)
         \/ \E c \in Callers, k \in Keys : Sends(c, k)
         \/ \E r \in Upcoming : Serves(r)
         \/ \E c \in Callers : GivesUp(c)
         \/ Starts \/ Idles
<1>1. ASSUME NEW c \in Callers, NEW k \in Keys, Begin(c, k)
      PROVE  Sends(c, k)
  BY <1>1 DEF Begin, Ask, Sends, Becomes, worker, REQUIRED_RECORDER_ATTEMPTS, counts
<1>2. ASSUME NEW c \in Callers, TryAgain(c) \/ RetryFrozen(c)
      PROVE  \E k \in Keys : Sends(c, k)
  <2>1. PICK k : k = caller[c].key
    OBVIOUS
  <2>2. k \in Keys /\ asked = asked \cup {[of |-> c, key |-> k]} /\ caller[c].pc # "asking"
    BY <1>2, <2>1 DEF RequestInv, TryAgain, RetryFrozen
  <2>3. \E n \in 1..REQUIRED_RECORDER_ATTEMPTS : Ask(c, k, n)
    <3>1. CASE TryAgain(c)
      <4>1. caller[c].attempt \in 0..REQUIRED_RECORDER_ATTEMPTS
        BY DEF TypeOK
      <4>2. caller[c].attempt + 1 \in 1..REQUIRED_RECORDER_ATTEMPTS
        BY <3>1, <4>1 DEF TryAgain, REQUIRED_RECORDER_ATTEMPTS
      <4> QED
        BY <2>1, <3>1, <4>2 DEF TryAgain
    <3>2. CASE RetryFrozen(c)
      BY <2>1, <3>2 DEF RetryFrozen, REQUIRED_RECORDER_ATTEMPTS
    <3> QED
      BY <1>2, <3>1, <3>2
  <2> QED
    BY <1>2, <2>2, <2>3 DEF TryAgain, RetryFrozen, Sends, Ask, Becomes, worker
<1>3. ASSUME NEW c \in Callers, Exhaust(c)
      PROVE  GivesUp(c)
  BY <1>3 DEF Exhaust, GivesUp, Becomes, worker
<1>4. ASSUME NEW r \in Upcoming, HandleDurable(r)
      PROVE  Serves(r)
  <2>1. r.of # None
    BY <1>4 DEF HandleDurable, IsDurable
  <2>2. /\ \E ok \in BOOLEAN : Answer(r, ok)
        /\ UNCHANGED <<asked, crashes>> /\ (faults' = faults \/ Fault)
    BY <1>4 DEF HandleDurable, AlreadyDurable, Blocked, ResumedIsEnough, Persisted, Staged
  <2> QED
    BY <2>1, <2>2 DEF Serves, Answer, Taken, Becomes
<1>5. ASSUME NEW r \in Upcoming, HandleEvent(r)
      PROVE  Serves(r)
  BY <1>5 DEF HandleEvent, IsDurable, RecordEvent, DeferEvent, Serves, Taken
<1>6. CASE Tick
  BY <1>6 DEF Tick, Idles
<1>7. CASE Crash
  BY <1>7 DEF Crash, Starts, Restarts
<1>8. CASE UNCHANGED vars
  BY <1>8 DEF vars, worker, counts, Idles
<1> QED
  BY <1>1, <1>2, <1>3, <1>4, <1>5, <1>6, <1>7, <1>8 DEF Next, Handle, CallerReacts

\* A caller asks for the same batch until it is answered or gives it up, and what is
\* asked for anew was never asked for, or is being asked for by another caller.
LEMMA CallerMoves ==
  ASSUME TypeOK, RequestInv, [Next]_vars, NEW c \in Callers
  PROVE  /\ asked \subseteq asked'
         /\ \/ caller'[c] = caller[c] \/ caller'[c].pc = "idle"
            \/ caller[c].pc # "idle" /\ caller'[c].key = caller[c].key
            \/ \E k \in Keys : Begin(c, k) /\ caller'[c].key = k
<1> USE DEF TypeOK
<1>1. CASE \E e \in Events : Post(e)
  BY <1>1 DEF Post
<1>2. ASSUME NEW d \in Callers, NEW k \in Keys, Begin(d, k)
      PROVE  asked \subseteq asked' /\ (c # d => caller'[c] = caller[c]) /\ (c = d => caller'[c].key = k)
  <2>1. caller' = [caller EXCEPT ![d] = [pc |-> "asking", key |-> k, attempt |-> 1]]
    BY <1>2 DEF Begin, Ask
  <2> QED
    BY <1>2, <2>1 DEF Begin
<1>3. ASSUME NEW d \in Callers, TryAgain(d) \/ RetryFrozen(d)
      PROVE  asked' = asked /\ (c # d => caller'[c] = caller[c])
             /\ (c = d => caller[c].pc # "idle" /\ caller'[c].key = caller[c].key)
  BY <1>3 DEF TryAgain, RetryFrozen, Ask
<1>4. ASSUME NEW d \in Callers, Exhaust(d)
      PROVE  asked' = asked /\ (c # d => caller'[c] = caller[c])
             /\ (c = d => caller[c].pc # "idle" /\ (caller'[c].pc = "idle" \/ caller'[c].key = caller[c].key))
  BY <1>4 DEF Exhaust, NotAsking
<1>5. ASSUME NEW r \in Upcoming, HandleDurable(r)
      PROVE  asked' = asked /\ (c # r.of => caller'[c] = caller[c])
             /\ (c = r.of => caller[c].pc # "idle" /\ (caller'[c].pc = "idle" \/ caller'[c].key = caller[c].key))
  <2>1. caller[r.of].pc = "asking" /\ r.of \in Callers
    BY <1>5, Takes DEF HandleDurable, IsDurable
  <2>2. asked' = asked /\ \E ok \in BOOLEAN : Answer(r, ok)
    BY <1>5 DEF HandleDurable, AlreadyDurable, Blocked, ResumedIsEnough, Persisted, Staged
  <2> QED
    BY <2>1, <2>2 DEF Answer, NotAsking
<1>6. ASSUME NEW r \in Upcoming, HandleEvent(r)
      PROVE  asked' = asked /\ caller' = caller
  BY <1>6 DEF HandleEvent
<1>7. CASE Tick \/ UNCHANGED vars
  BY <1>7 DEF Tick, vars
<1>8. CASE Crash
  BY <1>8 DEF Crash, NotAsking
<1> QED
  BY <1>1, <1>2, <1>3, <1>4, <1>5, <1>6, <1>7, <1>8 DEF Next, Handle, CallerReacts

\* Who waits, waits once and is asking.
LEMMA RequestNext ==
  ASSUME TypeOK, RequestInv, [Next]_vars
  PROVE  RequestInv'
<1>1. queue \in Seq(Request) /\ Range(queue) \subseteq Request /\ None \notin Keys \cup Events \cup Callers
      /\ caller \in [Callers -> CallerStates]
  BY Elements, RecorderAssumption DEF TypeOK, CallerStates
<1>2. \A r, w \in Request : r.of = w.of /\ r.key = w.key => r = w
  BY DEF Request
<1>3. ASSUME NEW e \in Events, Post(e)
      PROVE  RequestInv'
  <2>1. PICK r : r = [of |-> None, key |-> e]
    OBVIOUS
  <2>2. r \in Request /\ r.of = None /\ r.key = e /\ r \notin asked /\ asked' = asked \cup {r}
        /\ queue' = Append(queue, r) /\ UNCHANGED <<deferred, caller>>
    BY <1>3, <2>1 DEF Post, Send, worker, Request
  <2>3. r \notin Range(queue) /\ (deferred # None => r # deferred)
    BY <2>2 DEF RequestInv, Waiting
  <2>4. Range(queue') = Range(queue) \cup {r} /\ IsInjective(queue')
    BY <1>1, <2>2, <2>3, OneMore DEF RequestInv
  <2> QED
    BY <2>2, <2>3, <2>4 DEF RequestInv, Waiting
<1>4. ASSUME NEW c \in Callers, NEW k \in Keys, Sends(c, k)
      PROVE  RequestInv'
  <2>1. PICK r : r = [of |-> c, key |-> k]
    OBVIOUS
  <2>2. r \in Request /\ r.of = c /\ r.key = k /\ c # None /\ asked' = asked \cup {r}
        /\ queue' = Append(queue, r) /\ deferred' = deferred
    BY <1>1, <1>4, <2>1 DEF Sends, Send, Request
  <2>3. r \notin Range(queue)
    BY <1>4, <2>2 DEF RequestInv, Waiting, Sends
  <2>4. Range(queue') = Range(queue) \cup {r} /\ IsInjective(queue')
    BY <1>1, <2>2, <2>3, OneMore DEF RequestInv
  <2>5. \A d \in Callers : IF d = c THEN caller'[d].pc = "asking" /\ caller'[d].key = k
                           ELSE caller'[d] = caller[d]
    BY <1>1, <1>4 DEF Sends, Becomes
  <2>6. \A w \in Waiting : w.of # None => w.of \in Callers /\ w.of # c
    BY <1>1, <1>4, RecorderAssumption DEF RequestInv, Waiting, Sends, Request
  <2>7. Waiting' = Waiting \cup {r}
    BY <2>2, <2>4 DEF Waiting
  <2>8. deferred' # None => deferred'.of = None /\ deferred' \notin Range(queue')
    BY <2>2, <2>4 DEF RequestInv
  <2>9. \A d \in Callers : IF caller'[d].pc = "idle" THEN caller'[d] = NotAsking
                           ELSE caller'[d].key \in Keys /\ [of |-> d, key |-> caller'[d].key] \in asked'
    BY <2>1, <2>2, <2>5 DEF RequestInv
  <2>10. \A w \in Waiting' : w \in asked' /\ (w.of # None => caller'[w.of].pc = "asking" /\ caller'[w.of].key = w.key)
    BY <2>2, <2>5, <2>6, <2>7 DEF RequestInv
  <2> QED
    BY <2>2, <2>4, <2>8, <2>9, <2>10 DEF RequestInv
<1>5. ASSUME NEW r \in Upcoming, Serves(r)
      PROVE  RequestInv'
  <2>1. r \in Waiting /\ r \in Request
        /\ IsInjective(queue') /\ r \notin Range(queue') /\ Range(queue') \subseteq Range(queue)
    BY <1>5, Takes DEF Serves
  <2>2. Waiting' \subseteq Waiting /\ \A w \in Waiting' : w.of # None => w \in Range(queue')
    BY <1>5, <2>1 DEF Serves, Waiting
  <2>3. \A w \in Waiting' : w.of # None => w.of \in Callers /\ w.of # r.of
    BY <1>1, <1>2, <2>1, <2>2 DEF RequestInv, Request
  <2>4. r.of # None => r.of \in Callers /\ caller[r.of].pc = "asking"
    BY <2>1 DEF RequestInv, Request
  <2>5. \A d \in Callers : caller'[d] = caller[d] \/ (r.of = d /\ caller'[d] = NotAsking)
                           \/ (r.of = d /\ caller'[d].pc = "told" /\ caller'[d].key = caller[d].key /\ caller[d].pc # "idle")
    <3>1. CASE r.of = None
      BY <1>5, <3>1 DEF Serves
    <3>2. CASE r.of # None
      <4>1. caller[r.of] \in CallerStates /\ r.of \in Callers
        BY <1>1, <2>4, <3>2
      <4>2. PICK x : Becomes(r.of, x) /\ (x = NotAsking \/ x = [caller[r.of] EXCEPT !.pc = "told"])
        BY <1>5, <3>2 DEF Serves
      <4>3. x = NotAsking \/ (x.pc = "told" /\ x.key = caller[r.of].key)
        BY <4>1, <4>2 DEF CallerStates
      <4> QED
        BY <1>1, <2>4, <3>2, <4>1, <4>2, <4>3 DEF Becomes
    <3> QED
      BY <3>1, <3>2
  <2>6. asked' = asked /\ (deferred' # None => deferred'.of = None /\ deferred' \notin Range(queue'))
    BY <1>5, <2>1 DEF Serves, RequestInv
  <2>7. \A w \in Waiting' : w \in asked' /\ (w.of # None => caller'[w.of].pc = "asking" /\ caller'[w.of].key = w.key)
    BY <2>2, <2>3, <2>5, <2>6 DEF RequestInv
  <2>8. \A d \in Callers : IF caller'[d].pc = "idle" THEN caller'[d] = NotAsking
                           ELSE caller'[d].key \in Keys /\ [of |-> d, key |-> caller'[d].key] \in asked'
    BY <2>5, <2>6 DEF RequestInv, NotAsking
  <2> QED
    BY <2>1, <2>6, <2>7, <2>8 DEF RequestInv
<1>6. ASSUME NEW c \in Callers, GivesUp(c)
      PROVE  RequestInv'
  <2>1. UNCHANGED <<queue, deferred, asked, Waiting>> /\ caller[c].pc = "told"
    BY <1>6 DEF GivesUp, Waiting
  <2>2. \A d \in Callers : caller'[d] = caller[d] \/ (c = d /\ caller'[d] = NotAsking)
                           \/ (c = d /\ caller'[d].pc = "refused" /\ caller'[d].key = caller[d].key /\ caller[d].pc # "idle")
    BY <1>1, <1>6 DEF GivesUp, Becomes, CallerStates
  <2>3. \A w \in Waiting' : w.of # None => w.of \in Callers /\ w.of # c
    BY <1>1, <2>1 DEF RequestInv, Request, Waiting
  <2>4. \A d \in Callers : IF caller'[d].pc = "idle" THEN caller'[d] = NotAsking
                           ELSE caller'[d].key \in Keys /\ [of |-> d, key |-> caller'[d].key] \in asked'
    BY <2>1, <2>2 DEF RequestInv, NotAsking
  <2>5. \A w \in Waiting' : w \in asked' /\ (w.of # None => caller'[w.of].pc = "asking" /\ caller'[w.of].key = w.key)
    BY <2>1, <2>2, <2>3 DEF RequestInv
  <2> QED
    BY <2>1, <2>4, <2>5 DEF RequestInv
<1>7. CASE Starts
  <2>1. Range(queue') = {} /\ IsInjective(queue') /\ deferred' = None /\ asked' = asked
        /\ caller' = [d \in Callers |-> NotAsking]
    BY <1>7 DEF Starts, Restarts, Range, IsInjective
  <2> QED
    BY <2>1 DEF RequestInv, Waiting, NotAsking
<1>8. CASE Idles
  BY <1>8 DEF Idles, RequestInv, Waiting
<1> QED
  BY <1>3, <1>4, <1>5, <1>6, <1>7, <1>8, RequestMoves

\* Every step keeps the types.
LEMMA TypeNext ==
  ASSUME TypeOK, RequestInv, [Next]_vars
  PROVE  TypeOK'
<1>1. queue \in Seq(Request) /\ deferred \in Request \cup {None} /\ caller \in [Callers -> CallerStates]
      /\ asked \subseteq Request /\ faults \in 0..MaxFaults /\ crashes \in 0..MaxCrashes
      /\ MaxFaults \in Nat /\ MaxCrashes \in Nat
      /\ completed \in Seq(Keys) /\ Len(completed) <= CompletedLimit
      /\ buffer \in Seq(AllLines) /\ journal \in Seq(AllLines) /\ acked \subseteq Keys
      /\ pending \in Keys \cup {None} /\ CompletedLimit \in Nat /\ forgotten \subseteq Keys
  BY RecorderAssumption DEF TypeOK, CallerStates
<1>2. queue' \in Seq(Request) /\ deferred' \in Request \cup {None} /\ caller' \in [Callers -> CallerStates]
      /\ asked' \subseteq Request /\ faults' \in 0..MaxFaults /\ crashes' \in 0..MaxCrashes
  <2>1. ASSUME NEW e \in Events, Post(e)
        PROVE  queue' \in Seq(Request) /\ asked' \subseteq Request /\ UNCHANGED <<deferred, caller, faults, crashes>>
    <3>1. [of |-> None, key |-> e] \in Request
      BY DEF Request
    <3> QED
      BY <1>1, <2>1, <3>1, OneMore DEF Post, Send, worker, counts
  <2>2. ASSUME NEW c \in Callers, NEW k \in Keys, Sends(c, k)
        PROVE  queue' \in Seq(Request) /\ asked' \subseteq Request /\ caller' \in [Callers -> CallerStates]
               /\ UNCHANGED <<deferred, faults, crashes>>
    <3>1. [of |-> c, key |-> k] \in Request
      BY DEF Request
    <3>2. \A n \in 1..REQUIRED_RECORDER_ATTEMPTS : [pc |-> "asking", key |-> k, attempt |-> n] \in CallerStates
      BY DEF CallerStates, REQUIRED_RECORDER_ATTEMPTS
    <3>3. caller' \in [Callers -> CallerStates]
      BY <1>1, <2>2, <3>2 DEF Sends, Becomes
    <3> QED
      BY <1>1, <2>2, <3>1, <3>3, OneMore DEF Sends, Send, counts
  <2>3. NotAsking \in CallerStates
        /\ \A x \in CallerStates : [x EXCEPT !.pc = "told"] \in CallerStates /\ [x EXCEPT !.pc = "refused"] \in CallerStates
    BY DEF CallerStates, NotAsking, REQUIRED_RECORDER_ATTEMPTS
  <2>4. faults' = faults \/ Fault => faults' \in 0..MaxFaults
    BY <1>1 DEF Fault
  <2>5. ASSUME NEW r \in Upcoming, Serves(r)
        PROVE  queue' \in Seq(Request) /\ asked' = asked /\ caller' \in [Callers -> CallerStates]
               /\ deferred' \in Request \cup {None} /\ crashes' = crashes /\ faults' \in 0..MaxFaults
    <3>1. r \in Request /\ queue' \in Seq(Request) /\ (r.of # None => r.of \in Callers)
      BY <2>5, Takes DEF Serves
    <3>2. r.of # None => caller[r.of] \in CallerStates
      BY <1>1, <3>1
    <3>3. caller' \in [Callers -> CallerStates]
      BY <1>1, <2>3, <2>5, <3>1, <3>2 DEF Serves, Becomes
    <3> QED
      BY <2>4, <2>5, <3>1, <3>3 DEF Serves
  <2>6. ASSUME NEW c \in Callers, GivesUp(c)
        PROVE  caller' \in [Callers -> CallerStates] /\ UNCHANGED <<queue, deferred, asked, faults, crashes>>
    <3>1. caller[c] \in CallerStates
      BY <1>1
    <3> QED
      BY <1>1, <2>3, <2>6, <3>1 DEF GivesUp, Becomes, counts
  <2>7. CASE Starts
    BY <1>1, <2>3, <2>7 DEF Starts, Restarts
  <2>8. CASE Idles
    BY <1>1, <2>4, <2>8 DEF Idles
  <2> QED
    BY <1>1, <2>1, <2>2, <2>5, <2>6, <2>7, <2>8, RequestMoves
<1>3. journal' \in Seq(AllLines) /\ buffer' \in Seq(AllLines)
      /\ pending' \in Keys \cup {None} /\ completed' \in Seq(Keys) /\ Len(completed') <= CompletedLimit /\ acked' \subseteq Keys
      /\ forgotten' \subseteq Keys
  <2>1. Resumed \in Seq(Keys) /\ Len(Resumed) <= CompletedLimit /\ Drops \subseteq Keys
    BY <1>1, Remembers DEF Resumed, Drops
  <2>2. Range(completed) \subseteq Keys
    BY <1>1, Elements
  <2>3. CASE Rests
    BY <1>1, <2>2, <2>3 DEF Rests
  <2>4. CASE Flushes
    BY <1>1, <2>4, Lands DEF Flushes, Stores
  <2>5. CASE Resumes
    <3>1. Len(buffer) \in 0..Len(buffer)
      BY <1>1
    <3> QED
      BY <1>1, <2>1, <2>5, <3>1, Lands DEF Resumes, Stores
  <2>6. CASE Restarts
    BY <1>1, <2>6 DEF Restarts
  <2>7. ASSUME NEW k \in Keys
        PROVE  buffer \o BatchLines(k) \in Seq(AllLines) /\ Len(buffer \o BatchLines(k)) = Len(buffer) + 2
    <3>1. BatchLines(k) \in Seq(AllLines) /\ Len(BatchLines(k)) = 2
      BY LinesOfRequests
    <3> QED
      <4>1. buffer \o BatchLines(k) \in Seq(AllLines) /\ Len(buffer \o BatchLines(k)) = Len(buffer) + Len(BatchLines(k))
        BY <1>1, <3>1, ConcatProperties
      <4> QED
        BY <3>1, <4>1
  <2>8. ASSUME NEW k \in Keys, Persists(k)
        PROVE  journal' \in Seq(AllLines) /\ buffer' \in Seq(AllLines) /\ pending' = None
               /\ completed' \in Seq(Keys) /\ Len(completed') <= CompletedLimit /\ acked' \subseteq Keys
               /\ forgotten' \subseteq Keys
    <3>1. PICK lines : lines = buffer \o BatchLines(k)
      OBVIOUS
    <3>2. lines \in Seq(AllLines) /\ Len(lines) \in 0..Len(lines) /\ Land(lines, Len(lines))
      BY <1>1, <2>7, <2>8, <3>1 DEF Persists, Stores
    <3>3. journal' \in Seq(AllLines) /\ buffer' \in Seq(AllLines)
      BY <3>2, Lands
    <3> QED
      BY <1>1, <2>1, <2>8, <3>3, Remembers DEF Persists, Stores
  <2>9. ASSUME NEW k \in Keys, StagesBatch(k)
        PROVE  journal' \in Seq(AllLines) /\ buffer' \in Seq(AllLines) /\ pending' = k
               /\ completed' = Resumed /\ acked' = acked /\ forgotten' = forgotten \cup Drops
    <3>0. PICK lines : lines = buffer \o BatchLines(k)
      OBVIOUS
    <3>1. PICK n \in 0..2 : Land(lines, Len(buffer) + n)
      BY <2>9, <3>0 DEF StagesBatch, Stores
    <3>2. lines \in Seq(AllLines) /\ Len(buffer) + n \in 0..Len(lines)
      <4>1. lines \in Seq(AllLines) /\ Len(lines) = Len(buffer) + 2 /\ Len(buffer) \in Nat
        BY <1>1, <2>7, <3>0
      <4> QED
        BY <4>1
    <3>3. journal' \in Seq(AllLines) /\ buffer' \in Seq(AllLines)
      BY <3>1, <3>2, Lands
    <3> QED
      BY <2>9, <3>3 DEF StagesBatch, Stores
  <2>10. ASSUME NEW e \in Events, Records(e)
        PROVE  journal' \in Seq(AllLines) /\ buffer' \in Seq(AllLines) /\ pending' = None
               /\ completed' = Resumed /\ acked' = acked /\ forgotten' = forgotten \cup Drops
    <3>1. PICK lines : lines = buffer \o EventLines(e)
      OBVIOUS
    <3>2. EventLines(e) \in Seq(AllLines) /\ \E n \in 0..Len(lines) : Land(lines, n)
      BY <2>10, <3>1, LinesOfRequests DEF Records, Stores
    <3>3. lines \in Seq(AllLines)
      BY <1>1, <3>1, <3>2, ConcatProperties
    <3>4. journal' \in Seq(AllLines) /\ buffer' \in Seq(AllLines)
      BY <3>2, <3>3, Lands
    <3> QED
      BY <2>10, <3>4 DEF Records, Stores
  <2> QED
    BY <1>1, <2>1, <2>3, <2>4, <2>5, <2>6, <2>8, <2>9, <2>10, WorkerMoves
<1> QED
  BY <1>2, <1>3 DEF TypeOK, CallerStates

----------------------------------------------------------------------------
(* Lines *)

\* When all of the buffer lands, and some of what came after it, what was somewhere is
\* in the journal.
LEMMA LandsFirst ==
  ASSUME TypeOK, NEW more \in Seq(AllLines), NEW n \in Nat, n >= Len(buffer), n <= Len(buffer \o more),
         Land(buffer \o more, n)
  PROVE  Lines \subseteq Range(journal') /\ Range(buffer') \subseteq Range(more)
<1>1. PICK lines : lines = buffer \o more
  OBVIOUS
<1>2. buffer \in Seq(AllLines) /\ journal \in Seq(AllLines)
  BY DEF TypeOK
<1>3. /\ lines \in Seq(AllLines) /\ Len(lines) = Len(buffer) + Len(more)
      /\ \A i \in 1..Len(buffer) + Len(more) : lines[i] = IF i <= Len(buffer) THEN buffer[i] ELSE more[i - Len(buffer)]
  BY <1>1, <1>2, ConcatProperties
<1>4. Len(buffer) \in Nat /\ Len(more) \in Nat /\ n \in 0..Len(lines)
  BY <1>1, <1>2, <1>3
<1>5. Range(journal') = Range(journal) \cup {lines[i] : i \in 1..n} /\ Range(buffer') = {lines[i] : i \in n + 1..Len(lines)}
  BY <1>1, <1>3, <1>4, Lands
<1>6. Range(buffer) = {buffer[i] : i \in 1..Len(buffer)}
  BY <1>2, Elements
<1>7. Range(more) = {more[i] : i \in 1..Len(more)}
  BY Elements
<1>8. \A i \in 1..Len(buffer) : i \in 1..n /\ lines[i] = buffer[i]
  BY <1>3, <1>4
<1>9. \A i \in n + 1..Len(lines) : i - Len(buffer) \in 1..Len(more) /\ lines[i] = more[i - Len(buffer)]
  BY <1>3, <1>4
<1>10. Range(buffer) \subseteq Range(journal')
  BY <1>5, <1>6, <1>8
<1>11. Range(buffer') \subseteq Range(more)
  BY <1>5, <1>7, <1>9
<1> QED
  BY <1>5, <1>10, <1>11 DEF Lines

\* What each move of the worker does to the lines and to the staged batch.
LEMMA Moved ==
  ASSUME TypeOK
  PROVE  /\ Rests => Lines' = Lines /\ Range(journal') = Range(journal) /\ IsPrefix(journal, journal')
         /\ Flushes => Lines' = Lines /\ Range(journal) \subseteq Range(journal') /\ IsPrefix(journal, journal')
                       /\ Range(buffer') \subseteq Range(buffer)
         /\ Resumes => Lines' = Lines /\ Range(journal') = Lines /\ IsPrefix(journal, journal')
         /\ Restarts => Lines' \subseteq Lines /\ Range(journal') = Range(journal) /\ IsPrefix(journal, journal')
                        /\ Range(buffer') = {} /\ Range(completed') = {}
         /\ \A k \in Keys : Persists(k) =>
              Lines' = Lines \cup LinesOf(k) /\ Range(journal') = Lines' /\ IsPrefix(journal, journal')
         /\ \A k \in Keys : StagesBatch(k) =>
              Lines' = Lines \cup LinesOf(k) /\ Lines \subseteq Range(journal') /\ IsPrefix(journal, journal')
              /\ Range(buffer') \subseteq LinesOf(k)
         /\ \A e \in Events : Records(e) =>
              Lines' = Lines \cup {<<e, 1>>} /\ IsPrefix(journal, journal') /\ Range(journal) \subseteq Range(journal')
              /\ (pending # None => Lines \subseteq Range(journal'))
<1>1. buffer \in Seq(AllLines) /\ journal \in Seq(AllLines) /\ Len(buffer) \in Nat
  BY DEF TypeOK
<1>2. IsPrefix(journal, journal)
  <2>1. PICK m : m = Len(journal)
    OBVIOUS
  <2>2. m \in Nat /\ m <= Len(journal)
    BY <1>1, <2>1
  <2> QED
    BY <2>1, <2>2 DEF IsPrefix
<1>3. ASSUME Rests
      PROVE  Lines' = Lines /\ Range(journal') = Range(journal) /\ IsPrefix(journal, journal')
  BY <1>2, <1>3 DEF Rests, Lines
<1>4. ASSUME Flushes
      PROVE  Lines' = Lines /\ Range(journal) \subseteq Range(journal') /\ IsPrefix(journal, journal')
             /\ Range(buffer') \subseteq Range(buffer)
  <2>1. PICK n \in 0..Len(buffer) : Land(buffer, n)
    BY <1>4 DEF Flushes, Stores
  <2>2. Lines' = Range(journal) \cup Range(buffer) /\ IsPrefix(journal, journal') /\ Range(journal) \subseteq Range(journal')
        /\ Range(buffer') = {buffer[i] : i \in n + 1..Len(buffer)}
    BY <1>1, <2>1, Lands
  <2>3. \A i \in n + 1..Len(buffer) : i \in 1..Len(buffer)
    BY <1>1
  <2>4. Range(buffer') \subseteq Range(buffer)
    BY <1>1, <2>2, <2>3, Elements
  <2> QED
    BY <2>2, <2>4 DEF Lines
<1>5. ASSUME Resumes
      PROVE  Lines' = Lines /\ Range(journal') = Lines /\ IsPrefix(journal, journal')
  <2>1. Len(buffer) \in 0..Len(buffer) /\ Land(buffer, Len(buffer))
    BY <1>1, <1>5 DEF Resumes, Stores
  <2>2. Lines' = Range(journal) \cup Range(buffer) /\ IsPrefix(journal, journal') /\ Range(buffer') = {}
    BY <1>1, <2>1, Lands
  <2> QED
    BY <2>2 DEF Lines
<1>6. ASSUME Restarts
      PROVE  Lines' \subseteq Lines /\ Range(journal') = Range(journal) /\ IsPrefix(journal, journal')
             /\ Range(buffer') = {} /\ Range(completed') = {}
  <2>1. Range(buffer') = {} /\ Range(completed') = {}
    BY <1>6 DEF Restarts, Range
  <2> QED
    BY <1>2, <1>6, <2>1 DEF Restarts, Lines
<1>7. ASSUME NEW k \in Keys
      PROVE  /\ BatchLines(k) \in Seq(AllLines) /\ buffer \o BatchLines(k) \in Seq(AllLines)
             /\ Len(buffer \o BatchLines(k)) = Len(buffer) + 2
             /\ Range(buffer \o BatchLines(k)) = Range(buffer) \cup LinesOf(k)
  <2>1. BatchLines(k) \in Seq(AllLines) /\ Len(BatchLines(k)) = 2 /\ Range(BatchLines(k)) = LinesOf(k)
    BY LinesOfRequests
  <2>2. Len(buffer \o BatchLines(k)) = Len(buffer) + Len(BatchLines(k)) /\ buffer \o BatchLines(k) \in Seq(AllLines)
    BY <1>1, <2>1, ConcatProperties
  <2>3. Range(buffer \o BatchLines(k)) = Range(buffer) \cup Range(BatchLines(k))
    BY <1>1, <2>1, InARow
  <2> QED
    BY <2>1, <2>2, <2>3
<1>8. ASSUME NEW k \in Keys, Persists(k)
      PROVE  Lines' = Lines \cup LinesOf(k) /\ Range(journal') = Lines' /\ IsPrefix(journal, journal')
  <2>1. PICK lines : lines = buffer \o BatchLines(k)
    OBVIOUS
  <2>2. lines \in Seq(AllLines) /\ Range(lines) = Range(buffer) \cup LinesOf(k) /\ Land(lines, Len(lines))
        /\ Len(lines) = Len(buffer) + 2
    BY <1>7, <1>8, <2>1 DEF Persists, Stores
  <2>3. Len(lines) \in 0..Len(lines)
    BY <1>1, <2>2
  <2>4. Lines' = Range(journal) \cup Range(lines) /\ IsPrefix(journal, journal') /\ Range(buffer') = {}
    BY <2>2, <2>3, Lands
  <2> QED
    BY <2>2, <2>4 DEF Lines
<1>9. ASSUME NEW k \in Keys, StagesBatch(k)
      PROVE  Lines' = Lines \cup LinesOf(k) /\ Lines \subseteq Range(journal') /\ IsPrefix(journal, journal')
             /\ Range(buffer') \subseteq LinesOf(k)
  <2>1. PICK m \in 0..2 : Land(buffer \o BatchLines(k), Len(buffer) + m)
    BY <1>9 DEF StagesBatch, Stores
  <2>2. PICK n : n = Len(buffer) + m
    OBVIOUS
  <2>3. PICK lines : lines = buffer \o BatchLines(k)
    OBVIOUS
  <2>4. n \in Nat /\ n >= Len(buffer) /\ n <= Len(lines) /\ n \in 0..Len(lines) /\ Land(lines, n)
    <3>1. Len(lines) = Len(buffer) + 2
      BY <1>7, <2>3
    <3>2. n \in Nat /\ n >= Len(buffer) /\ n <= Len(lines) /\ n \in 0..Len(lines)
      BY <1>1, <2>2, <3>1
    <3> QED
      BY <2>1, <2>2, <2>3, <3>2
  <2>5. lines \in Seq(AllLines) /\ Range(lines) = Range(buffer) \cup LinesOf(k)
    BY <1>7, <2>3
  <2>6. Lines' = Range(journal) \cup Range(lines) /\ IsPrefix(journal, journal')
    BY <2>4, <2>5, Lands
  <2>7. BatchLines(k) \in Seq(AllLines) /\ Range(BatchLines(k)) = LinesOf(k)
    BY LinesOfRequests
  <2>8. Lines \subseteq Range(journal') /\ Range(buffer') \subseteq LinesOf(k)
    BY <2>3, <2>4, <2>7, LandsFirst
  <2> QED
    BY <2>5, <2>6, <2>8 DEF Lines
<1>10. ASSUME NEW e \in Events, Records(e)
       PROVE  Lines' = Lines \cup {<<e, 1>>} /\ IsPrefix(journal, journal') /\ Range(journal) \subseteq Range(journal')
              /\ (pending # None => Lines \subseteq Range(journal'))
  <2>1. PICK lines : lines = buffer \o EventLines(e)
    OBVIOUS
  <2>2. PICK n \in 0..Len(lines) : (pending # None => n >= Len(buffer)) /\ Land(lines, n)
    BY <1>10, <2>1 DEF Records, Stores
  <2>3. EventLines(e) \in Seq(AllLines) /\ Range(EventLines(e)) = {<<e, 1>>}
    BY LinesOfRequests
  <2>4. lines \in Seq(AllLines) /\ Range(lines) = Range(buffer) \cup {<<e, 1>>}
    BY <1>1, <2>1, <2>3, InARow
  <2>5. Lines' = Range(journal) \cup Range(lines) /\ IsPrefix(journal, journal') /\ Range(journal) \subseteq Range(journal')
    BY <2>2, <2>4, Lands
  <2>6. n \in Nat /\ n <= Len(lines)
    BY <2>4
  <2>7. pending # None => Lines \subseteq Range(journal')
    BY <2>1, <2>2, <2>3, <2>6, LandsFirst
  <2> QED
    BY <2>4, <2>5, <2>7 DEF Lines
<1> QED
  BY <1>3, <1>4, <1>5, <1>6, <1>8, <1>9, <1>10

\* Who starts to wait is a caller, or posts an event that was never posted.
LEMMA WaitingMoves ==
  ASSUME TypeOK, RequestInv, [Next]_vars, NEW r \in Waiting'
  PROVE  \/ r \in Waiting
         \/ r.of # None
         \/ r.of = None /\ r.key \in Events /\ r \notin asked
<1>1. ASSUME NEW e \in Events, Post(e)
      PROVE  r \in Waiting \/ (r.of = None /\ r.key \in Events /\ r \notin asked)
  <2>1. PICK w : w = [of |-> None, key |-> e]
    OBVIOUS
  <2>2. w \in Request /\ w.of = None /\ w.key = e /\ w \notin asked /\ queue' = Append(queue, w) /\ deferred' = deferred
    BY <1>1, <2>1 DEF Post, Send, worker, Request
  <2>3. queue \in Seq(Request)
    BY DEF TypeOK
  <2>4. Range(queue') = Range(queue) \cup {w}
    BY <2>2, <2>3, OneMore
  <2> QED
    BY <2>2, <2>4 DEF Waiting
<1>2. ASSUME NEW c \in Callers, NEW k \in Keys, Sends(c, k)
      PROVE  r \in Waiting \/ r.of # None
  <2>1. PICK w : w = [of |-> c, key |-> k]
    OBVIOUS
  <2>2. w \in Request /\ w.of = c /\ c # None /\ queue' = Append(queue, w) /\ deferred' = deferred
    BY <1>2, <2>1, RecorderAssumption DEF Sends, Send, Request
  <2>3. queue \in Seq(Request)
    BY DEF TypeOK
  <2>4. Range(queue') = Range(queue) \cup {w}
    BY <2>2, <2>3, OneMore
  <2> QED
    BY <2>2, <2>4 DEF Waiting
<1>3. ASSUME NEW w \in Upcoming, Serves(w)
      PROVE  r \in Waiting
  <2>1. w \in Waiting /\ Range(queue') \subseteq Range(queue)
    BY <1>3, Takes DEF Serves
  <2> QED
    BY <1>3, <2>1 DEF Serves, Waiting
<1>4. ASSUME NEW c \in Callers, GivesUp(c)
      PROVE  r \in Waiting
  BY <1>4 DEF GivesUp, Waiting
<1>5. ~Starts
  <2>1. CASE Starts
    <3>1. Range(queue') = {} /\ deferred' = None
      BY <2>1 DEF Starts, Restarts, Range
    <3> QED
      BY <3>1 DEF Waiting
  <2> QED
    BY <2>1
<1>6. CASE Idles
  BY <1>6 DEF Idles, Waiting
<1> QED
  BY <1>1, <1>2, <1>3, <1>4, <1>5, <1>6, RequestMoves

\* Every line is of a request, and an event that waits has none.
LEMMA LineNext ==
  ASSUME TypeOK, RequestInv, LineInv, [Next]_vars
  PROVE  LineInv'
<1>1. asked \subseteq Request /\ Keys \cap Events = {} /\ \A r, w \in Request : r.of = w.of /\ r.key = w.key => r = w
  <2>1. \A r, w \in Request : r.of = w.of /\ r.key = w.key => r = w
    BY DEF Request
  <2> QED
    BY <2>1, RecorderAssumption DEF TypeOK
<1>2. asked \subseteq asked'
  <2>1. CASE Callers = {}
    BY <2>1, RequestMoves, Takes DEF Post, Sends, Serves, GivesUp, Starts, Restarts, Idles
  <2>2. CASE Callers # {}
    BY <2>2, CallerMoves
  <2> QED
    BY <2>1, <2>2
<1>3. ASSUME NEW r \in Waiting', r.of = None
      PROVE  <<r.key, 1>> \notin Lines /\ r.key \in Events
             /\ \A w \in Waiting : w.of = None /\ w.key = r.key => w = r
  <2>1. CASE r \in Waiting
    BY <1>1, <1>3, <2>1 DEF LineInv, RequestInv
  <2>2. CASE r \notin asked /\ r.key \in Events
    <3>1. \A w \in asked : w.key # r.key
      <4>1. SUFFICES ASSUME NEW w \in asked, w.key = r.key
                     PROVE  FALSE
        OBVIOUS
      <4>2. w.of = None
        BY <1>1, <2>2, <4>1 DEF RequestInv
      <4>3. r \in Request
        <5>1. TypeOK'
          BY TypeNext
        <5>2. queue' \in Seq(Request) /\ deferred' \in Request \cup {None}
          BY <5>1 DEF TypeOK
        <5>3. Range(queue') \subseteq Request
          BY <5>2, Elements
        <5> QED
          BY <5>2, <5>3 DEF Waiting
      <4> QED
        BY <1>1, <1>3, <2>2, <4>1, <4>2, <4>3
    <3>2. \A l \in Lines : l # <<r.key, 1>>
      BY <3>1 DEF LineInv
    <3> QED
      BY <2>2, <3>1, <3>2 DEF RequestInv
  <2> QED
    BY <1>3, <2>1, <2>2, WaitingMoves
<1>4. \/ Lines' \subseteq Lines
      \/ \E r \in Waiting : r.key \in Keys /\ Lines' = Lines \cup LinesOf(r.key)
      \/ \E r \in Waiting : r.of = None /\ r.key \in Events /\ r \notin Waiting' /\ Lines' = Lines \cup {<<r.key, 1>>}
  BY Moved, WorkerMoves
<1>5. CASE Lines' \subseteq Lines
  BY <1>2, <1>3, <1>5 DEF LineInv
<1>6. ASSUME NEW r \in Waiting, r.key \in Keys, Lines' = Lines \cup LinesOf(r.key)
      PROVE  LineInv'
  <2>1. r \in asked' /\ \A l \in LinesOf(r.key) : l[1] = r.key
    BY <1>2 DEF LinesOf, RequestInv
  <2>2. \A e \in Events : <<e, 1>> \notin LinesOf(r.key)
    BY <1>1, <1>6 DEF LinesOf
  <2> QED
    BY <1>2, <1>3, <1>6, <2>1, <2>2 DEF LineInv
<1>7. ASSUME NEW r \in Waiting, r.of = None, r \notin Waiting', Lines' = Lines \cup {<<r.key, 1>>}
      PROVE  LineInv'
  <2>1. r \in asked' /\ \A l \in {<<r.key, 1>>} : l[1] = r.key
    BY <1>2 DEF RequestInv
  <2>2. \A w \in Waiting' : w.of = None => w.key # r.key
    BY <1>3, <1>7
  <2> QED
    BY <1>2, <1>3, <1>7, <2>1, <2>2 DEF LineInv
<1> QED
  BY <1>4, <1>5, <1>6, <1>7

\* What the worker remembers after it resumed the staged batch.
LEMMA ResumedRange ==
  ASSUME TypeOK
  PROVE  /\ Resumed \in Seq(Keys) /\ Len(Resumed) <= CompletedLimit
         /\ Range(Resumed) \subseteq Range(completed) \cup ({pending} \ {None})
         /\ Range(completed) \cup ({pending} \ {None}) \subseteq Range(Resumed) \cup Drops
<1>1. completed \in Seq(Keys) /\ Len(completed) <= CompletedLimit /\ pending \in Keys \cup {None}
  BY DEF TypeOK
<1>2. CASE pending = None
  BY <1>1, <1>2 DEF Resumed, Drops
<1>3. CASE pending # None
  BY <1>1, <1>3, Remembers DEF Resumed, Drops
<1> QED
  BY <1>2, <1>3

\* A staged batch is alone, and what is completed or acknowledged is in the journal.
LEMMA StagedNext ==
  ASSUME TypeOK, RequestInv, StagedInv, [Next]_vars
  PROVE  StagedInv'
<1>1. pending # None => LinesOf(pending) \subseteq Lines /\ Range(buffer) \subseteq LinesOf(pending)
  BY DEF StagedInv, StagedAlone
<1>2. \A k \in Range(completed) \cup acked : LinesOf(k) \subseteq Range(journal)
  BY DEF StagedInv
<1>3. None \notin Keys
  BY RecorderAssumption
<1>4. completed \in Seq(Keys) /\ Len(completed) <= CompletedLimit
  BY DEF TypeOK
<1> DEFINE Kept == \A k \in Range(Resumed) \cup acked : LinesOf(k) \subseteq Range(journal')
<1>5. (pending # None => Lines \subseteq Range(journal')) /\ Range(journal) \subseteq Range(journal') => Kept
  BY <1>1, <1>2, ResumedRange
<1> HIDE DEF Kept
<1>6. CASE Rests
  BY <1>1, <1>2, <1>6, Moved DEF Rests, StagedInv, StagedAlone
<1>7. CASE Flushes
  <2>1. UNCHANGED <<completed, pending, acked>>
    BY <1>7 DEF Flushes, Stores
  <2>2. Lines' = Lines /\ Range(journal) \subseteq Range(journal') /\ Range(buffer') \subseteq Range(buffer)
    BY <1>7, Moved
  <2> QED
    BY <1>1, <1>2, <2>1, <2>2 DEF StagedInv, StagedAlone
<1>8. CASE Resumes
  <2>1. completed' = Resumed /\ pending' = None /\ acked' \subseteq acked \cup ({pending} \ {None})
    BY <1>8 DEF Resumes, Stores
  <2>2. Lines \subseteq Range(journal') /\ Range(journal) \subseteq Range(journal')
    BY <1>8, Moved DEF Lines
  <2> QED
    BY <1>1, <1>5, <2>1, <2>2 DEF StagedInv, StagedAlone, Kept
<1>9. CASE Restarts
  BY <1>2, <1>9, Moved DEF Restarts, StagedInv, StagedAlone
<1>10. ASSUME NEW k \in Keys, Persists(k)
       PROVE  StagedInv'
  <2>1. completed' = RememberCompleted(Resumed, k) /\ pending' = None /\ acked' = acked \cup {k}
    BY <1>10 DEF Persists, Stores
  <2>2. Lines' = Lines \cup LinesOf(k) /\ Range(journal') = Lines'
    BY <1>10, Moved
  <2>3. Range(completed') \subseteq Range(Resumed) \cup {k}
    BY <2>1, ResumedRange, Remembers
  <2>4. Kept
    BY <1>5, <2>2 DEF Lines
  <2> QED
    BY <2>1, <2>2, <2>3, <2>4 DEF StagedInv, StagedAlone, Kept
<1>11. ASSUME NEW k \in Keys, StagesBatch(k)
       PROVE  StagedInv'
  <2>1. completed' = Resumed /\ pending' = k /\ acked' = acked
    BY <1>11 DEF StagesBatch, Stores
  <2>2. Lines' = Lines \cup LinesOf(k) /\ Lines \subseteq Range(journal') /\ Range(buffer') \subseteq LinesOf(k)
    BY <1>11, Moved
  <2>3. Kept
    BY <1>5, <2>2 DEF Lines
  <2> QED
    BY <2>1, <2>2, <2>3 DEF StagedInv, StagedAlone, Kept
<1>12. ASSUME NEW e \in Events, Records(e)
       PROVE  StagedInv'
  <2>1. completed' = Resumed /\ pending' = None /\ acked' = acked
    BY <1>12 DEF Records, Stores
  <2>2. (pending # None => Lines \subseteq Range(journal')) /\ Range(journal) \subseteq Range(journal')
    BY <1>12, Moved
  <2> QED
    BY <1>5, <2>1, <2>2 DEF StagedInv, StagedAlone, Kept
<1> QED
  BY <1>6, <1>7, <1>8, <1>9, <1>10, <1>11, <1>12, WorkerMoves

----------------------------------------------------------------------------
(* No line twice *)

\* What is asked for anew and has a line already is being asked for.
LEMMA AskedStays ==
  ASSUME TypeOK, RequestInv, LineInv, [Next]_vars, NEW c \in Callers, NEW k \in Keys,
         Asks(c, k)', LinesOf(k) \cap Lines # {}
  PROVE  \E d \in Callers : Asks(d, k)
<1>1. PICK r \in asked : r.key = k
  BY DEF LineInv, LinesOf
<1>2. CASE caller'[c] = caller[c] \/ (caller[c].pc # "idle" /\ caller'[c].key = caller[c].key)
  BY <1>2 DEF Asks
<1>3. CASE \E j \in Keys : Begin(c, j) /\ caller'[c].key = j
  BY <1>1, <1>3 DEF Begin, Asks
<1> QED
  BY <1>2, <1>3, CallerMoves DEF Asks

\* What a process remembers it goes on to remember, or it forgets it and counts it.
LEMMA RemembersOrForgets ==
  ASSUME TypeOK, RequestInv, [Next]_vars
  PROVE  /\ forgotten \subseteq forgotten'
         /\ ~Restarts => \A k \in Keys : Remembered(k) => Remembered(k)' \/ k \in forgotten'
<1>1. None \notin Keys
  BY RecorderAssumption
<1>2. /\ Resumed \in Seq(Keys) /\ Len(Resumed) <= CompletedLimit
      /\ Range(completed) \cup ({pending} \ {None}) \subseteq Range(Resumed) \cup Drops
  BY ResumedRange
<1>3. CASE Rests \/ Flushes
  BY <1>3 DEF Rests, Flushes, Stores, Remembered
<1>4. CASE Resumes \/ \E e \in Events : Records(e)
  <2>1. completed' = Resumed /\ forgotten' = forgotten \cup Drops
    BY <1>4 DEF Resumes, Records, Stores
  <2> QED
    BY <1>1, <1>2, <2>1 DEF Remembered
<1>5. CASE Restarts
  BY <1>5 DEF Restarts
<1>6. ASSUME NEW j \in Keys, Persists(j)
      PROVE  forgotten \subseteq forgotten' /\ \A k \in Keys : Remembered(k) => Remembered(k)' \/ k \in forgotten'
  <2>1. completed' = RememberCompleted(Resumed, j) /\ forgotten' = forgotten \cup Oldest(Resumed, j) \cup Drops
    BY <1>6 DEF Persists, Stores
  <2>2. Range(Resumed) \subseteq Range(RememberCompleted(Resumed, j)) \cup Oldest(Resumed, j)
    BY <1>2, Remembers
  <2> QED
    BY <1>1, <1>2, <2>1, <2>2 DEF Remembered
<1>7. ASSUME NEW j \in Keys, StagesBatch(j)
      PROVE  forgotten \subseteq forgotten' /\ \A k \in Keys : Remembered(k) => Remembered(k)' \/ k \in forgotten'
  <2>1. completed' = Resumed /\ forgotten' = forgotten \cup Drops
    BY <1>7 DEF StagesBatch, Stores
  <2> QED
    BY <1>1, <1>2, <2>1 DEF Remembered
<1> QED
  BY <1>3, <1>4, <1>5, <1>6, <1>7, WorkerMoves

\* Only what was forgotten is written again.
LEMMA OnceNext ==
  ASSUME TypeOK, RequestInv, LineInv, StagedInv, OnceInv, [Next]_vars
  PROVE  OnceInv'
<1>1. buffer \in Seq(AllLines) /\ journal \in Seq(AllLines) /\ Len(buffer) \in Nat
  BY DEF TypeOK
<1>2. OnceBut(journal, Excused) /\ OnceBut(buffer, Excused) /\ Range(journal) \cap Range(buffer) \subseteq Excused
  BY DEF OnceInv
<1>3. forgotten \subseteq forgotten' /\ Excused \subseteq Excused'
  BY RemembersOrForgets DEF Excused
<1> DEFINE New(lines) == /\ lines \in Seq(AllLines) /\ OnceBut(lines, Excused)
                         /\ Range(journal) \cap Range(lines) \subseteq Excused
           OnceEach(X) == OnceBut(journal', X) /\ OnceBut(buffer', X) /\ Range(journal') \cap Range(buffer') \subseteq X
<1>4. ASSUME NEW lines, New(lines), NEW n \in 0..Len(lines), Land(lines, n)
      PROVE  OnceEach(Excused)
  BY <1>2, <1>4, Lands
<1>5. ASSUME NEW more \in Seq(AllLines), IsInjective(more), Range(more) \cap Lines \subseteq Excused
      PROVE  New(buffer \o more)
  <2>1. Range(buffer) \cap Range(more) \subseteq Excused /\ Range(journal) \cap Range(more) \subseteq Excused
    BY <1>5 DEF Lines
  <2>2. OnceBut(more, Excused)
    BY <1>5, Elements
  <2>3. buffer \o more \in Seq(AllLines) /\ Range(buffer \o more) = Range(buffer) \cup Range(more)
        /\ OnceBut(buffer \o more, Excused)
    BY <1>1, <1>2, <1>5, <2>1, <2>2, InARow
  <2> QED
    BY <1>2, <2>1, <2>3
<1>6. New(buffer)
  BY <1>1, <1>2
<1> HIDE DEF New
<1>7. ASSUME NEW r \in Waiting, r.of \in Callers, r.key \in Keys, Asks(r.of, r.key),
             r.key \notin Range(completed), pending # r.key
      PROVE  /\ BatchLines(r.key) \in Seq(AllLines) /\ Len(BatchLines(r.key)) = 2
             /\ New(buffer \o BatchLines(r.key))
  <2>1. LinesOf(r.key) \cap Lines = {} \/ r.key \in forgotten
    BY <1>7 DEF OnceInv, Remembered
  <2>2. LinesOf(r.key) \cap Lines \subseteq Excused
    BY <2>1 DEF Excused
  <2>3. PICK more : more = BatchLines(r.key)
    OBVIOUS
  <2>4. more \in Seq(AllLines) /\ Range(more) = LinesOf(r.key) /\ IsInjective(more) /\ Len(more) = 2
    BY <1>7, <2>3, LinesOfRequests
  <2>5. New(buffer \o more)
    BY <1>5, <2>2, <2>4
  <2> QED
    BY <2>3, <2>4, <2>5
<1>8. OnceEach(Excused)
  <2>1. CASE Rests
    BY <1>2, <2>1 DEF Rests
  <2>2. CASE Flushes
    BY <1>4, <1>6, <2>2 DEF Flushes, Stores
  <2>3. CASE Resumes
    <3>1. Len(buffer) \in 0..Len(buffer) /\ Land(buffer, Len(buffer))
      BY <1>1, <2>3 DEF Resumes, Stores
    <3> QED
      BY <1>4, <1>6, <3>1
  <2>4. CASE Restarts
    <3>1. Range(buffer') = {} /\ OnceBut(buffer', Excused) /\ journal' = journal
      BY <2>4 DEF Restarts, Range, OnceBut
    <3> QED
      BY <1>2, <3>1
  <2>5. ASSUME NEW r \in Waiting, r.of \in Callers, r.key \in Keys, Asks(r.of, r.key),
               r.key \notin Range(completed), pending # r.key, Persists(r.key) \/ StagesBatch(r.key)
        PROVE  OnceEach(Excused)
    <3>1. PICK lines : lines = buffer \o BatchLines(r.key)
      OBVIOUS
    <3>2. New(lines) /\ BatchLines(r.key) \in Seq(AllLines) /\ Len(BatchLines(r.key)) = 2
      BY <1>7, <2>5, <3>1
    <3>3. Len(lines) = Len(buffer) + 2
      <4>1. Len(lines) = Len(buffer) + Len(BatchLines(r.key))
        BY <1>1, <3>1, <3>2, ConcatProperties
      <4> QED
        BY <3>2, <4>1
    <3>4. Len(lines) \in 0..Len(lines) /\ \A m \in 0..2 : Len(buffer) + m \in 0..Len(lines)
      BY <1>1, <3>3
    <3>5. \E n \in 0..Len(lines) : Land(lines, n)
      BY <2>5, <3>1, <3>4 DEF Persists, StagesBatch, Stores
    <3> QED
      BY <1>4, <3>2, <3>5
  <2>6. ASSUME NEW r \in Waiting, r.of = None, r.key \in Events, Records(r.key)
        PROVE  OnceEach(Excused)
    <3>1. <<r.key, 1>> \notin Lines
      BY <2>6 DEF LineInv
    <3>2. PICK more : more = EventLines(r.key)
      OBVIOUS
    <3>3. more \in Seq(AllLines) /\ Range(more) = {<<r.key, 1>>} /\ IsInjective(more)
      BY <2>6, <3>2, LinesOfRequests
    <3>4. PICK lines : lines = buffer \o more
      OBVIOUS
    <3>5. New(lines)
      BY <1>5, <3>1, <3>3, <3>4
    <3>6. \E n \in 0..Len(lines) : Land(lines, n)
      BY <2>6, <3>2, <3>4 DEF Records, Stores
    <3> QED
      BY <1>4, <3>5, <3>6
  <2> QED
    BY <2>1, <2>2, <2>3, <2>4, <2>5, <2>6, WorkerMoves
<1>9. OnceEach(Excused')
  BY <1>3, <1>8 DEF OnceBut
<1>10. ASSUME NEW c \in Callers, NEW k \in Keys, Asks(c, k)', LinesOf(k) \cap Lines' # {}
       PROVE  Remembered(k)' \/ k \in forgotten'
  <2>1. ~Restarts
    BY <1>10 DEF Restarts, Asks, NotAsking
  <2>2. CASE LinesOf(k) \cap Lines # {}
    <3>1. Remembered(k) \/ k \in forgotten
      BY <1>10, <2>2, AskedStays DEF OnceInv
    <3> QED
      BY <1>3, <2>1, <3>1, RemembersOrForgets
  <2>3. CASE LinesOf(k) \cap Lines = {}
    <3>1. \/ Lines' \subseteq Lines
          \/ \E j \in Keys : Lines' = Lines \cup LinesOf(j) /\ (Persists(j) \/ StagesBatch(j))
          \/ \E e \in Events : Lines' = Lines \cup {<<e, 1>>}
      BY Moved, WorkerMoves
    <3>2. \A e \in Events : <<e, 1>> \notin LinesOf(k)
      BY RecorderAssumption DEF LinesOf
    <3>3. PICK j \in Keys : Lines' = Lines \cup LinesOf(j) /\ (Persists(j) \/ StagesBatch(j))
      BY <1>10, <2>3, <3>1, <3>2
    <3>4. j = k
      BY <1>10, <2>3, <3>3 DEF LinesOf
    <3>5. CASE StagesBatch(j)
      BY <3>4, <3>5 DEF StagesBatch, Stores, Remembered
    <3>6. CASE Persists(j)
      <4>1. completed' = RememberCompleted(Resumed, k)
        BY <3>4, <3>6 DEF Persists, Stores
      <4>2. k \in Range(RememberCompleted(Resumed, k))
        BY ResumedRange, Remembers
      <4> QED
        BY <4>1, <4>2 DEF Remembered
    <3> QED
      BY <3>3, <3>5, <3>6
  <2> QED
    BY <2>2, <2>3
<1> QED
  BY <1>9, <1>10 DEF OnceInv

\* A step writes to the journal as DurableJournal allows it.
LEMMA WriteNext ==
  ASSUME IInv, IInv', OnceInv', [Next]_vars
  PROVE  [Remote!Write]_<<journal, acked, forgotten>>
<1>1. IsPrefix(journal, journal')
  BY WorkerMoves, Moved DEF IInv
<1>2. \A m, n \in DOMAIN journal' : m # n /\ journal'[m] = journal'[n] => \E k \in forgotten' : journal'[m] \in LinesOf(k)
  BY DEF OnceInv, OnceBut, Excused
<1>3. acked \subseteq acked' /\ forgotten \subseteq forgotten'
  BY WorkerMoves, RemembersOrForgets DEF IInv
<1>4. \A k \in acked' : k \in Keys /\ LinesOf(k) \subseteq Range(journal')
  BY DEF IInv, TypeOK, StagedInv
<1>5. Remote!IsPrefix(journal, journal') /\ Remote!Once(journal', forgotten') /\ Remote!Range(journal') = Range(journal')
  BY <1>1, <1>2 DEF Remote!IsPrefix, IsPrefix, Remote!Once, Remote!Range, Range
<1> QED
  BY <1>3, <1>4, <1>5 DEF Remote!Write, Remote!InJournal

----------------------------------------------------------------------------
(* Theorems *)

\* The first state has all the invariants.
LEMMA Starting ==
  ASSUME Init
  PROVE  IInv /\ OnceInv /\ Remote!Init
<1>1. CompletedLimit \in Nat /\ MaxFaults \in Nat /\ MaxCrashes \in Nat
  BY RecorderAssumption
<1>2. \A S : <<>> \in Seq(S) /\ Len(<<>>) = 0
  OBVIOUS
<1>3. Range(<<>>) = {} /\ IsInjective(<<>>) /\ \A X : OnceBut(<<>>, X)
  BY DEF Range, IsInjective, OnceBut
<1>4. TypeOK
  BY <1>1, <1>2 DEF Init, TypeOK, NotAsking, REQUIRED_RECORDER_ATTEMPTS
<1>5. RequestInv
  BY <1>3 DEF Init, RequestInv, Waiting, NotAsking
<1>6. LineInv
  BY <1>3 DEF Init, LineInv, Lines, Waiting
<1>7. StagedInv
  BY <1>3 DEF Init, StagedInv, StagedAlone
<1>8. OnceInv
  BY <1>3 DEF Init, OnceInv, Asks, NotAsking
<1> QED
  BY <1>4, <1>5, <1>6, <1>7, <1>8 DEF IInv, Init, Remote!Init

\* The invariant holds in every reachable state.
THEOREM Invariance == Spec => [](IInv /\ OnceInv)
<1>1. Init => IInv /\ OnceInv
  BY Starting
<1>2. IInv /\ OnceInv /\ [Next]_vars => IInv' /\ OnceInv'
  BY TypeNext, RequestNext, LineNext, StagedNext, OnceNext DEF IInv
<1> QED
  BY <1>1, <1>2, PTL DEF Spec

\* What every variable may hold.
THEOREM TypeCorrect == Spec => []TypeOK
<1>1. IInv => TypeOK
  BY DEF IInv
<1> QED
  BY <1>1, Invariance, PTL

\* However many batches fail and whatever waits behind them, the buffer holds the lines
\* of the staged batch and no others (persist_durable_recorder_request).
THEOREM AloneWhenStaged == Spec => []StagedAlone
<1>1. IInv => StagedAlone
  BY DEF IInv, StagedInv
<1> QED
  BY <1>1, Invariance, PTL

\* A batch its caller was told is durable is in the journal, even when the process has
\* recorded more batches than it remembers.
THEOREM AcknowledgedIsWritten == Spec => [](\A k \in acked : LinesOf(k) \subseteq Range(journal))
<1>1. IInv => \A k \in acked : LinesOf(k) \subseteq Range(journal)
  BY DEF IInv, StagedInv
<1> QED
  BY <1>1, Invariance, PTL

\* Of the batches that are still asked for, a process remembers each that it wrote, but
\* for those it made room with, so that it does not write a retry again
\* (RecorderDurabilityState).
THEOREM Remembering == Spec => []RememberedWhileAsked
<1>1. IInv /\ OnceInv => RememberedWhileAsked
  <2>1. SUFFICES ASSUME IInv, OnceInv, NEW c \in Callers, caller[c].pc # "idle",
                        LinesOf(caller[c].key) \subseteq Range(journal)
                 PROVE  \/ caller[c].key = pending \/ Contains(completed, caller[c].key)
                        \/ caller[c].key \in forgotten
    BY DEF RememberedWhileAsked
  <2>2. caller[c].key \in Keys /\ completed \in Seq(Keys)
    BY <2>1 DEF IInv, RequestInv, TypeOK
  <2>3. Remembered(caller[c].key) \/ caller[c].key \in forgotten
    BY <2>1, <2>2 DEF OnceInv, Asks, LinesOf, Lines
  <2> QED
    BY <2>2, <2>3, Elements DEF Remembered
<1> QED
  BY <1>1, Invariance, PTL

\* The recorder keeps the promise of DurableJournal, whatever fails, is retried, or
\* crashes: the journal only grows, what was acknowledged is in it, and no line is in it
\* twice but for lines of batches it forgot.
THEOREM Durable == Spec => JournalIsDurable
<1>1. Init => Remote!Init
  BY Starting
<1>2. IInv /\ IInv' /\ OnceInv' /\ [Next]_vars => [Remote!Write]_<<journal, acked, forgotten>>
  BY WriteNext
<1> QED
  BY <1>1, <1>2, Invariance, PTL DEF Spec, JournalIsDurable, Remote!Spec
=============================================================================
