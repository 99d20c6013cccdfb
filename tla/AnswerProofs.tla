------------------------------ MODULE AnswerProofs ------------------------------
(***************************************************************************)
(* Proofs about what others answer to moneroid: NodeProbe for all          *)
(* candidates, whatever DNS and the addresses answer, Socks5, which dials  *)
(* them, for every set of lengths of a name, and Fields for any answers of *)
(* a miner.                                                                *)
(***************************************************************************)
EXTENDS NodeProbe, Socks5, Fields, Recursion, SequenceTheorems, TLAPS

(* Appending to a sequence keeps what was there, and it is still a sequence. *)
LEMMA Appended ==
    ASSUME NEW s, s \in Seq(Range(s)), NEW e
    PROVE  /\ Append(s, e) \in Seq(Range(Append(s, e)))
           /\ Len(Append(s, e)) = Len(s) + 1
           /\ DOMAIN Append(s, e) = 1 .. Len(s) + 1
           /\ DOMAIN s = 1 .. Len(s) /\ Len(s) \in Nat
           /\ \A i \in 1 .. Len(s) : Append(s, e)[i] = s[i]
           /\ Append(s, e)[Len(s) + 1] = e
  <1> DEFINE T == Range(s) \cup {e}
  <1>1. s \in Seq(T)
    BY SMT
  <1>2. /\ Append(s, e) \in Seq(T)
        /\ Len(Append(s, e)) = Len(s) + 1
        /\ \A i \in 1 .. Len(s) : Append(s, e)[i] = s[i]
        /\ Append(s, e)[Len(s) + 1] = e
    BY <1>1, AppendProperties
  <1>3. Len(s) \in Nat /\ DOMAIN s = 1 .. Len(s) /\ DOMAIN Append(s, e) = 1 .. Len(s) + 1
    BY <1>1, <1>2, LenProperties
  <1>4. Append(s, e) \in Seq(Range(Append(s, e)))
    BY <1>2, <1>3, SMT DEF Range
  <1>5. QED
    BY <1>2, <1>3, <1>4

-----------------------------------------------------------------------------
(* Results. *)

\* What an address can have answered, and how it was reached.
Real(r) ==
    /\ r # NoResult
    /\ r.error = "" => r.latency # Null
    /\ Usable(r) => r.error = ""

\* An outcome of an address is a result of that address, never the empty one, and dialled as Via says.
LEMMA OutcomesAreReal ==
    ASSUME NEW a, NEW r \in Outcomes(a)
    PROVE  Real(r) /\ r.addr = a /\ r.via = Via(a)
  <1>0. Null # TRUE /\ \A lat \in Latencies : lat # Null
    BY ProbeAssumption DEF ProbeAssumption
  <1>1. CASE r = Unanswered(a)
    <2>1. NoResult = [addr |-> Null, via |-> Null, latency |-> Null, sync |-> Null,
                      height |-> Null, headers |-> Null, zmq |-> Null, error |-> "no address"]
      BY DEF NoResult
    <2>2. /\ r.error = "get_info" /\ r.sync = Null /\ r.addr = a /\ r.via = Via(a)
          /\ NoResult.error = "no address"
      BY <1>1, <2>1 DEF Unanswered
    <2>3. r # NoResult /\ r.error # "" /\ ~Usable(r)
      BY <1>0, <2>2 DEF Usable
    <2>4. QED
      BY <2>2, <2>3 DEF Real
  <1>2. CASE r # Unanswered(a)
    <2>1. PICK lat \in Latencies, sync \in BOOLEAN, h \in Heights,
               headers \in {"there", "missing", "error"}, zmq \in BOOLEAN :
                  r = Answered(a, lat, sync, h, headers, zmq)
      <3>1. r \in {Answered(a, lat, sync, h, headers, zmq) :
                      lat \in Latencies, sync \in BOOLEAN, h \in Heights,
                      headers \in {"there", "missing", "error"}, zmq \in BOOLEAN}
        BY <1>2 DEF Outcomes
      <3>2. QED
        BY <3>1
    <2>2. lat # Null /\ Null # TRUE
      BY <1>0
    <2>3. /\ r.addr = a /\ r.via = Via(a) /\ r.latency = lat
          /\ r.headers = IF AsksHeaders(h) THEN headers = "there" ELSE Null
          /\ r.error = IF AsksHeaders(h) /\ headers = "error" THEN "headers" ELSE ""
      BY <2>1 DEF Answered
    <2>4. r # NoResult
      <3>1. r.error # "no address" /\ NoResult.error = "no address"
        BY <2>3 DEF NoResult
      <3>2. QED
        BY <3>1
    <2>5. Usable(r) => r.error = ""
      BY <2>2, <2>3 DEF Usable
    <2>6. QED
      BY <2>2, <2>3, <2>4, <2>5 DEF Real
  <1>3. QED
    BY <1>1, <1>2

(* A value is 0, 1 or 2, and 2 only for a usable result. *)
LEMMA WorthRange ==
    ASSUME NEW r, Real(r)
    PROVE  /\ Usable(r) => Worth(r) = 2
           /\ ~Usable(r) /\ r.latency # Null => Worth(r) = 1
           /\ ~Usable(r) /\ r.latency = Null => Worth(r) = 0
  BY DEF Worth

\* r is the first of the best of ts.
FirstBest(r, ts) ==
    \E i \in DOMAIN ts :
        /\ r = ts[i]
        /\ \A j \in DOMAIN ts :
              /\ Worth(ts[j]) <= Worth(r)
              /\ j < i => Worth(ts[j]) < Worth(r)

(* Keeping the old result or taking the new one, as Probe does, keeps the first of the *)
(* best; a usable result is better than all before it.                                 *)
LEMMA KeepBest ==
    ASSUME NEW ts, ts \in Seq(Range(ts)), NEW old, NEW new, Real(new),
           \A i \in DOMAIN ts : Real(ts[i]) /\ ~Usable(ts[i]),
           IF ts = <<>> THEN old = NoResult ELSE FirstBest(old, ts)
    PROVE  /\ Usable(new) => FirstBest(new, Append(ts, new))
           /\ ~Usable(new) => FirstBest(IF Better(old, new) THEN new ELSE old, Append(ts, new))
  <1> DEFINE all == Append(ts, new)
             n   == Len(ts) + 1
  <1>1. /\ n \in DOMAIN all /\ all[n] = new /\ n \in Nat
        /\ DOMAIN all = 1 .. n /\ DOMAIN ts = 1 .. Len(ts) /\ Len(ts) \in Nat
        /\ \A i \in 1 .. Len(ts) : all[i] = ts[i]
    BY Appended, SMT
  <1>2. \A i \in 1 .. Len(ts) : Worth(ts[i]) \in {0, 1}
    BY <1>1, WorthRange
  <1>3. \A j \in 1 .. n : j = n \/ j \in 1 .. Len(ts)
    BY <1>1, SMT
  <1>4. ASSUME \A j \in 1 .. Len(ts) : Worth(ts[j]) < Worth(new), Worth(new) \in Nat
        PROVE  FirstBest(new, all)
    <2>1. \A j \in DOMAIN all : Worth(all[j]) <= Worth(new) /\ (j < n => Worth(all[j]) < Worth(new))
      <3>1. TAKE j \in DOMAIN all
      <3>2. CASE j = n
        BY <1>1, <1>4, <3>2, SMT
      <3>3. CASE j \in 1 .. Len(ts)
        <4>1. all[j] = ts[j] /\ Worth(ts[j]) < Worth(new) /\ Worth(ts[j]) \in {0, 1}
          BY <1>1, <1>2, <1>4, <3>3
        <4>2. QED
          BY <1>4, <4>1, SMT
      <3>4. QED
        BY <1>1, <1>3, <3>1, <3>2, <3>3
    <2>2. QED
      BY <1>1, <2>1 DEF FirstBest
  <1>5. CASE Usable(new)
    <2>1. Worth(new) = 2
      BY <1>5, WorthRange
    <2>2. \A j \in 1 .. Len(ts) : Worth(ts[j]) < Worth(new)
      BY <1>2, <2>1, SMT
    <2>3. QED
      BY <1>4, <1>5, <2>1, <2>2
  <1>6. CASE ~Usable(new) /\ ts = <<>>
    <2>1. Worth(new) \in Nat /\ Better(old, new) /\ Len(ts) = 0
      BY <1>6, WorthRange DEF Better
    <2>2. FirstBest(new, all)
      <3>1. \A j \in 1 .. Len(ts) : FALSE
        BY <2>1, SMT
      <3>2. QED
        BY <1>4, <2>1, <3>1
    <2>3. QED
      BY <1>6, <2>1, <2>2
  <1>7. CASE ~Usable(new) /\ ts # <<>>
    <2>1. PICK i \in DOMAIN ts :
             /\ old = ts[i]
             /\ \A j \in DOMAIN ts : Worth(ts[j]) <= Worth(old) /\ (j < i => Worth(ts[j]) < Worth(old))
      <3>1. FirstBest(old, ts)
        BY <1>7
      <3>2. QED
        BY <3>1 DEF FirstBest
    <2>2. Real(old) /\ ~Usable(old) /\ old # NoResult
      BY <2>1 DEF Real
    <2>3. CASE old.latency = Null /\ new.latency # Null
      <3>1. Worth(old) = 0 /\ Worth(new) = 1 /\ Better(old, new)
        BY <1>7, <2>2, <2>3, WorthRange DEF Better
      <3>2. \A j \in 1 .. Len(ts) : Worth(ts[j]) < Worth(new)
        BY <1>1, <1>2, <2>1, <3>1, SMT
      <3>3. QED
        BY <1>4, <1>7, <3>1, <3>2
    <2>4. CASE old.latency # Null \/ new.latency = Null
      <3>1. ~Better(old, new)
        BY <2>2, <2>4 DEF Better
      <3>2. Worth(new) <= Worth(old)
        BY <1>7, <2>2, <2>4, WorthRange
      <3>3. i \in DOMAIN all /\ all[i] = old
        BY <1>1, <2>1, SMT
      <3>4. \A j \in DOMAIN all : Worth(all[j]) <= Worth(old) /\ (j < i => Worth(all[j]) < Worth(old))
        <4>1. TAKE j \in DOMAIN all
        <4>2. CASE j = n
          <5>1. ~(n < i)
            BY <1>1, <2>1, SMT
          <5>2. QED
            BY <1>1, <3>2, <4>2, <5>1
        <4>3. CASE j \in 1 .. Len(ts)
          BY <1>1, <2>1, <4>3
        <4>4. QED
          BY <1>1, <1>3, <4>1, <4>2, <4>3
      <3>5. FirstBest(old, all)
        BY <3>3, <3>4 DEF FirstBest
      <3>6. QED
        BY <1>7, <3>1, <3>5
    <2>5. QED
      BY <2>3, <2>4
  <1>8. QED
    BY <1>5, <1>6, <1>7

-----------------------------------------------------------------------------
(* The probe of one candidate. *)

\* What was tried, all of it answered in earnest and reached as Params.Dialer says; a
\* candidate without addresses was not tried, and has none before the dialer is chosen.
Tried(c) ==
    /\ tried[c] \in Seq(Range(tried[c]))
    /\ \A i \in DOMAIN tried[c] : Real(tried[c][i]) /\ tried[c][i].via = Via(tried[c][i].addr)
    /\ addrs[c] = Null => tried[c] = <<>>
    /\ dialer = "none" => addrs[c] = Null

\* The result that Probe would report, or does.
Remembered(c) ==
    IF Done(c)
    THEN /\ tried[c] # <<>> /\ FirstBest(report[c], tried[c])
         /\ Usable(report[c]) \/ Len(tried[c]) = Len(addrs[c])
    ELSE /\ \A i \in DOMAIN tried[c] : ~Usable(tried[c][i])
         /\ IF tried[c] = <<>> THEN first[c] = NoResult ELSE FirstBest(first[c], tried[c])

ProbeInv ==
    /\ tried \in [Cands -> Range(tried)] /\ addrs \in [Cands -> Range(addrs)]
    /\ first \in [Cands -> Range(first)] /\ report \in [Cands -> Range(report)]
    /\ \A c \in Cands : Tried(c) /\ Remembered(c)

(* What probing an address makes of the variables, for the result it gives. *)
LEMMA ProbeAddrStep ==
    ASSUME NEW c \in Cands, ProbeAddr(c)
    PROVE  \E r \in Outcomes(addrs[c][Len(tried[c]) + 1]) :
              /\ tried' = [tried EXCEPT ![c] = Append(tried[c], r)]
              /\ first' = [first EXCEPT ![c] = IF Better(first[c], r) THEN r ELSE first[c]]
              /\ report' = [report EXCEPT ![c] =
                    IF Usable(r) THEN r
                    ELSE IF Len(tried[c]) + 1 = Len(addrs[c])
                         THEN IF Better(first[c], r) THEN r ELSE first[c]
                         ELSE report[c]]
  BY Zenon DEF ProbeAddr

(* Probing an address keeps both for the candidate: it keeps the first of the best. *)
LEMMA ProbeAddrKeeps ==
    ASSUME ProbeInv, NEW c \in Cands, ProbeAddr(c)
    PROVE  Tried(c)' /\ Remembered(c)'
  <1> DEFINE n == Len(tried[c]) + 1
  <1>1. PICK r \in Outcomes(addrs[c][n]) :
           /\ tried' = [tried EXCEPT ![c] = Append(tried[c], r)]
           /\ first' = [first EXCEPT ![c] = IF Better(first[c], r) THEN r ELSE first[c]]
           /\ report' = [report EXCEPT ![c] =
                 IF Usable(r) THEN r
                 ELSE IF n = Len(addrs[c])
                      THEN IF Better(first[c], r) THEN r ELSE first[c]
                      ELSE report[c]]
    BY ProbeAddrStep
  <1>2. UNCHANGED <<addrs, dialer>> /\ addrs[c] # Null /\ ~Done(c)
    BY DEF ProbeAddr, Done
  <1>3. Tried(c) /\ Remembered(c) /\ DOMAIN tried = Cands /\ DOMAIN first = Cands /\ DOMAIN report = Cands
    BY DEF ProbeInv
  <1>4. /\ tried'[c] = Append(tried[c], r)
        /\ first'[c] = IF Better(first[c], r) THEN r ELSE first[c]
        /\ report'[c] = IF Usable(r) THEN r
                        ELSE IF n = Len(addrs[c])
                             THEN IF Better(first[c], r) THEN r ELSE first[c]
                             ELSE NoResult
    BY <1>1, <1>2, <1>3 DEF Done
  <1>5. Real(r) /\ r.via = Via(r.addr)
    BY OutcomesAreReal
  <1>6. tried[c] \in Seq(Range(tried[c]))
    BY <1>3 DEF Tried
  <1>7. /\ tried'[c] \in Seq(Range(tried'[c])) /\ Len(tried'[c]) = n
        /\ DOMAIN tried'[c] = 1 .. n /\ DOMAIN tried[c] = 1 .. Len(tried[c]) /\ Len(tried[c]) \in Nat
        /\ \A i \in 1 .. Len(tried[c]) : tried'[c][i] = tried[c][i]
        /\ tried'[c][n] = r
    BY <1>4, <1>6, Appended
  <1>8. \A i \in 1 .. n : i = n \/ i \in 1 .. Len(tried[c])
    BY <1>7, SMT
  <1>9. tried'[c] # <<>>
    BY <1>7, SMT
  <1>10. Tried(c)'
    <2>1. \A i \in DOMAIN tried'[c] : Real(tried'[c][i]) /\ tried'[c][i].via = Via(tried'[c][i].addr)
      BY <1>3, <1>5, <1>7, <1>8 DEF Tried
    <2>2. \A i \in DOMAIN tried'[c] : tried'[c][i].via = Via(tried[c][i].addr)'
      BY <1>2, <2>1 DEF Via
    <2>3. dialer # "none"
      BY <1>2, <1>3 DEF Tried
    <2>4. QED
      BY <1>2, <1>7, <2>1, <2>2, <2>3 DEF Tried
  <1>11. \A i \in DOMAIN tried[c] : Real(tried[c][i]) /\ ~Usable(tried[c][i])
    BY <1>2, <1>3 DEF Tried, Remembered
  <1>12. IF tried[c] = <<>> THEN first[c] = NoResult ELSE FirstBest(first[c], tried[c])
    BY <1>2, <1>3 DEF Remembered
  <1>13. /\ Usable(r) => FirstBest(r, tried'[c])
         /\ ~Usable(r) => FirstBest(first'[c], tried'[c])
    BY <1>4, <1>5, <1>6, <1>11, <1>12, KeepBest
  <1>14. CASE Usable(r)
    <2>1. report'[c] = r /\ r # NoResult
      BY <1>4, <1>5, <1>14 DEF Real
    <2>2. QED
      BY <1>9, <1>10, <1>13, <1>14, <2>1 DEF Remembered, Done
  <1>15. CASE ~Usable(r) /\ n = Len(addrs[c])
    <2>1. report'[c] = first'[c] /\ FirstBest(first'[c], tried'[c])
      BY <1>4, <1>13, <1>15
    <2>2. \E i \in DOMAIN tried'[c] : first'[c] = tried'[c][i]
      BY <2>1 DEF FirstBest
    <2>3. report'[c] # NoResult
      BY <1>5, <1>7, <1>8, <1>11, <2>1, <2>2 DEF Real
    <2>4. QED
      BY <1>2, <1>7, <1>9, <1>10, <1>15, <2>1, <2>3 DEF Remembered, Done
  <1>16. CASE ~Usable(r) /\ n # Len(addrs[c])
    <2>1. report'[c] = NoResult /\ FirstBest(first'[c], tried'[c])
      BY <1>4, <1>13, <1>16
    <2>2. \A i \in DOMAIN tried'[c] : ~Usable(tried'[c][i])
      BY <1>7, <1>8, <1>11, <1>16
    <2>3. QED
      BY <1>9, <1>10, <2>1, <2>2 DEF Remembered, Done
  <1>17. QED
    BY <1>10, <1>14, <1>15, <1>16

(* Every step keeps ProbeInv: the other steps do not touch what was tried, and a        *)
(* candidate is resolved only before its first address is.                              *)
LEMMA ProbeStep ==
    ASSUME ProbeInv, [ProbeNext]_probeVars
    PROVE  ProbeInv'
  <1>0. \A c \in Cands : Tried(c) /\ Remembered(c)
    BY DEF ProbeInv
  <1>1. CASE ChooseDialer
    <2>1. UNCHANGED <<addrs, first, tried, report>> /\ dialer = "none" /\ dialer' # "none"
      BY <1>1 DEF ChooseDialer
    <2>2. ASSUME NEW c \in Cands PROVE Tried(c)' /\ Remembered(c)'
      <3>1. tried[c] = <<>>
        BY <1>0, <2>1 DEF Tried
      <3>2. DOMAIN tried[c] = {}
        BY <3>1
      <3>3. QED
        BY <1>0, <2>1, <3>1, <3>2 DEF Tried, Remembered, Done
    <2>3. QED
      BY <2>1, <2>2 DEF ProbeInv
  <1>2. ASSUME NEW c \in Cands, Resolve(c) PROVE ProbeInv'
    <2>1. UNCHANGED <<first, tried, report, dialer>> /\ dialer # "none" /\ addrs[c] = Null
      BY <1>2 DEF Resolve
    <2>2. PICK as : addrs' = [addrs EXCEPT ![c] = as]
      BY <1>2, Zenon DEF Resolve
    <2>3. addrs' \in [Cands -> Range(addrs')]
      BY <2>2 DEF ProbeInv, Range
    <2>4. ASSUME NEW d \in Cands PROVE Tried(d)' /\ Remembered(d)'
      <3>1. \A a : Via(a)' = Via(a)
        BY <2>1 DEF Via
      <3>2. CASE d # c
        <4>1. addrs'[d] = addrs[d]
          BY <2>2, <3>2 DEF ProbeInv
        <4>2. QED
          BY <1>0, <2>1, <3>1, <4>1 DEF Tried, Remembered, Done
      <3>3. CASE d = c
        <4>1. tried[c] = <<>>
          BY <1>0, <2>1 DEF Tried
        <4>2. ~Done(c)
          BY <1>0, <4>1 DEF Remembered
        <4>3. QED
          BY <1>0, <2>1, <3>1, <3>3, <4>1, <4>2 DEF Tried, Remembered, Done
      <3>4. QED
        BY <3>2, <3>3
    <2>5. QED
      BY <2>1, <2>3, <2>4 DEF ProbeInv
  <1>3. ASSUME NEW c \in Cands, ProbeAddr(c) PROVE ProbeInv'
    <2>1. PICK t, f, r : /\ tried' = [tried EXCEPT ![c] = t]
                         /\ first' = [first EXCEPT ![c] = f]
                         /\ report' = [report EXCEPT ![c] = r]
      BY <1>3, ProbeAddrStep
    <2>2. UNCHANGED <<addrs, dialer>>
      BY <1>3 DEF ProbeAddr
    <2>3. /\ tried' \in [Cands -> Range(tried')] /\ addrs' \in [Cands -> Range(addrs')]
          /\ first' \in [Cands -> Range(first')] /\ report' \in [Cands -> Range(report')]
      BY <2>1, <2>2 DEF ProbeInv, Range
    <2>4. ASSUME NEW d \in Cands PROVE Tried(d)' /\ Remembered(d)'
      <3>1. \A a : Via(a)' = Via(a)
        BY <2>2 DEF Via
      <3>2. CASE d # c
        <4>1. tried'[d] = tried[d] /\ first'[d] = first[d] /\ report'[d] = report[d]
          BY <2>1, <3>2 DEF ProbeInv
        <4>2. QED
          BY <1>0, <2>2, <3>1, <4>1 DEF Tried, Remembered, Done
      <3>3. CASE d = c
        BY <1>3, <3>3, ProbeAddrKeeps
      <3>4. QED
        BY <3>2, <3>3
    <2>5. QED
      BY <2>3, <2>4 DEF ProbeInv
  <1>4. CASE Rank \/ UNCHANGED probeVars
    <2>1. UNCHANGED <<addrs, first, tried, report, dialer>>
      BY <1>4 DEF Rank, probeVars
    <2>2. ASSUME NEW c \in Cands PROVE Tried(c)' /\ Remembered(c)'
      BY <1>0, <2>1 DEF Tried, Remembered, Done, Via
    <2>3. QED
      BY <2>1, <2>2 DEF ProbeInv
  <1>5. QED
    BY <1>1, <1>2, <1>3, <1>4 DEF ProbeNext

\* The strengthened invariant of the probe, in every state.
LEMMA ProbeInvariant == ProbeSpec => []ProbeInv
  <1>1. ProbeInit => ProbeInv
    <2>1. SUFFICES ASSUME ProbeInit PROVE ProbeInv
      OBVIOUS
    <2>2. ASSUME NEW c \in Cands PROVE Tried(c) /\ Remembered(c)
      <3>1. tried[c] = <<>> /\ addrs[c] = Null /\ first[c] = NoResult /\ report[c] = NoResult
        BY <2>1 DEF ProbeInit
      <3>2. <<>> \in Seq(Range(<<>>)) /\ DOMAIN <<>> = {}
        OBVIOUS
      <3>3. QED
        BY <3>1, <3>2 DEF Tried, Remembered, Done
    <2>3. /\ tried \in [Cands -> Range(tried)] /\ addrs \in [Cands -> Range(addrs)]
          /\ first \in [Cands -> Range(first)] /\ report \in [Cands -> Range(report)]
      BY <2>1 DEF ProbeInit, Range
    <2>4. QED
      BY <2>2, <2>3 DEF ProbeInv
  <1>2. QED
    BY <1>1, ProbeStep, PTL DEF ProbeSpec

-----------------------------------------------------------------------------
(* What a candidate is reported by. *)

(* However many addresses a candidate has and whatever they answer, Probe reports the  *)
(* first of its best results, and gives up only after the last address.                *)
THEOREM BestReported == ProbeSpec => []ReportedByBest
  <1>1. ProbeInv => ReportedByBest
    <2>1. SUFFICES ASSUME ProbeInv, NEW c \in Cands, Done(c)
                   PROVE  /\ FirstBest(report[c], tried[c])
                          /\ Usable(report[c]) \/ Len(tried[c]) = Len(addrs[c])
      BY DEF ReportedByBest, FirstBest
    <2>2. QED
      BY <2>1 DEF ProbeInv, Remembered
  <1>2. QED
    BY <1>1, ProbeInvariant, PTL

(* A latency is there wherever the code dereferences one. *)
THEOREM LatencyIsThere == ProbeSpec => []LatencyThere
  <1>1. ProbeInv => LatencyThere
    <2>1. SUFFICES ASSUME ProbeInv, NEW c \in Cands, Done(c),
                          Usable(report[c]) \/ NodeRPC(report[c]) = "pass"
                   PROVE  report[c].latency # Null
      BY DEF LatencyThere
    <2>2. PICK i \in DOMAIN tried[c] : report[c] = tried[c][i]
      BY <2>1 DEF ProbeInv, Remembered, FirstBest
    <2>3. Real(report[c])
      BY <2>1, <2>2 DEF ProbeInv, Tried
    <2>4. report[c].error = ""
      BY <2>1, <2>3 DEF Real, NodeRPC
    <2>5. QED
      BY <2>3, <2>4 DEF Real
  <1>2. QED
    BY <1>1, ProbeInvariant, PTL

-----------------------------------------------------------------------------
(* The addresses of a candidate. *)

\* No address of IPv4 comes after one of IPv6.
V4First(s) == \A i, j \in 1 .. Len(s) : i < j /\ s[j] \in V4 => s[i] \in V4

Halves == [v4 : Seq(V4), v6 : Seq(V6)]

(* The loop of resolve, round by round: it sorts the addresses into their families.    *)
LEMMA SplitsUnfold ==
    ASSUME NEW answer \in Seq(V4 \cup V6)
    PROVE  /\ Splits(answer) \in [0 .. Len(answer) -> Halves]
           /\ \A i \in 0 .. Len(answer) : Splits(answer)[i] =
                 IF i = 0 THEN [v4 |-> <<>>, v6 |-> <<>>] ELSE Split(Splits(answer)[i - 1], answer[i])
<1> DEFINE n == Len(answer)
           base == [v4 |-> <<>>, v6 |-> <<>>]
           step == [i \in 1 .. n |-> [acc \in Halves |-> Split(acc, answer[i])]]
           Rec(f) == f = [i \in 0 .. n |-> IF i = 0 THEN base ELSE Split(f[i - 1], answer[i])]
<1>1. n \in Nat /\ base \in Halves
  BY LenProperties DEF Halves
<1>2. ASSUME NEW i \in 1 .. n, NEW acc \in Halves
      PROVE  Split(acc, answer[i]) \in Halves
  <2>1. answer[i] \in V4 \cup V6
    BY <1>1, ElementOfSeq
  <2>2. CASE answer[i] \in V4
    <3>1. Append(acc.v4, answer[i]) \in Seq(V4)
      BY <2>2, AppendProperties DEF Halves
    <3> QED
      BY <2>2, <3>1 DEF Split, Halves
  <2>3. CASE answer[i] \notin V4
    <3>1. Append(acc.v6, answer[i]) \in Seq(V6)
      BY <2>1, <2>3, AppendProperties DEF Halves
    <3> QED
      BY <2>3, <3>1 DEF Split, Halves
  <2> QED
    BY <2>2, <2>3
<1>3. step \in [1 .. n -> [Halves -> Halves]]
  BY <1>2
<1>4. PICK f : IsLoop(f, Halves, base, n, step)
  <2> HIDE DEF step, base, n
  <2> QED
    BY <1>1, <1>3, LoopExists, Zenon
<1>5. \A i \in 1 .. n : i - 1 \in 0 .. n
  BY <1>1, SMT
<1>6. Rec(f)
  <2>1. ASSUME NEW i \in 0 .. n
        PROVE  f[i] = IF i = 0 THEN base ELSE Split(f[i - 1], answer[i])
    <3>1. f \in [0 .. n -> Halves] /\ f[i] = IF i = 0 THEN base ELSE step[i][f[i - 1]]
      <4> HIDE DEF step, base, n
      <4> QED
        BY <1>4 DEF IsLoop
    <3>2. i # 0 => i \in 1 .. n
      BY <1>1, SMT
    <3>3. i # 0 => f[i - 1] \in Halves
      BY <1>5, <3>1, <3>2
    <3> QED
      BY <3>1, <3>2, <3>3
  <2>2. f = [i \in 0 .. n |-> f[i]]
    <3> HIDE DEF step, base, n
    <3> QED
      BY <1>4 DEF IsLoop
  <2> QED
    BY <2>1, <2>2
<1>7. Splits(answer) = CHOOSE g : Rec(g)
  BY DEF Splits
<1>8. Rec(Splits(answer))
  <2> HIDE DEF Rec
  <2> QED
    BY <1>6, <1>7
<1>9. /\ Splits(answer) = [i \in 0 .. n |-> Splits(answer)[i]]
      /\ \A i \in 0 .. n : Splits(answer)[i] =
            IF i = 0 THEN base ELSE Split(Splits(answer)[i - 1], answer[i])
  BY <1>8
<1>10. Splits(answer)[0] = base
  <2>1. 0 \in 0 .. n
    BY <1>1, SMT
  <2> QED
    BY <1>9, <2>1
<1>11. ASSUME NEW i \in 1 .. n, Splits(answer)[i - 1] \in Halves
       PROVE  Splits(answer)[i] = step[i][Splits(answer)[i - 1]]
  <2>1. i \in 0 .. n /\ i # 0
    BY <1>1, SMT
  <2> QED
    BY <1>9, <1>11, <2>1
<1>12. Splits(answer) \in [0 .. n -> Halves]
  <2> HIDE DEF step, base, n
  <2>1. IsLoop(Splits(answer), Halves, base, n, step)
    BY <1>1, <1>3, <1>9, <1>10, <1>11, LoopIs, Zenon
  <2> QED
    BY <2>1 DEF IsLoop
<1> QED
  BY <1>9, <1>12

(* The IPv4 addresses come before the others in one sequence made of both. *)
LEMMA V4ThenV6 ==
    ASSUME NEW a \in Seq(V4), NEW b \in Seq(V6)
    PROVE  /\ a \o b \in Seq(V4 \cup V6) /\ Len(a \o b) = Len(a) + Len(b)
           /\ V4First(a \o b)
<1>1. Len(a) \in Nat /\ Len(b) \in Nat
  BY LenProperties
<1>2. a \in Seq(V4 \cup V6) /\ b \in Seq(V4 \cup V6)
  OBVIOUS
<1> DEFINE s == a \o b
<1>3. /\ s \in Seq(V4 \cup V6) /\ Len(s) = Len(a) + Len(b)
      /\ \A i \in 1 .. Len(s) : s[i] = IF i <= Len(a) THEN a[i] ELSE b[i - Len(a)]
  BY <1>2, ConcatProperties
<1> HIDE DEF s
<1>4. ASSUME NEW i \in 1 .. Len(s), NEW j \in 1 .. Len(s), i < j, s[j] \in V4
      PROVE  s[i] \in V4
  <2>0. Len(s) = Len(a) + Len(b) /\ i < j
    BY <1>3, <1>4
  <2>1. CASE j <= Len(a)
    <3>1. i \in 1 .. Len(a) /\ i <= Len(a)
      BY <1>1, <2>0, <2>1, SMT
    <3>2. a[i] \in V4
      BY <3>1, ElementOfSeq
    <3> QED
      BY <1>3, <3>1, <3>2
  <2>2. CASE ~(j <= Len(a))
    <3>1. j - Len(a) \in 1 .. Len(b)
      BY <1>1, <2>0, <2>2, SMT
    <3>2. b[j - Len(a)] \in V6
      BY <3>1, ElementOfSeq
    <3>3. s[j] \in V6
      BY <1>3, <2>2, <3>2
    <3> QED
      BY <1>4, <3>3, ProbeAssumption DEF ProbeAssumption
  <2> QED
    BY <2>1, <2>2
<1> QED
  BY <1>3, <1>4 DEF V4First, s

(* A round of the loop makes one of the two longer. *)
LEMMA SplitGrows ==
    ASSUME NEW h \in Halves, NEW a \in V4 \cup V6
    PROVE  Len(Split(h, a).v4) + Len(Split(h, a).v6) > 0
<1>1. h.v4 \in Seq(V4) /\ h.v6 \in Seq(V6)
  BY DEF Halves
<1>2. Len(h.v4) \in Nat /\ Len(h.v6) \in Nat
  BY <1>1, LenProperties
<1>0. \A k, l, m \in Nat : k = l + 1 => k + m > 0 /\ m + k > 0
  BY SMT
<1>3. CASE a \in V4
  <2>1. Split(h, a).v4 = Append(h.v4, a) /\ Split(h, a).v6 = h.v6
    BY <1>3 DEF Split, Halves
  <2>2. Len(Append(h.v4, a)) = Len(h.v4) + 1
    BY <1>1, <1>3, AppendProperties
  <2>3. Len(Split(h, a).v4) = Len(h.v4) + 1 /\ Len(Split(h, a).v6) = Len(h.v6)
    BY <2>1, <2>2, Zenon
  <2>4. Len(h.v4) + 1 \in Nat /\ Len(h.v6) + 1 \in Nat
    BY <1>2, SMT
  <2> QED
    BY <1>0, <1>2, <2>3, <2>4, Zenon
<1>4. CASE a \notin V4
  <2>1. Split(h, a).v6 = Append(h.v6, a) /\ Split(h, a).v4 = h.v4
    BY <1>4 DEF Split, Halves
  <2>2. Len(Append(h.v6, a)) = Len(h.v6) + 1
    BY <1>1, <1>4, AppendProperties
  <2>3. Len(Split(h, a).v6) = Len(h.v6) + 1 /\ Len(Split(h, a).v4) = Len(h.v4)
    BY <2>1, <2>2, Zenon
  <2>4. Len(h.v4) + 1 \in Nat /\ Len(h.v6) + 1 \in Nat
    BY <1>2, SMT
  <2> QED
    BY <1>0, <1>2, <2>3, <2>4, Zenon
<1> QED
  BY <1>3, <1>4

(* What resolve returns for a name that DNS knows has an address, and IPv4 first.       *)
LEMMA FamiliesInOrder ==
    ASSUME NEW answer \in Seq(V4 \cup V6) \ {<<>>}
    PROVE  /\ IPv4First(answer) \in Seq(V4 \cup V6) /\ Len(IPv4First(answer)) > 0
           /\ V4First(IPv4First(answer))
<1> DEFINE n == Len(answer)
           r == Splits(answer)[n]
<1>1. n \in Nat /\ n # 0 /\ n - 1 \in 0 .. n /\ n \in 0 .. n /\ n \in 1 .. n
  BY LenProperties, EmptySeq, SMT
<1>2. Splits(answer)[n - 1] \in Halves /\ r \in Halves /\ r = Split(Splits(answer)[n - 1], answer[n])
  BY <1>1, SplitsUnfold
<1>3. answer[n] \in V4 \cup V6
  BY <1>1, ElementOfSeq
<1>4. Len(r.v4) + Len(r.v6) > 0
  BY <1>2, <1>3, SplitGrows
<1>5. r.v4 \in Seq(V4) /\ r.v6 \in Seq(V6)
  BY <1>2 DEF Halves
<1>6. IPv4First(answer) = r.v4 \o r.v6
  BY DEF IPv4First
<1> HIDE DEF r
<1> QED
  BY <1>4, <1>5, <1>6, V4ThenV6

\* The addresses of a candidate, and those of its results, which are as many at most; one
\* that is not reported yet has an address left.
Addresses(c) ==
    addrs[c] = Null \/
        /\ addrs[c] \in Seq(Range(addrs[c])) /\ V4First(addrs[c])
        /\ Len(tried[c]) <= Len(addrs[c])
        /\ ~Done(c) => Len(tried[c]) < Len(addrs[c])
        /\ \A i \in 1 .. Len(tried[c]) : /\ tried[c][i].addr = addrs[c][i]
                                         /\ tried[c][i].latency \in Latencies \cup {Null}

\* What was chosen is the first of a sorted order, once all are reported.
Chosen ==
    /\ \A c \in Cands : Done(c)
    /\ \E p \in Bijection(Cands, Cands) : Sorted(p) /\ chosen = Choice(report[p[1]])

SelectInv == (\A c \in Cands : Addresses(c)) /\ (chosen # Null => Chosen)

(* The latency of an outcome. *)
LEMMA OutcomeLatency ==
    ASSUME NEW a, NEW r \in Outcomes(a)
    PROVE  r.latency \in Latencies \cup {Null}
<1>1. CASE r = Unanswered(a)
  BY <1>1 DEF Unanswered, NoResult
<1>2. CASE r # Unanswered(a)
  <2>1. PICK lat \in Latencies, sync \in BOOLEAN, h \in Heights,
             headers \in {"there", "missing", "error"}, zmq \in BOOLEAN :
                r = Answered(a, lat, sync, h, headers, zmq)
    <3>1. r \in {Answered(a, lat, sync, h, headers, zmq) :
                    lat \in Latencies, sync \in BOOLEAN, h \in Heights,
                    headers \in {"there", "missing", "error"}, zmq \in BOOLEAN}
      BY <1>2 DEF Outcomes
    <3> QED
      BY <3>1
  <2> QED
    BY <2>1 DEF Answered
<1> QED
  BY <1>1, <1>2

(* Resolving a candidate gives it addresses: a host for itself, or what DNS answers.    *)
LEMMA ResolveGives ==
    ASSUME NEW c \in Cands, Resolve(c), addrs \in [Cands -> Range(addrs)]
    PROVE  /\ addrs'[c] \in Seq(Range(addrs'[c])) /\ V4First(addrs'[c]) /\ Len(addrs'[c]) > 0
           /\ \A d \in Cands \ {c} : addrs'[d] = addrs[d]
<1>1. PICK as : /\ addrs' = [addrs EXCEPT ![c] = as]
                /\ as = <<Hosts[c]>> \/ \E answer \in Answers[c] : as = IPv4First(answer)
  BY Zenon DEF Resolve
<1>2. addrs'[c] = as /\ \A d \in Cands \ {c} : addrs'[d] = addrs[d]
  BY <1>1
<1>3. as \in Seq(Range(as)) /\ V4First(as) /\ Len(as) > 0
  <2>1. CASE as = <<Hosts[c]>>
    <3>1. Len(as) = 1 /\ as \in Seq({Hosts[c]}) /\ DOMAIN as = {1}
      BY <2>1
    <3>2. as \in Seq(Range(as))
      BY <3>1, SeqOfRange
    <3>3. \A i, j \in 1 .. Len(as) : ~(i < j)
      BY <3>1, SMT
    <3>4. V4First(as)
      BY <3>3, Zenon DEF V4First
    <3>5. Len(as) > 0
      BY <3>1, SMT
    <3> QED
      BY <3>2, <3>4, <3>5, Zenon
  <2>2. CASE \E answer \in Answers[c] : as = IPv4First(answer)
    <3>1. PICK answer \in Answers[c] : as = IPv4First(answer)
      BY <2>2
    <3>2. answer \in Seq(V4 \cup V6) \ {<<>>}
      BY <3>1, ProbeAssumption DEF ProbeAssumption, Cands
    <3>3. as \in Seq(V4 \cup V6) /\ Len(as) > 0 /\ V4First(as)
      BY <3>1, <3>2, FamiliesInOrder
    <3>4. as \in Seq(Range(as))
      BY <3>3, SeqOfRange
    <3> QED
      BY <3>3, <3>4
  <2> QED
    BY <1>1, <2>1, <2>2
<1> QED
  BY <1>2, <1>3

(* Every step keeps SelectInv: an address more is tried as long as one is left, and     *)
(* once a node is chosen there is nothing left to probe.                                *)
LEMMA SelectStep ==
    ASSUME ProbeInv, SelectInv, [ProbeNext]_probeVars
    PROVE  SelectInv'
<1>0. /\ \A c \in Cands : Tried(c) /\ Remembered(c) /\ Addresses(c)
      /\ chosen # Null => Chosen
  BY DEF ProbeInv, SelectInv
<1>1. CASE ChooseDialer \/ UNCHANGED probeVars
  <2>1. UNCHANGED <<addrs, tried, report, chosen>>
    BY <1>1 DEF ChooseDialer, probeVars
  <2>2. \A c \in Cands : Addresses(c)'
    BY <1>0, <2>1 DEF Addresses, Done
  <2>3. Chosen' <=> Chosen
    BY <2>1 DEF Chosen, Done, Sorted
  <2> QED
    BY <1>0, <2>1, <2>2, <2>3 DEF SelectInv
<1>2. ASSUME NEW c \in Cands, Resolve(c) PROVE SelectInv'
  <2>1. UNCHANGED <<tried, report, chosen>> /\ addrs[c] = Null
    BY <1>2 DEF Resolve
  <2>2. tried[c] = <<>>
    BY <1>0, <2>1 DEF Tried
  <2>3. ~Done(c)
    BY <1>0, <2>2 DEF Remembered
  <2>4. chosen' = Null
    BY <1>0, <2>1, <2>3 DEF Chosen
  <2>5. /\ addrs'[c] \in Seq(Range(addrs'[c])) /\ V4First(addrs'[c]) /\ Len(addrs'[c]) > 0
        /\ \A d \in Cands \ {c} : addrs'[d] = addrs[d]
    BY <1>2, ResolveGives DEF ProbeInv
  <2>6. Addresses(c)'
    <3>1. Len(tried'[c]) = 0 /\ \A i \in 1 .. Len(tried'[c]) : FALSE
      BY <2>1, <2>2
    <3>2. Len(addrs'[c]) \in Nat
      BY <2>5, LenProperties
    <3>3. Len(tried'[c]) <= Len(addrs'[c]) /\ Len(tried'[c]) < Len(addrs'[c])
      BY <2>5, <3>1, <3>2
    <3> QED
      BY <2>5, <3>1, <3>3 DEF Addresses
  <2>7. ASSUME NEW d \in Cands, d # c PROVE Addresses(d)'
    <3>1. addrs'[d] = addrs[d]
      BY <2>5, <2>7
    <3> QED
      BY <1>0, <2>1, <3>1 DEF Addresses, Done
  <2> QED
    BY <2>4, <2>6, <2>7 DEF SelectInv
<1>3. ASSUME NEW c \in Cands, ProbeAddr(c) PROVE SelectInv'
  <2> DEFINE n == Len(tried[c]) + 1
  <2>1. PICK r \in Outcomes(addrs[c][n]) :
           /\ tried' = [tried EXCEPT ![c] = Append(tried[c], r)]
           /\ first' = [first EXCEPT ![c] = IF Better(first[c], r) THEN r ELSE first[c]]
           /\ report' = [report EXCEPT ![c] =
                 IF Usable(r) THEN r
                 ELSE IF n = Len(addrs[c])
                      THEN IF Better(first[c], r) THEN r ELSE first[c]
                      ELSE report[c]]
    BY <1>3, ProbeAddrStep
  <2>2. UNCHANGED <<addrs, chosen>> /\ addrs[c] # Null /\ ~Done(c)
    BY <1>3 DEF ProbeAddr, Done
  <2>3. chosen' = Null
    BY <1>0, <2>2 DEF Chosen
  <2>4. /\ tried'[c] = Append(tried[c], r)
        /\ report'[c] = IF Usable(r) THEN r
                        ELSE IF n = Len(addrs[c])
                             THEN IF Better(first[c], r) THEN r ELSE first[c]
                             ELSE report[c]
        /\ \A d \in Cands \ {c} : tried'[d] = tried[d] /\ report'[d] = report[d]
    BY <2>1 DEF ProbeInv
  <2>5. tried[c] \in Seq(Range(tried[c]))
    BY <1>0 DEF Tried
  <2>6. /\ Len(tried'[c]) = n /\ Len(tried[c]) \in Nat
        /\ \A i \in 1 .. Len(tried[c]) : tried'[c][i] = tried[c][i]
        /\ tried'[c][n] = r
    BY <2>4, <2>5, Appended
  <2>7. /\ addrs[c] \in Seq(Range(addrs[c])) /\ V4First(addrs[c])
        /\ Len(tried[c]) < Len(addrs[c])
        /\ \A i \in 1 .. Len(tried[c]) : /\ tried[c][i].addr = addrs[c][i]
                                         /\ tried[c][i].latency \in Latencies \cup {Null}
    BY <1>0, <2>2 DEF Addresses
  <2>8. Real(r) /\ r.addr = addrs[c][n] /\ r.latency \in Latencies \cup {Null}
    BY OutcomesAreReal, OutcomeLatency
  <2>9. n = Len(addrs[c]) => report'[c] # NoResult
    <3>1. r # NoResult
      BY <2>8 DEF Real
    <3>2. ~Better(first[c], r) => first[c] # NoResult
      BY DEF Better
    <3> QED
      BY <2>4, <3>1, <3>2
  <2>10. Addresses(c)'
    <3>1. Len(addrs[c]) \in Nat
      BY <2>7, LenProperties
    <3>2. n <= Len(addrs[c]) /\ (n # Len(addrs[c]) => n < Len(addrs[c]))
      BY <2>6, <2>7, <3>1, SMT
    <3>3. \A i \in 1 .. n : i = n \/ i \in 1 .. Len(tried[c])
      BY <2>6, SMT
    <3>4. \A i \in 1 .. Len(tried'[c]) : /\ tried'[c][i].addr = addrs[c][i]
                                         /\ tried'[c][i].latency \in Latencies \cup {Null}
      BY <2>6, <2>7, <2>8, <3>3
    <3> HIDE DEF n
    <3> QED
      BY <2>2, <2>6, <2>7, <2>9, <3>2, <3>4 DEF Addresses, Done
  <2>11. ASSUME NEW d \in Cands, d # c PROVE Addresses(d)'
    BY <1>0, <2>2, <2>4, <2>11 DEF Addresses, Done
  <2> QED
    BY <2>3, <2>10, <2>11 DEF SelectInv
<1>4. CASE Rank
  <2>1. UNCHANGED <<addrs, tried, report>> /\ \A c \in Cands : Done(c)
    BY <1>4 DEF Rank
  <2>2. \A c \in Cands : Addresses(c)'
    BY <1>0, <2>1 DEF Addresses, Done
  <2>3. ranked' \in Bijection(Cands, Cands) /\ Sorted(ranked') /\ chosen' = Choice(report[ranked'[1]])
    BY <1>4 DEF Rank
  <2>4. \A p : Sorted(p)' <=> Sorted(p)
    BY <2>1 DEF Sorted
  <2>5. Chosen'
    BY <2>1, <2>3, <2>4 DEF Chosen, Done
  <2> QED
    BY <2>2, <2>5 DEF SelectInv
<1> QED
  BY <1>1, <1>2, <1>3, <1>4 DEF ProbeNext
\* The addresses of the candidates, and what was chosen, in every state.
LEMMA SelectInvariant == ProbeSpec => [](ProbeInv /\ SelectInv)
<1>1. ProbeInit => SelectInv
  BY DEF ProbeInit, SelectInv, Addresses
<1> QED
  BY <1>1, ProbeInvariant, SelectStep, PTL DEF ProbeSpec

(* A candidate is reported as usable when one of its addresses was, by the first that   *)
(* was, with the latency of that one.                                                   *)
LEMMA FirstUsable ==
    ASSUME ProbeInv, SelectInv, NEW c \in Cands, Done(c)
    PROVE  /\ Usable(report[c]) <=> \E i \in DOMAIN tried[c] : Usable(tried[c][i])
           /\ Usable(report[c]) =>
                 /\ report[c].latency \in Nat
                 /\ addrs[c] # Null
                 /\ \E i \in 1 .. Len(tried[c]) :
                       /\ report[c] = tried[c][i]
                       /\ \A j \in 1 .. Len(tried[c]) : j < i => ~Usable(tried[c][j])
<1>1. /\ tried[c] # <<>> /\ FirstBest(report[c], tried[c]) /\ addrs[c] # Null
      /\ \A i \in DOMAIN tried[c] : Real(tried[c][i])
      /\ tried[c] \in Seq(Range(tried[c]))
  BY DEF ProbeInv, Remembered, Tried
<1>2. DOMAIN tried[c] = 1 .. Len(tried[c])
  BY <1>1, LenProperties
<1>3. PICK i \in DOMAIN tried[c] :
         /\ report[c] = tried[c][i]
         /\ \A j \in DOMAIN tried[c] : /\ Worth(tried[c][j]) <= Worth(report[c])
                                       /\ j < i => Worth(tried[c][j]) < Worth(report[c])
  BY <1>1 DEF FirstBest
<1>4. Real(report[c])
  BY <1>1, <1>3
<1>5. ASSUME NEW j \in DOMAIN tried[c], Usable(tried[c][j])
      PROVE  Usable(report[c]) /\ ~(j < i)
  <2>1. Worth(tried[c][j]) = 2
    BY <1>1, <1>5, WorthRange
  <2>2. Worth(report[c]) \in {0, 1, 2} /\ (Worth(report[c]) = 2 => Usable(report[c]))
    BY DEF Worth
  <2> QED
    BY <1>3, <2>1, <2>2, SMT
<1>6. Usable(report[c]) => report[c].latency \in Nat
  <2>1. Usable(report[c]) => report[c].latency # Null
    BY <1>4 DEF Real
  <2>2. report[c].latency \in Latencies \cup {Null}
    BY <1>1, <1>2, <1>3 DEF SelectInv, Addresses
  <2> QED
    BY <2>1, <2>2, ProbeAssumption DEF ProbeAssumption
<1> QED
  BY <1>1, <1>2, <1>3, <1>5, <1>6

(* If any candidate is usable, the first of a sorted order is, and no other usable one  *)
(* is faster, nor as fast and before it in the file.                                    *)
LEMMA FirstOfSorted ==
    ASSUME NEW p \in Bijection(Cands, Cands), Sorted(p),
           \A c \in Cands : Usable(report[c]) => report[c].latency \in Nat
    PROVE  /\ p[1] \in Cands
           /\ \A d \in Cands : Usable(report[d]) => Usable(report[p[1]])
           /\ \A d \in Cands \ {p[1]} : Usable(report[d]) =>
                 \/ report[p[1]].latency < report[d].latency
                 \/ report[p[1]].latency = report[d].latency /\ p[1] < d
<1>1. Cands = 1 .. Len(Hosts) /\ Len(Hosts) \in Nat /\ Len(Hosts) # 0
  BY LenProperties, EmptySeq, ProbeAssumption DEF ProbeAssumption, Cands
<1>2. /\ p \in [Cands -> Cands]
      /\ \A d \in Cands : \E k \in Cands : p[k] = d
  BY DEF Bijection, Surjection
<1>3. 1 \in Cands /\ \A k \in Cands : k # 1 => 1 < k
  BY <1>1, SMT
<1>4. p[1] \in Cands
  BY <1>2, <1>3
<1>5. ASSUME NEW d \in Cands, d # p[1]
      PROVE  \/ Before(report[p[1]], report[d])
             \/ ~Before(report[d], report[p[1]]) /\ p[1] < d
  <2>1. PICK k \in Cands : p[k] = d
    BY <1>2
  <2>2. 1 < k
    BY <1>3, <1>5, <2>1
  <2> QED
    BY <1>3, <2>1, <2>2 DEF Sorted
<1>6. ASSUME NEW d \in Cands, Usable(report[d]) PROVE Usable(report[p[1]])
  <2>1. CASE d # p[1]
    BY <1>5, <1>6, <2>1 DEF Before
  <2> QED
    BY <1>6, <2>1
<1>7. ASSUME NEW d \in Cands, d # p[1], Usable(report[d])
      PROVE  \/ report[p[1]].latency < report[d].latency
             \/ report[p[1]].latency = report[d].latency /\ p[1] < d
  <2>1. Usable(report[p[1]]) /\ report[p[1]].latency \in Nat /\ report[d].latency \in Nat
    BY <1>4, <1>6, <1>7
  <2>2. \/ report[p[1]].latency < report[d].latency
        \/ ~(report[d].latency < report[p[1]].latency) /\ p[1] < d
    BY <1>5, <1>7, <2>1 DEF Before
  <2>3. \A l, m \in Nat : l < m \/ m < l \/ l = m
    BY SMT
  <2> QED
    BY <2>1, <2>2, <2>3
<1> QED
  BY <1>4, <1>6, <1>7

(* NODE-02 and NODE-03, for any number of candidates and addresses: select takes an     *)
(* address that was usable if any was, of the fastest candidate and on equal terms of   *)
(* the first of the file, and one of IPv6 only if no IPv4 one of that candidate is.     *)
THEOREM BestSelected == ProbeSpec => []BestIsSelected
<1>1. ASSUME ProbeInv, SelectInv PROVE BestIsSelected
  <2> SUFFICES ASSUME chosen # Null PROVE BestIsSelected
    BY DEF BestIsSelected
  <2> DEFINE good(c) == {i \in DOMAIN tried[c] : Usable(tried[c][i])}
             bad(c)  == {tried[c][i].addr : i \in DOMAIN tried[c] \ good(c)}
  <2>1. \A c \in Cands : Done(c)
    BY <1>1 DEF SelectInv, Chosen
  <2>2. PICK p \in Bijection(Cands, Cands) : Sorted(p) /\ chosen = Choice(report[p[1]])
    BY <1>1 DEF SelectInv, Chosen
  <2>3. \A c \in Cands : Usable(report[c]) <=> good(c) # {}
    BY <1>1, <2>1, FirstUsable
  <2>4. \A c \in Cands : Usable(report[c]) => report[c].latency \in Nat
    BY <1>1, <2>1, FirstUsable
  <2> DEFINE b == p[1]
  <2>5. /\ b \in Cands
        /\ \A d \in Cands : Usable(report[d]) => Usable(report[b])
        /\ \A d \in Cands \ {b} : Usable(report[d]) =>
              \/ report[b].latency < report[d].latency
              \/ report[b].latency = report[d].latency /\ b < d
    BY <2>2, <2>4, FirstOfSorted
  <2>6. CASE \A c \in Cands : good(c) = {}
    <3>1. ~Usable(report[b])
      BY <2>3, <2>5, <2>6
    <3>2. chosen = "exitCheck"
      BY <2>2, <3>1 DEF Choice
    <3> QED
      BY <2>6, <3>2 DEF BestIsSelected
  <2>7. CASE ~\A c \in Cands : good(c) = {}
    <3>1. Usable(report[b]) /\ Done(b)
      BY <2>1, <2>3, <2>5, <2>7
    <3>2. chosen = report[b].addr
      BY <2>2, <3>1 DEF Choice
    <3>3. addrs[b] # Null
      BY <1>1, <2>5, <3>1, FirstUsable
    <3>4. PICK i \in 1 .. Len(tried[b]) :
             /\ report[b] = tried[b][i]
             /\ \A j \in 1 .. Len(tried[b]) : j < i => ~Usable(tried[b][j])
      BY <1>1, <2>5, <3>1, FirstUsable
    <3>5. /\ tried[b] \in Seq(Range(tried[b])) /\ addrs[b] \in Seq(Range(addrs[b]))
          /\ V4First(addrs[b]) /\ Len(tried[b]) <= Len(addrs[b])
          /\ \A j \in 1 .. Len(tried[b]) : tried[b][j].addr = addrs[b][j]
      BY <1>1, <2>5, <3>3 DEF ProbeInv, SelectInv, Tried, Addresses
    <3>6. /\ DOMAIN tried[b] = 1 .. Len(tried[b]) /\ Len(tried[b]) \in Nat
          /\ DOMAIN addrs[b] = 1 .. Len(addrs[b]) /\ Len(addrs[b]) \in Nat
      BY <3>5, LenProperties
    <3>7. i \in good(b) /\ chosen = tried[b][i].addr /\ chosen = addrs[b][i]
      BY <3>1, <3>2, <3>4, <3>5, <3>6
    <3>8. ASSUME chosen \in V6, NEW a \in V4 \cap Range(addrs[b])
          PROVE  a \in bad(b)
      <4>1. PICK j \in 1 .. Len(addrs[b]) : a = addrs[b][j]
        BY <3>6, <3>8 DEF Range
      <4>2. addrs[b][i] \notin V4 /\ addrs[b][j] \in V4
        BY <3>7, <3>8, <4>1, ProbeAssumption DEF ProbeAssumption
      <4>3. i \in 1 .. Len(addrs[b])
        BY <3>5, <3>6, SMT
      <4>4. ~(i < j) /\ i # j
        BY <3>5, <4>2, <4>3 DEF V4First
      <4>5. j < i /\ j \in 1 .. Len(tried[b])
        BY <3>6, <4>4, SMT
      <4>6. j \in DOMAIN tried[b] \ good(b) /\ a = tried[b][j].addr
        BY <3>4, <3>5, <3>6, <4>1, <4>5
      <4> QED
        BY <4>6
    <3>9. \A d \in Cands \ {b} : good(d) # {} =>
             \/ report[b].latency < report[d].latency
             \/ report[b].latency = report[d].latency /\ b < d
      BY <2>3, <2>5
    <3>10. chosen \in V6 => V4 \cap Range(addrs[b]) \subseteq bad(b)
      BY <3>8
    <3>11. \E c \in Cands :
              /\ \E k \in good(c) : chosen = tried[c][k].addr
              /\ chosen \in V6 => V4 \cap Range(addrs[c]) \subseteq bad(c)
              /\ \A d \in Cands \ {c} : good(d) # {} =>
                    \/ report[c].latency < report[d].latency
                    \/ report[c].latency = report[d].latency /\ c < d
      <4> HIDE DEF good, bad, b
      <4> QED
        BY <2>5, <3>7, <3>9, <3>10
    <3> QED
      BY <2>7, <3>11, Zenon DEF BestIsSelected
  <2> QED
    BY <2>6, <2>7
<1> QED
  BY <1>1, SelectInvariant, PTL

-----------------------------------------------------------------------------
(* The dialer of a proxy. *)

\* How many bytes of the reply are read when the dialer is where it is.
TakenAt ==
    CASE at = "length" -> 4
      [] at = "rest"   -> IF reply.type = 3 THEN 5 ELSE 4
      [] at = "end"    -> taken
      [] OTHER         -> 0

\* The properties, and what of the reply has been read before the end.
SocksInv ==
    /\ reply \in Replies \cup {NoReply}
    /\ at \in {"dial", "method", "request", "head", "length", "rest", "end"}
    /\ at \in {"head", "length", "rest"} => reply \in Replies
    /\ at \in {"length", "rest"} => reply.code = 0
    /\ at = "length" => reply.type = 3
    /\ taken = TakenAt
    /\ at \notin {"dial", "end"} => conn = "open"
    /\ at # "end" => dialed = "nothing"
    /\ HandedOverClean

(* Every step of the dialer keeps SocksInv. *)
LEMMA SocksStep ==
    ASSUME SocksInv, [SocksNext]_socksVars
    PROVE  SocksInv'
  <1> USE DEF SocksInv, TakenAt, HandedOverClean, NoReply
  <1>0. \A r \in Replies : /\ r.code \in {0, 1} /\ r.type \in {1, 3, 4}
                           /\ r.type = 3 => r.name \in Nat
    BY Socks5Assumption, SMT DEF Replies, Socks5Assumption
  <1>1. CASE Dial
    BY <1>1, SMT DEF Dial
  <1>2. CASE SocksFail
    BY <1>2, SMT DEF SocksFail, Closed
  <1>3. CASE Method
    BY <1>3, SMT DEF Method
  <1>4. CASE Request
    BY <1>4, SMT DEF Request
  <1>5. CASE ReadReplyHead
    BY <1>0, <1>5, SMT DEF ReadReplyHead
  <1>6. CASE ReadLength
    BY <1>0, <1>6, SMT DEF ReadLength
  <1>7. CASE ReadRest
    BY <1>0, <1>7, SMT DEF ReadRest, Skipped
  <1>8. CASE UNCHANGED socksVars
    BY <1>8 DEF socksVars
  <1>9. QED
    BY <1>1, <1>2, <1>3, <1>4, <1>5, <1>6, <1>7, <1>8 DEF SocksNext

\* The strengthened invariant of the dialer, in every state.
LEMMA SocksInvariant == SocksSpec => []SocksInv
  <1>1. SocksInit => SocksInv
    BY SMT DEF SocksInit, SocksInv, TakenAt, HandedOverClean
  <1>2. QED
    BY <1>1, SocksStep, PTL DEF SocksSpec

(* Whatever type of address the reply holds, and however long a name, a connection is  *)
(* handed over with exactly the reply read, open and without a deadline, or closed.    *)
THEOREM SocksHandsOverClean == SocksSpec => []HandedOverClean
  <1>1. SocksInv => HandedOverClean
    BY DEF SocksInv
  <1>2. QED
    BY <1>1, SocksInvariant, PTL

-----------------------------------------------------------------------------
(* The fields of an answer. *)

(* The loops of walk and of Get over the paths that there are. *)
LEMMA WalkIs ==
    /\ \A o, a : Walk(o, <<a>>) = Into(Found(o, <<>>), a)
    /\ \A o, a, b : Walk(o, <<a, b>>) = Into(Into(Found(o, <<>>), a), b)
<1>1. ASSUME NEW o, NEW a PROVE Walk(o, <<a>>) = Into(Found(o, <<>>), a)
  <2> DEFINE Rec(r) == r = [n \in 0 .. 1 |-> IF n = 0 THEN Found(o, <<>>)
                                             ELSE Into(r[n - 1], <<a>>[n])]
             W == CHOOSE r : Rec(r)
             f == [n \in 0 .. 1 |-> IF n = 0 THEN Found(o, <<>>) ELSE Into(Found(o, <<>>), a)]
  <2>1. Walk(o, <<a>>) = W[1]
    BY DEF Walk
  <2>2. Rec(f)
    <3>1. \A n \in 0 .. 1 : n = 0 \/ (n = 1 /\ n - 1 = 0)
      BY SMT
    <3>2. \A n \in 0 .. 1 : f[n] = IF n = 0 THEN Found(o, <<>>) ELSE Into(f[n - 1], <<a>>[n])
      BY <3>1
    <3> QED
      BY <3>2
  <2>3. Rec(W)
    <3> HIDE DEF Rec, f
    <3> QED
      BY <2>2
  <2>4. W[0] = Found(o, <<>>) /\ W[1] = Into(W[0], a)
    <3> HIDE DEF W
    <3> QED
      BY <2>3
  <2> QED
    BY <2>1, <2>4
<1>2. ASSUME NEW o, NEW a, NEW b
      PROVE  Walk(o, <<a, b>>) = Into(Into(Found(o, <<>>), a), b)
  <2> DEFINE Rec(r) == r = [n \in 0 .. 2 |-> IF n = 0 THEN Found(o, <<>>)
                                             ELSE Into(r[n - 1], <<a, b>>[n])]
             W == CHOOSE r : Rec(r)
             f == [n \in 0 .. 2 |-> IF n = 0 THEN Found(o, <<>>)
                                    ELSE IF n = 1 THEN Into(Found(o, <<>>), a)
                                    ELSE Into(Into(Found(o, <<>>), a), b)]
  <2>1. Walk(o, <<a, b>>) = W[2]
    BY DEF Walk
  <2>2. Rec(f)
    <3>1. \A n \in 0 .. 2 : n = 0 \/ (n = 1 /\ n - 1 = 0) \/ (n = 2 /\ n - 1 = 1)
      BY SMT
    <3>2. \A n \in 0 .. 2 : f[n] = IF n = 0 THEN Found(o, <<>>) ELSE Into(f[n - 1], <<a, b>>[n])
      BY <3>1
    <3> QED
      BY <3>2
  <2>3. Rec(W)
    <3> HIDE DEF Rec, f
    <3> QED
      BY <2>2
  <2>4. W[0] = Found(o, <<>>) /\ W[1] = Into(W[0], a) /\ W[2] = Into(W[1], b)
    <3> HIDE DEF W
    <3> QED
      BY <2>3
  <2> QED
    BY <2>1, <2>4
<1> QED
  BY <1>1, <1>2

(* The loop of Get over a path of any of the lengths there are. *)
LEMMA GetIs ==
    /\ \A v : Get(v, <<>>) = v
    /\ \A v, a : Get(v, <<a>>) = Member(v, a)
    /\ \A v, a, b : Get(v, <<a, b>>) = Member(Member(v, a), b)
    /\ \A v, a, b, c : Get(v, <<a, b, c>>) = Member(Member(Member(v, a), b), c)
<1>0. ASSUME NEW v PROVE Get(v, <<>>) = v
  <2> DEFINE Rec(r) == r = [n \in 0 .. 0 |-> IF n = 0 THEN v ELSE Member(r[n - 1], <<>>[n])]
             W == CHOOSE r : Rec(r)
             f == [n \in 0 .. 0 |-> v]
  <2>1. Get(v, <<>>) = W[0]
    BY DEF Get
  <2>2. Rec(f)
    <3>1. \A n \in 0 .. 0 : n = 0
      BY SMT
    <3> QED
      BY <3>1
  <2>3. Rec(W)
    <3> HIDE DEF Rec, f
    <3> QED
      BY <2>2
  <2>4. W[0] = v
    <3> HIDE DEF W
    <3> QED
      BY <2>3
  <2> QED
    BY <2>1, <2>4
<1>1. ASSUME NEW v, NEW a PROVE Get(v, <<a>>) = Member(v, a)
  <2> DEFINE Rec(r) == r = [n \in 0 .. 1 |-> IF n = 0 THEN v ELSE Member(r[n - 1], <<a>>[n])]
             W == CHOOSE r : Rec(r)
             f == [n \in 0 .. 1 |-> IF n = 0 THEN v ELSE Member(v, a)]
  <2>1. Get(v, <<a>>) = W[1]
    BY DEF Get
  <2>2. Rec(f)
    <3>1. \A n \in 0 .. 1 : n = 0 \/ (n = 1 /\ n - 1 = 0)
      BY SMT
    <3>2. \A n \in 0 .. 1 : f[n] = IF n = 0 THEN v ELSE Member(f[n - 1], <<a>>[n])
      BY <3>1
    <3> QED
      BY <3>2
  <2>3. Rec(W)
    <3> HIDE DEF Rec, f
    <3> QED
      BY <2>2
  <2>4. W[0] = v /\ W[1] = Member(W[0], a)
    <3> HIDE DEF W
    <3> QED
      BY <2>3
  <2> QED
    BY <2>1, <2>4
<1>2. ASSUME NEW v, NEW a, NEW b
      PROVE  Get(v, <<a, b>>) = Member(Member(v, a), b)
  <2> DEFINE Rec(r) == r = [n \in 0 .. 2 |-> IF n = 0 THEN v ELSE Member(r[n - 1], <<a, b>>[n])]
             W == CHOOSE r : Rec(r)
             f == [n \in 0 .. 2 |-> IF n = 0 THEN v ELSE IF n = 1 THEN Member(v, a)
                                    ELSE Member(Member(v, a), b)]
  <2>1. Get(v, <<a, b>>) = W[2]
    BY DEF Get
  <2>2. Rec(f)
    <3>1. \A n \in 0 .. 2 : n = 0 \/ (n = 1 /\ n - 1 = 0) \/ (n = 2 /\ n - 1 = 1)
      BY SMT
    <3>2. \A n \in 0 .. 2 : f[n] = IF n = 0 THEN v ELSE Member(f[n - 1], <<a, b>>[n])
      BY <3>1
    <3> QED
      BY <3>2
  <2>3. Rec(W)
    <3> HIDE DEF Rec, f
    <3> QED
      BY <2>2
  <2>4. W[0] = v /\ W[1] = Member(W[0], a) /\ W[2] = Member(W[1], b)
    <3> HIDE DEF W
    <3> QED
      BY <2>3
  <2> QED
    BY <2>1, <2>4
<1>3. ASSUME NEW v, NEW a, NEW b, NEW c
      PROVE  Get(v, <<a, b, c>>) = Member(Member(Member(v, a), b), c)
  <2> DEFINE Rec(r) == r = [n \in 0 .. 3 |-> IF n = 0 THEN v ELSE Member(r[n - 1], <<a, b, c>>[n])]
             W == CHOOSE r : Rec(r)
             f == [n \in 0 .. 3 |-> IF n = 0 THEN v ELSE IF n = 1 THEN Member(v, a)
                                    ELSE IF n = 2 THEN Member(Member(v, a), b)
                                    ELSE Member(Member(Member(v, a), b), c)]
  <2>1. Get(v, <<a, b, c>>) = W[3]
    BY DEF Get
  <2>2. Rec(f)
    <3>1. \A n \in 0 .. 3 : n = 0 \/ (n = 1 /\ n - 1 = 0) \/ (n = 2 /\ n - 1 = 1) \/ (n = 3 /\ n - 1 = 2)
      BY SMT
    <3>2. \A n \in 0 .. 3 : f[n] = IF n = 0 THEN v ELSE Member(f[n - 1], <<a, b, c>>[n])
      BY <3>1
    <3> QED
      BY <3>2
  <2>3. Rec(W)
    <3> HIDE DEF Rec, f
    <3> QED
      BY <2>2
  <2>4. W[0] = v /\ W[1] = Member(W[0], a) /\ W[2] = Member(W[1], b) /\ W[3] = Member(W[2], c)
    <3> HIDE DEF W
    <3> QED
      BY <2>3
  <2> QED
    BY <2>1, <2>4
<1> QED
  BY <1>0, <1>1, <1>2, <1>3

(* A tuple, cut off. *)
LEMMA Fronts ==
    /\ Len(<<>>) = 0
    /\ \A a : Len(<<a>>) = 1 /\ SubSeq(<<a>>, 1, 0) = <<>> /\ SubSeq(<<a>>, 1, 1) = <<a>>
    /\ \A a, b : /\ Len(<<a, b>>) = 2 /\ SubSeq(<<a, b>>, 1, 0) = <<>>
                 /\ SubSeq(<<a, b>>, 1, 1) = <<a>> /\ SubSeq(<<a, b>>, 1, 2) = <<a, b>>
    /\ \A a, b, c : /\ Len(<<a, b, c>>) = 3 /\ SubSeq(<<a, b, c>>, 1, 0) = <<>>
                    /\ SubSeq(<<a, b, c>>, 1, 1) = <<a>> /\ SubSeq(<<a, b, c>>, 1, 2) = <<a, b>>
                    /\ SubSeq(<<a, b, c>>, 1, 3) = <<a, b, c>>
<1>1. ASSUME NEW a, NEW b, NEW c
      PROVE  /\ Len(<<>>) = 0 /\ Len(<<a>>) = 1 /\ Len(<<a, b>>) = 2 /\ Len(<<a, b, c>>) = 3
             /\ SubSeq(<<a>>, 1, 0) = <<>> /\ SubSeq(<<a>>, 1, 1) = <<a>>
             /\ SubSeq(<<a, b>>, 1, 0) = <<>> /\ SubSeq(<<a, b>>, 1, 1) = <<a>>
             /\ SubSeq(<<a, b>>, 1, 2) = <<a, b>>
             /\ SubSeq(<<a, b, c>>, 1, 0) = <<>> /\ SubSeq(<<a, b, c>>, 1, 1) = <<a>>
             /\ SubSeq(<<a, b, c>>, 1, 2) = <<a, b>> /\ SubSeq(<<a, b, c>>, 1, 3) = <<a, b, c>>
  <2> DEFINE S == {a, b, c}
  <2>1. /\ Len(<<>>) = 0 /\ Len(<<a>>) = 1 /\ Len(<<a, b>>) = 2 /\ Len(<<a, b, c>>) = 3
        /\ <<a>> \in Seq(S) /\ <<a, b>> \in Seq(S) /\ <<a, b, c>> \in Seq(S)
    OBVIOUS
  <2>2. \A s \in Seq(S) : \A n \in 0 .. Len(s) : SubSeq(s, 1, n) = [i \in 1 .. n |-> s[i]]
    <3> HIDE DEF S
    <3> QED
      BY SubSeqRestrict DEF Restrict
  <2>3. SubSeq(<<a>>, 1, 0) = <<>> /\ SubSeq(<<a, b>>, 1, 0) = <<>> /\ SubSeq(<<a, b, c>>, 1, 0) = <<>>
    BY SubSeqEmpty
  <2>4. SubSeq(<<a>>, 1, 1) = <<a>> /\ SubSeq(<<a, b>>, 1, 2) = <<a, b>> /\ SubSeq(<<a, b, c>>, 1, 3) = <<a, b, c>>
    <3> HIDE DEF S
    <3> QED
      BY <2>1, SubSeqFull
  <2>5. SubSeq(<<a, b>>, 1, 1) = <<a>>
    <3>1. SubSeq(<<a, b>>, 1, 1) = [i \in 1 .. 1 |-> <<a, b>>[i]]
      <4> HIDE DEF S
      <4> QED
        BY <2>1, <2>2
    <3>2. [i \in 1 .. 1 |-> <<a, b>>[i]] = <<a>>
      BY SMT
    <3> QED
      BY <3>1, <3>2
  <2>6. SubSeq(<<a, b, c>>, 1, 1) = <<a>>
    <3>1. SubSeq(<<a, b, c>>, 1, 1) = [i \in 1 .. 1 |-> <<a, b, c>>[i]]
      <4> HIDE DEF S
      <4> QED
        BY <2>1, <2>2
    <3>2. [i \in 1 .. 1 |-> <<a, b, c>>[i]] = <<a>>
      BY SMT
    <3> QED
      BY <3>1, <3>2
  <2>7. SubSeq(<<a, b, c>>, 1, 2) = <<a, b>>
    <3>1. SubSeq(<<a, b, c>>, 1, 2) = [i \in 1 .. 2 |-> <<a, b, c>>[i]]
      <4> HIDE DEF S
      <4> QED
        BY <2>1, <2>2
    <3>2. [i \in 1 .. 2 |-> <<a, b, c>>[i]] = <<a, b>>
      BY SMT
    <3> QED
      BY <3>1, <3>2
  <2> QED
    BY <2>1, <2>3, <2>4, <2>5, <2>6, <2>7
<1> QED
  BY <1>1

(* The loop of Put. *)
LEMMA PutIs ==
    /\ \A v, a, new : Put(v, <<a>>, new) = With(v, a, new)
    /\ \A v, a, b, new : Put(v, <<a, b>>, new) = With(v, a, With(Member(v, a), b, new))
    /\ \A v, a, b, c, new : Put(v, <<a, b, c>>, new) =
          With(v, a, With(Member(v, a), b, With(Member(Member(v, a), b), c, new)))
<1>1. ASSUME NEW v, NEW a, NEW new
      PROVE  Put(v, <<a>>, new) = With(v, a, new)
  <2> DEFINE parent(n) == Get(v, SubSeq(<<a>>, 1, Len(<<a>>) - n))
             Rec(r) == r = [n \in 0 .. 1 |-> IF n = 0 THEN new
                                             ELSE With(parent(n), <<a>>[1 - n + 1], r[n - 1])]
             W == CHOOSE r : Rec(r)
             f == [n \in 0 .. 1 |-> IF n = 0 THEN new ELSE With(parent(1), a, new)]
  <2>1. Put(v, <<a>>, new) = W[1]
    BY DEF Put
  <2>2. Rec(f)
    <3>1. \A n \in 0 .. 1 : n = 0 \/ (n = 1 /\ n - 1 = 0 /\ 1 - n + 1 = 1)
      BY SMT
    <3>2. \A n \in 0 .. 1 : f[n] = IF n = 0 THEN new ELSE With(parent(n), <<a>>[1 - n + 1], f[n - 1])
      <4> HIDE DEF parent
      <4> QED
        BY <3>1
    <3> HIDE DEF parent
    <3> QED
      BY <3>2
  <2>3. Rec(W)
    <3> HIDE DEF Rec, f
    <3> QED
      BY <2>2
  <2>4. W[0] = new /\ W[1] = With(parent(1), a, W[0])
    <3>1. 1 - 1 + 1 = 1 /\ 1 - 1 = 0 /\ 0 \in 0 .. 1 /\ 1 \in 0 .. 1
      BY SMT
    <3> HIDE DEF W, parent
    <3> QED
      BY <2>3, <3>1
  <2>5. parent(1) = v
    <3>1. Len(<<a>>) - 1 = 0 /\ SubSeq(<<a>>, 1, 0) = <<>> /\ Get(v, <<>>) = v
      BY Fronts, GetIs
    <3> QED
      BY <3>1
  <2> QED
    BY <2>1, <2>4, <2>5
<1>2. ASSUME NEW v, NEW a, NEW b, NEW new
      PROVE  Put(v, <<a, b>>, new) = With(v, a, With(Member(v, a), b, new))
  <2> DEFINE parent(n) == Get(v, SubSeq(<<a, b>>, 1, Len(<<a, b>>) - n))
             Rec(r) == r = [n \in 0 .. 2 |-> IF n = 0 THEN new
                                             ELSE With(parent(n), <<a, b>>[2 - n + 1], r[n - 1])]
             W == CHOOSE r : Rec(r)
             f == [n \in 0 .. 2 |-> IF n = 0 THEN new ELSE IF n = 1 THEN With(parent(1), b, new)
                                    ELSE With(parent(2), a, With(parent(1), b, new))]
  <2>1. Put(v, <<a, b>>, new) = W[2]
    BY DEF Put
  <2>2. Rec(f)
    <3>1. \A n \in 0 .. 2 : \/ n = 0 \/ (n = 1 /\ n - 1 = 0 /\ 2 - n + 1 = 2)
                            \/ (n = 2 /\ n - 1 = 1 /\ 2 - n + 1 = 1)
      BY SMT
    <3>2. \A n \in 0 .. 2 : f[n] = IF n = 0 THEN new
                                   ELSE With(parent(n), <<a, b>>[2 - n + 1], f[n - 1])
      <4> HIDE DEF parent
      <4> QED
        BY <3>1
    <3> HIDE DEF parent
    <3> QED
      BY <3>2
  <2>3. Rec(W)
    <3> HIDE DEF Rec, f
    <3> QED
      BY <2>2
  <2>4. W[0] = new /\ W[1] = With(parent(1), b, W[0]) /\ W[2] = With(parent(2), a, W[1])
    <3>1. /\ 2 - 1 + 1 = 2 /\ 2 - 2 + 1 = 1 /\ 1 - 1 = 0 /\ 2 - 1 = 1
          /\ 0 \in 0 .. 2 /\ 1 \in 0 .. 2 /\ 2 \in 0 .. 2
      BY SMT
    <3> HIDE DEF W, parent
    <3> QED
      BY <2>3, <3>1
  <2>5. parent(1) = Member(v, a) /\ parent(2) = v
    <3>1. Len(<<a, b>>) - 1 = 1 /\ Len(<<a, b>>) - 2 = 0
      BY SMT
    <3>2. SubSeq(<<a, b>>, 1, 1) = <<a>> /\ SubSeq(<<a, b>>, 1, 0) = <<>>
      BY Fronts
    <3>3. Get(v, <<a>>) = Member(v, a) /\ Get(v, <<>>) = v
      BY GetIs
    <3> QED
      BY <3>1, <3>2, <3>3
  <2> QED
    BY <2>1, <2>4, <2>5
<1>3. ASSUME NEW v, NEW a, NEW b, NEW c, NEW new
      PROVE  Put(v, <<a, b, c>>, new) =
                With(v, a, With(Member(v, a), b, With(Member(Member(v, a), b), c, new)))
  <2> DEFINE parent(n) == Get(v, SubSeq(<<a, b, c>>, 1, Len(<<a, b, c>>) - n))
             Rec(r) == r = [n \in 0 .. 3 |-> IF n = 0 THEN new
                                             ELSE With(parent(n), <<a, b, c>>[3 - n + 1], r[n - 1])]
             W == CHOOSE r : Rec(r)
             f == [n \in 0 .. 3 |-> IF n = 0 THEN new ELSE IF n = 1 THEN With(parent(1), c, new)
                                    ELSE IF n = 2 THEN With(parent(2), b, With(parent(1), c, new))
                                    ELSE With(parent(3), a, With(parent(2), b, With(parent(1), c, new)))]
  <2>1. Put(v, <<a, b, c>>, new) = W[3]
    BY DEF Put
  <2>2. Rec(f)
    <3>1. \A n \in 0 .. 3 : \/ n = 0 \/ (n = 1 /\ n - 1 = 0 /\ 3 - n + 1 = 3)
                            \/ (n = 2 /\ n - 1 = 1 /\ 3 - n + 1 = 2)
                            \/ (n = 3 /\ n - 1 = 2 /\ 3 - n + 1 = 1)
      BY SMT
    <3>2. \A n \in 0 .. 3 : f[n] = IF n = 0 THEN new
                                   ELSE With(parent(n), <<a, b, c>>[3 - n + 1], f[n - 1])
      <4> HIDE DEF parent
      <4> QED
        BY <3>1
    <3> HIDE DEF parent
    <3> QED
      BY <3>2
  <2>3. Rec(W)
    <3> HIDE DEF Rec, f
    <3> QED
      BY <2>2
  <2>4. /\ W[0] = new /\ W[1] = With(parent(1), c, W[0]) /\ W[2] = With(parent(2), b, W[1])
        /\ W[3] = With(parent(3), a, W[2])
    <3>1. /\ 3 - 1 + 1 = 3 /\ 3 - 2 + 1 = 2 /\ 3 - 3 + 1 = 1 /\ 1 - 1 = 0 /\ 2 - 1 = 1 /\ 3 - 1 = 2
          /\ 0 \in 0 .. 3 /\ 1 \in 0 .. 3 /\ 2 \in 0 .. 3 /\ 3 \in 0 .. 3
      BY SMT
    <3> HIDE DEF W, parent
    <3> QED
      BY <2>3, <3>1
  <2>5. parent(1) = Member(Member(v, a), b) /\ parent(2) = Member(v, a) /\ parent(3) = v
    <3>1. Len(<<a, b, c>>) - 1 = 2 /\ Len(<<a, b, c>>) - 2 = 1 /\ Len(<<a, b, c>>) - 3 = 0
      BY SMT
    <3>2. /\ SubSeq(<<a, b, c>>, 1, 2) = <<a, b>> /\ SubSeq(<<a, b, c>>, 1, 1) = <<a>>
          /\ SubSeq(<<a, b, c>>, 1, 0) = <<>>
      BY Fronts
    <3>3. Get(v, <<a, b>>) = Member(Member(v, a), b) /\ Get(v, <<a>>) = Member(v, a) /\ Get(v, <<>>) = v
      BY GetIs
    <3> QED
      BY <3>1, <3>2, <3>3
  <2> QED
    BY <2>1, <2>4, <2>5
<1> QED
  BY <1>1, <1>2, <1>3

(* The paths, and their prefixes. *)
LEMMA PrefixesAre ==
    /\ \A a : Prefixes(<<a>>) = {<<>>, <<a>>}
    /\ \A a, b : Prefixes(<<a, b>>) = {<<>>, <<a>>, <<a, b>>}
    /\ \A a, b, c : Prefixes(<<a, b, c>>) = {<<>>, <<a>>, <<a, b>>, <<a, b, c>>}
<1>1. 0 .. 1 = {0, 1} /\ 0 .. 2 = {0, 1, 2} /\ 0 .. 3 = {0, 1, 2, 3}
  BY SMT
<1>2. ASSUME NEW a PROVE Prefixes(<<a>>) = {<<>>, <<a>>}
  <2>1. SubSeq(<<a>>, 1, 0) = <<>> /\ SubSeq(<<a>>, 1, 1) = <<a>>
    BY Fronts
  <2>2. Prefixes(<<a>>) = {SubSeq(<<a>>, 1, n) : n \in {0, 1}}
    BY <1>1, Fronts DEF Prefixes
  <2>3. \A q : q \in Prefixes(<<a>>) <=> \E n \in {0, 1} : q = SubSeq(<<a>>, 1, n)
    BY <2>2
  <2> QED
    BY <2>1, <2>3
<1>3. ASSUME NEW a, NEW b PROVE Prefixes(<<a, b>>) = {<<>>, <<a>>, <<a, b>>}
  <2>1. SubSeq(<<a, b>>, 1, 0) = <<>> /\ SubSeq(<<a, b>>, 1, 1) = <<a>> /\ SubSeq(<<a, b>>, 1, 2) = <<a, b>>
    BY Fronts
  <2>2. Prefixes(<<a, b>>) = {SubSeq(<<a, b>>, 1, n) : n \in {0, 1, 2}}
    BY <1>1, Fronts DEF Prefixes
  <2>3. \A q : q \in Prefixes(<<a, b>>) <=> \E n \in {0, 1, 2} : q = SubSeq(<<a, b>>, 1, n)
    BY <2>2
  <2> QED
    BY <2>1, <2>3
<1>4. ASSUME NEW a, NEW b, NEW c
      PROVE  Prefixes(<<a, b, c>>) = {<<>>, <<a>>, <<a, b>>, <<a, b, c>>}
  <2>1. /\ SubSeq(<<a, b, c>>, 1, 0) = <<>> /\ SubSeq(<<a, b, c>>, 1, 1) = <<a>>
        /\ SubSeq(<<a, b, c>>, 1, 2) = <<a, b>> /\ SubSeq(<<a, b, c>>, 1, 3) = <<a, b, c>>
    BY Fronts
  <2>2. Prefixes(<<a, b, c>>) = {SubSeq(<<a, b, c>>, 1, n) : n \in {0, 1, 2, 3}}
    BY <1>1, Fronts DEF Prefixes
  <2>3. \A q : q \in Prefixes(<<a, b, c>>) <=> \E n \in {0, 1, 2, 3} : q = SubSeq(<<a, b, c>>, 1, n)
    BY <2>2
  <2> QED
    BY <2>1, <2>3
<1> QED
  BY <1>2, <1>3, <1>4

\* The names, the pairs and the triples that lead to the fields.
Outer == {"version", "id", "uptime"}
OfList == {<<"hugepages", "[0]">>, <<"hugepages", "[1]">>}
OfObject == {<<"results", "shares_good">>, <<"results", "shares_total">>,
             <<"connection", "pool">>, <<"connection", "uptime_ms">>}

(* Every place is one, two or three names long, and only the last may be an index. *)
LEMMA PlaceForms ==
    ASSUME NEW f \in DOMAIN Place
    PROVE  \/ \E a \in Outer : Place[f] = <<a>>
           \/ Place[f] \in OfList \cup OfObject
           \/ \E c \in Indices : Place[f] = <<"hashrate", "total", c>>
<1>1. DOMAIN Place = {"version", "id", "uptime", "hashrate10s", "hashrate60s", "hashrate15m",
                      "pagesAllocated", "pagesTotal", "good", "total", "pool", "connected"}
  BY DEF Place
<1>2. CASE f \in {"version", "id", "uptime"}
  BY <1>2 DEF Place, Outer
<1>3. CASE f \in {"hashrate10s", "hashrate60s", "hashrate15m"}
  BY <1>3 DEF Place, Indices
<1>4. CASE f \in {"pagesAllocated", "pagesTotal"}
  BY <1>4 DEF Place, OfList
<1>5. CASE f \in {"good", "total", "pool", "connected"}
  BY <1>5 DEF Place, OfObject
<1> QED
  BY <1>1, <1>2, <1>3, <1>4, <1>5

(* Every path that XMRig may change is one, two or three names long. *)
LEMMA PlacesAre ==
    ASSUME NEW path \in Places
    PROVE  \E a, b, c : path = <<a>> \/ path = <<a, b>> \/ path = <<a, b, c>>
<1>1. PICK f \in DOMAIN Place : path \in Prefixes(Place[f]) /\ path # <<>>
  BY DEF Places
<1>2. \E a, b, c : Place[f] = <<a>> \/ Place[f] = <<a, b>> \/ Place[f] = <<a, b, c>>
  BY PlaceForms DEF OfList, OfObject
<1> QED
  <2>1. ASSUME NEW a, NEW b, NEW c, Place[f] = <<a>> \/ Place[f] = <<a, b>> \/ Place[f] = <<a, b, c>>
        PROVE  path = <<a>> \/ path = <<a, b>> \/ path = <<a, b, c>>
    BY <1>1, <2>1, PrefixesAre
  <2> QED
    BY <1>2, <2>1

\* JSON as far down as Parse looks.
JSON1(v) == IsJSON(v) /\ \A w \in Inside(v) : IsJSON(w)
JSON2(v) == IsJSON(v) /\ \A w \in Inside(v) : JSON1(w)
JSON3(v) == IsJSON(v) /\ \A w \in Inside(v) : JSON2(w)

(* A member is nothing, or what is inside. *)
LEMMA MemberInside ==
    ASSUME NEW v, NEW k
    PROVE  /\ Member(v, k) = JNull \/ Member(v, k) \in Inside(v)
           /\ Member(v, k) # JNull => Holds(v, k)
  BY DEF Member, Inside, Holds

(* null is JSON, and has no members. *)
LEMMA NullIsJSON ==
    /\ JSON2(JNull) /\ JSON1(JNull) /\ IsJSON(JNull) /\ JNull.kind = "null"
    /\ \A k : Member(JNull, k) = JNull
  BY DEF JSON2, JSON1, IsJSON, Inside, JNull, Member, Holds

(* A member is JSON one level less deep. *)
LEMMA MemberIsJSON ==
    ASSUME NEW v, NEW k
    PROVE  /\ JSON3(v) => JSON2(v) /\ JSON2(Member(v, k))
           /\ JSON2(v) => JSON1(v) /\ JSON1(Member(v, k))
           /\ JSON1(v) => IsJSON(v) /\ IsJSON(Member(v, k))
  BY MemberInside, NullIsJSON DEF JSON1, JSON2, JSON3

(* A value with another member is JSON of the same kind. *)
LEMMA WithIsJSON ==
    ASSUME NEW v, NEW k, NEW new, IsJSON(v), Holds(v, k)
    PROVE  /\ With(v, k, new).kind = v.kind
           /\ IsJSON(With(v, k, new))
           /\ \A w \in Inside(With(v, k, new)) : w = new \/ w \in Inside(v)
<1> DEFINE m == [j \in DOMAIN v.members \cup {k} |-> IF j = k THEN new ELSE v.members[j]]
<1>1. v.kind \in {"array", "object"}
  BY DEF Holds
<1>2. v = [kind |-> v.kind, members |-> [j \in DOMAIN v.members |-> v.members[j]]]
  BY <1>1 DEF IsJSON
<1>3. With(v, k, new) = [kind |-> v.kind, members |-> m]
  BY <1>2 DEF With
<1>4. With(v, k, new).kind = v.kind /\ With(v, k, new).members = m
  <2> HIDE DEF m
  <2> QED
    BY <1>3
<1>5. m = [j \in DOMAIN m |-> m[j]]
  OBVIOUS
<1>6. IsJSON(With(v, k, new))
  <2> HIDE DEF m
  <2> QED
    BY <1>1, <1>3, <1>4, <1>5 DEF IsJSON
<1>7. \A j \in DOMAIN m : m[j] = new \/ m[j] \in Inside(v)
  BY <1>1 DEF Inside
<1>8. Inside(With(v, k, new)) = {m[j] : j \in DOMAIN m}
  <2> HIDE DEF m
  <2> QED
    BY <1>1, <1>4 DEF Inside
<1> QED
  <2> HIDE DEF m
  <2> QED
    BY <1>4, <1>6, <1>7, <1>8

(* Setting a member to JSON that is one level less deep keeps the depth. *)
LEMMA WithKeepsJSON ==
    ASSUME NEW v, NEW k, NEW new, Holds(v, k)
    PROVE  /\ JSON3(v) /\ JSON2(new) => JSON3(With(v, k, new))
           /\ JSON2(v) /\ JSON1(new) => JSON2(With(v, k, new))
           /\ JSON1(v) /\ IsJSON(new) => JSON1(With(v, k, new))
<1>1. IsJSON(v) => /\ IsJSON(With(v, k, new))
                   /\ \A w \in Inside(With(v, k, new)) : w = new \/ w \in Inside(v)
  BY WithIsJSON
<1> QED
  BY <1>1 DEF JSON1, JSON2, JSON3

(* What another value at a place of the body leaves. *)
LEMMA PutKeepsJSON ==
    ASSUME NEW v, JSON3(v), NEW path \in Places, NEW new \in Variants,
           Holds(Get(v, Front(path)), Last(path))
    PROVE  JSON3(Put(v, path, new)) /\ Put(v, path, new).kind = v.kind
<1>1. JSON2(new) /\ JSON1(new) /\ IsJSON(new)
  BY FieldsAssumption DEF JSON2, JSON1
<1>2. ASSUME NEW a, NEW b, NEW c, path = <<a>> \/ path = <<a, b>> \/ path = <<a, b, c>>
      PROVE  JSON3(Put(v, path, new)) /\ Put(v, path, new).kind = v.kind
  <2> DEFINE va == Member(v, a)
             vb == Member(va, b)
  <2>0. Get(v, <<>>) = v /\ Get(v, <<a>>) = va /\ Get(v, <<a, b>>) = vb
    BY GetIs
  <2>1. JSON2(va) /\ JSON1(vb)
    BY MemberIsJSON
  <2>2. /\ va # JNull => Holds(v, a)
        /\ vb # JNull => Holds(va, b)
        /\ Holds(va, b) => va # JNull
    BY MemberInside, NullIsJSON DEF Holds
  <2>3. CASE path = <<a>>
    <3>1. Front(path) = <<>> /\ Last(path) = a
      BY <2>3, Fronts DEF Front, Last
    <3>2. Put(v, path, new) = With(v, a, new) /\ Holds(v, a) /\ IsJSON(v)
      BY <2>3, <3>1, PutIs, <2>0 DEF JSON3
    <3> QED
      BY <1>1, <3>2, WithKeepsJSON, WithIsJSON
  <2>4. CASE path = <<a, b>>
    <3>1. Front(path) = <<a>> /\ Last(path) = b
      BY <2>4, Fronts DEF Front, Last
    <3>2. Put(v, path, new) = With(v, a, With(va, b, new)) /\ Holds(va, b) /\ Holds(v, a) /\ IsJSON(v)
      BY <2>4, <3>1, PutIs, <2>0, <2>2 DEF JSON3
    <3>3. JSON2(With(va, b, new))
      BY <1>1, <2>1, <3>2, WithKeepsJSON
    <3> QED
      BY <3>2, <3>3, WithKeepsJSON, WithIsJSON
  <2>5. CASE path = <<a, b, c>>
    <3>1. Front(path) = <<a, b>> /\ Last(path) = c
      BY <2>5, Fronts DEF Front, Last
    <3>2. /\ Put(v, path, new) = With(v, a, With(va, b, With(vb, c, new)))
          /\ Holds(vb, c) /\ IsJSON(v)
      BY <2>5, <3>1, PutIs, <2>0 DEF JSON3
    <3>3. vb # JNull
      BY <3>2, NullIsJSON DEF Holds
    <3>4. Holds(va, b) /\ Holds(v, a)
      BY <3>3, <2>2
    <3>5. JSON1(With(vb, c, new))
      BY <1>1, <2>1, <3>2, WithKeepsJSON
    <3>6. JSON2(With(va, b, With(vb, c, new)))
      BY <3>5, <2>1, <3>4, WithKeepsJSON
    <3> QED
      BY <3>2, <3>4, <3>6, WithKeepsJSON, WithIsJSON
  <2> QED
    BY <1>2, <2>3, <2>4, <2>5
<1> QED
  BY <1>2, PlacesAre

-----------------------------------------------------------------------------
(* What is read of the fields. *)

(* walk and Index, one step: what they find is a member. *)
LEMMA StepIs ==
    ASSUME NEW v, JSON1(v), NEW q, NEW k
    PROVE  /\ k \notin Indices => Into(Found(v, q), k) =
                 IF v.kind # "object" THEN Wrong(Append(q, k))
                 ELSE IF Member(v, k) = JNull THEN Missing(Append(q, k))
                 ELSE Found(Member(v, k), Append(q, k))
           /\ k \in Indices => Element(Found(v, q), k) =
                 IF v.kind # "array" THEN Wrong(q)
                 ELSE IF Member(v, k) = JNull THEN Missing(Append(q, k))
                 ELSE Found(Member(v, k), Append(q, k))
<1>1. Found(v, q).ok /\ Found(v, q).value = v /\ Found(v, q).path = q
  BY DEF Found
<1>2. ASSUME Holds(v, k) PROVE Lacks(v, k) <=> Member(v, k) = JNull
  <2>1. CASE k \notin DOMAIN v.members
    BY <2>1 DEF Lacks, Member
  <2>2. CASE k \in DOMAIN v.members
    <3>1. Member(v, k) = v.members[k]
      BY <1>2, <2>2 DEF Member
    <3>2. IsJSON(v.members[k])
      BY <3>1, MemberIsJSON
    <3>3. v.members[k].kind = "null" <=> v.members[k] = JNull
      BY <3>2, NullIsJSON DEF IsJSON
    <3> QED
      BY <2>2, <3>1, <3>3 DEF Lacks
  <2> QED
    BY <2>1, <2>2
<1>3. ASSUME Holds(v, k), Member(v, k) # JNull PROVE Member(v, k) = v.members[k]
  BY <1>3 DEF Member
<1>4. ASSUME k \notin Indices
      PROVE  Into(Found(v, q), k) =
                 IF v.kind # "object" THEN Wrong(Append(q, k))
                 ELSE IF Member(v, k) = JNull THEN Missing(Append(q, k))
                 ELSE Found(Member(v, k), Append(q, k))
  <2>1. v.kind = "object" <=> Holds(v, k)
    BY <1>4 DEF Holds
  <2>2. Into(Found(v, q), k) = IF v.kind # "object" THEN Wrong(Append(q, k))
                               ELSE IF Lacks(v, k) THEN Missing(Append(q, k))
                               ELSE Found(v.members[k], Append(q, k))
    BY <1>1 DEF Into
  <2> QED
    BY <1>2, <1>3, <2>1, <2>2
<1>5. ASSUME k \in Indices
      PROVE  Element(Found(v, q), k) =
                 IF v.kind # "array" THEN Wrong(q)
                 ELSE IF Member(v, k) = JNull THEN Missing(Append(q, k))
                 ELSE Found(Member(v, k), Append(q, k))
  <2>1. v.kind = "array" <=> Holds(v, k)
    BY <1>5 DEF Holds
  <2>2. Element(Found(v, q), k) = IF v.kind # "array" THEN Wrong(q)
                                  ELSE IF Lacks(v, k) THEN Missing(Append(q, k))
                                  ELSE Found(v.members[k], Append(q, k))
    BY <1>1 DEF Element
  <2> QED
    BY <1>2, <1>3, <2>1, <2>2
<1> QED
  BY <1>4, <1>5

(* A result that is an error stays one. *)
LEMMA ErrorStays ==
    ASSUME NEW r, ~r.ok
    PROVE  /\ \A k : Into(r, k) = r /\ Element(r, k) = r
           /\ \A type : Kept(r, type) = r
  BY DEF Into, Element, Kept

(* The parts of the three results. *)
LEMMA ResultsAre ==
    \A v, p : /\ Found(v, p).ok /\ Found(v, p).value = v /\ Found(v, p).path = p
              /\ ~Wrong(p).ok /\ ~Wrong(p).missing /\ Wrong(p).path = p
              /\ ~Missing(p).ok /\ Missing(p).missing /\ Missing(p).path = p
  BY DEF Found, Wrong, Missing

(* A path that grows by a name. *)
LEMMA AppendsAre ==
    /\ \A a : Append(<<>>, a) = <<a>>
    /\ \A a, b : Append(<<a>>, b) = <<a, b>>
    /\ \A a, b, c : Append(<<a, b>>, c) = <<a, b, c>>
<1>1. ASSUME NEW a PROVE Append(<<>>, a) = <<a>>
  OBVIOUS
<1>2. ASSUME NEW a, NEW b PROVE Append(<<a>>, b) = <<a, b>>
  <2> DEFINE S == {a, b}
             t == Append(<<a>>, b)
  <2>1. <<a>> \in Seq(S) /\ b \in S /\ Len(<<a>>) = 1
    OBVIOUS
  <2>2. t \in Seq(S) /\ Len(t) = 2 /\ t[1] = a /\ t[2] = b
    <3>1. /\ t \in Seq(S) /\ Len(t) = Len(<<a>>) + 1
          /\ \A i \in 1 .. Len(<<a>>) : t[i] = <<a>>[i]
          /\ t[Len(<<a>>) + 1] = b
      <4> HIDE DEF S
      <4> QED
        BY <2>1, AppendProperties
    <3>2. t[1] = <<a>>[1]
      BY <2>1, <3>1, SMT
    <3> QED
      BY <2>1, <3>1, <3>2
  <2>3. t = [i \in 1 .. 2 |-> t[i]]
    <3> HIDE DEF t, S
    <3> QED
      BY <2>2
  <2>4. t = [i \in 1 .. 2 |-> <<a, b>>[i]]
    <3>1. \A i \in 1 .. 2 : t[i] = <<a, b>>[i]
      <4> HIDE DEF t
      <4> QED
       BY <2>2, SMT
    <3> HIDE DEF t
    <3> QED
      BY <2>3, <3>1
  <2>5. [i \in 1 .. 2 |-> <<a, b>>[i]] = <<a, b>>
    BY SMT
  <2> QED
    BY <2>4, <2>5
<1>3. ASSUME NEW a, NEW b, NEW c PROVE Append(<<a, b>>, c) = <<a, b, c>>
  <2> DEFINE S == {a, b, c}
             t == Append(<<a, b>>, c)
  <2>1. <<a, b>> \in Seq(S) /\ c \in S /\ Len(<<a, b>>) = 2
    OBVIOUS
  <2>2. t \in Seq(S) /\ Len(t) = 3 /\ t[1] = a /\ t[2] = b /\ t[3] = c
    <3>1. /\ t \in Seq(S) /\ Len(t) = Len(<<a, b>>) + 1
          /\ \A i \in 1 .. Len(<<a, b>>) : t[i] = <<a, b>>[i]
          /\ t[Len(<<a, b>>) + 1] = c
      <4> HIDE DEF S
      <4> QED
        BY <2>1, AppendProperties
    <3>2. t[1] = <<a, b>>[1] /\ t[2] = <<a, b>>[2]
      BY <2>1, <3>1, SMT
    <3> QED
      BY <2>1, <3>1, <3>2
  <2>3. t = [i \in 1 .. 3 |-> t[i]]
    <3> HIDE DEF t, S
    <3> QED
      BY <2>2
  <2>4. t = [i \in 1 .. 3 |-> <<a, b, c>>[i]]
    <3>1. \A i \in 1 .. 3 : t[i] = <<a, b, c>>[i]
      <4> HIDE DEF t
      <4> QED
        BY <2>2, SMT
    <3> HIDE DEF t
    <3> QED
      BY <2>3, <3>1
  <2>5. [i \in 1 .. 3 |-> <<a, b, c>>[i]] = <<a, b, c>>
    BY SMT
  <2> QED
    BY <2>4, <2>5
<1> QED
  BY <1>1, <1>2, <1>3

(* How far a path can be followed. *)
LEMMA LongestIs ==
    ASSUME NEW T, NEW q \in T, \A r \in T \ {q} : Len(r) < Len(q), \A r \in T : Len(r) \in Nat
    PROVE  (CHOOSE p \in T : \A r \in T : Len(r) <= Len(p)) = q
<1>1. \A r \in T : Len(r) <= Len(q)
  BY SMT
<1>2. ASSUME NEW p \in T, \A r \in T : Len(r) <= Len(p) PROVE p = q
  BY <1>2, SMT
<1> QED
  BY <1>1, <1>2

\* Something is there, and it is not what the path needs.
Blamed(v, path) ==
    LET there == Deepest(v, path)
    IN  there = path \/ ~Holds(Get(v, there), path[Len(there) + 1])

(* Blamed, by the members along a path of each length. *)
LEMMA BlamedIs ==
    ASSUME NEW v, v # JNull
    PROVE  /\ \A a : Blamed(v, <<a>>) <=> Member(v, a) # JNull \/ ~Holds(v, a)
           /\ \A a, b : Blamed(v, <<a, b>>) <=>
                 \/ Member(Member(v, a), b) # JNull
                 \/ Member(v, a) # JNull /\ ~Holds(Member(v, a), b)
                 \/ Member(v, a) = JNull /\ ~Holds(v, a)
           /\ \A a, b, c : Blamed(v, <<a, b, c>>) <=>
                 \/ Member(Member(Member(v, a), b), c) # JNull
                 \/ Member(Member(v, a), b) # JNull /\ ~Holds(Member(Member(v, a), b), c)
                 \/ Member(v, a) # JNull /\ Member(Member(v, a), b) = JNull /\ ~Holds(Member(v, a), b)
                 \/ Member(v, a) = JNull /\ ~Holds(v, a)
<1>1. ASSUME NEW a
      PROVE  Blamed(v, <<a>>) <=> Member(v, a) # JNull \/ ~Holds(v, a)
  <2> DEFINE P == <<a>>
             T == {q \in Prefixes(P) : Get(v, q) # JNull}
  <2>1. Prefixes(P) = {<<>>, P}
    BY PrefixesAre
  <2>2. Get(v, <<>>) = v /\ Get(v, P) = Member(v, a)
    BY GetIs
  <2>3. Len(<<>>) = 0 /\ Len(P) = 1 /\ P[0 + 1] = a /\ <<>> # P
    BY Fronts, SMT
  <2>4. Deepest(v, P) = CHOOSE p \in T : \A r \in T : Len(r) <= Len(p)
    BY DEF Deepest
  <2>5. Blamed(v, P) <=> \/ Deepest(v, P) = P
                         \/ ~Holds(Get(v, Deepest(v, P)), P[Len(Deepest(v, P)) + 1])
    BY DEF Blamed
  <2>6. CASE Member(v, a) # JNull
    <3>1. T = {<<>>, P}
      BY <2>1, <2>2, <2>6
    <3>2. Deepest(v, P) = P
      <4> HIDE DEF P, T
      <4>1. P \in T /\ \A r \in T \ {P} : r = <<>>
        BY <3>1
      <4>2. \A r \in T \ {P} : Len(r) < Len(P)
        BY <2>3, <4>1
      <4>3. \A r \in T : Len(r) \in Nat
        BY <2>3, <3>1
      <4> QED
        BY <2>4, <4>1, <4>2, <4>3, LongestIs
    <3> QED
      BY <2>5, <2>6, <3>2
  <2>7. CASE Member(v, a) = JNull
    <3>1. T = {<<>>}
      BY <2>1, <2>2, <2>7
    <3>2. Deepest(v, P) = <<>>
      <4> HIDE DEF P, T
      <4>1. <<>> \in T /\ \A r \in T \ {<<>>} : FALSE
        BY <3>1
      <4>2. \A r \in T \ {<<>>} : Len(r) < Len(<<>>)
        BY <2>3, <4>1
      <4>3. \A r \in T : Len(r) \in Nat
        BY <2>3, <3>1
      <4> QED
        BY <2>4, <4>1, <4>2, <4>3, LongestIs
    <3>3. Blamed(v, P) <=> ~Holds(v, a)
      <4>1. Get(v, <<>>) = v /\ P[Len(<<>>) + 1] = a
        BY <2>2, <2>3
      <4>2. Blamed(v, P) <=> <<>> = P \/ ~Holds(Get(v, <<>>), P[Len(<<>>) + 1])
        <5> HIDE DEF P, T
        <5> QED
          BY <2>5, <3>2
      <4> QED
        BY <2>3, <4>1, <4>2
    <3> QED
      BY <2>7, <3>3
  <2> QED
    BY <2>6, <2>7
<1>2. ASSUME NEW a, NEW b
      PROVE  Blamed(v, <<a, b>>) <=>
                 \/ Member(Member(v, a), b) # JNull
                 \/ Member(v, a) # JNull /\ ~Holds(Member(v, a), b)
                 \/ Member(v, a) = JNull /\ ~Holds(v, a)
  <2> DEFINE P == <<a, b>>
             Q == <<a>>
             T == {q \in Prefixes(P) : Get(v, q) # JNull}
             v1 == Member(v, a)
             v2 == Member(v1, b)
  <2>1. Prefixes(P) = {<<>>, Q, P}
    BY PrefixesAre
  <2>2. Get(v, <<>>) = v /\ Get(v, Q) = v1 /\ Get(v, P) = v2
    BY GetIs
  <2>3. /\ Len(<<>>) = 0 /\ Len(Q) = 1 /\ Len(P) = 2 /\ P[0 + 1] = a /\ P[1 + 1] = b
        /\ <<>> # P /\ <<>> # Q /\ Q # P
    BY Fronts, SMT
  <2>4. Deepest(v, P) = CHOOSE p \in T : \A r \in T : Len(r) <= Len(p)
    BY DEF Deepest
  <2>5. Blamed(v, P) <=> \/ Deepest(v, P) = P
                         \/ ~Holds(Get(v, Deepest(v, P)), P[Len(Deepest(v, P)) + 1])
    BY DEF Blamed
  <2>0. v1 = JNull => v2 = JNull
    BY NullIsJSON
  <2>6. CASE v2 # JNull
    <3>1. T = {<<>>, Q, P}
      <4> HIDE DEF P, Q, v1, v2
      <4> QED
        BY <2>0, <2>1, <2>2, <2>6
    <3>2. Deepest(v, P) = P
      <4> HIDE DEF P, Q, T
      <4>1. P \in T /\ \A r \in T \ {P} : r = <<>> \/ r = Q
        BY <3>1
      <4>2. \A r \in T \ {P} : Len(r) < Len(P)
        BY <2>3, <4>1
      <4>3. \A r \in T : Len(r) \in Nat
        BY <2>3, <3>1
      <4> QED
        BY <2>4, <4>1, <4>2, <4>3, LongestIs
    <3> QED
      BY <2>5, <2>6, <3>2
  <2>7. CASE v1 # JNull /\ v2 = JNull
    <3>1. T = {<<>>, Q}
      <4> HIDE DEF P, Q, v1, v2
      <4> QED
        BY <2>1, <2>2, <2>7
    <3>2. Deepest(v, P) = Q
      <4> HIDE DEF P, Q, T
      <4>1. Q \in T /\ \A r \in T \ {Q} : r = <<>>
        BY <3>1
      <4>2. \A r \in T \ {Q} : Len(r) < Len(Q)
        BY <2>3, <4>1
      <4>3. \A r \in T : Len(r) \in Nat
        BY <2>3, <3>1
      <4> QED
        BY <2>4, <4>1, <4>2, <4>3, LongestIs
    <3> HIDE DEF P, Q, T, v1, v2
    <3>3. Blamed(v, P) <=> ~Holds(v1, b)
      BY <2>2, <2>3, <2>5, <3>2
    <3> QED
      BY <2>7, <3>3 DEF P, v1, v2
  <2>8. CASE v1 = JNull
    <3>1. T = {<<>>}
      <4> HIDE DEF P, Q, v1, v2
      <4> QED
        BY <2>0, <2>1, <2>2, <2>8
    <3>2. Deepest(v, P) = <<>>
      <4> HIDE DEF P, Q, T
      <4>1. <<>> \in T /\ \A r \in T \ {<<>>} : FALSE
        BY <3>1
      <4>2. \A r \in T \ {<<>>} : Len(r) < Len(<<>>)
        BY <2>3, <4>1
      <4>3. \A r \in T : Len(r) \in Nat
        BY <2>3, <3>1
      <4> QED
        BY <2>4, <4>1, <4>2, <4>3, LongestIs
    <3> HIDE DEF P, Q, T, v1, v2
    <3>3. Blamed(v, P) <=> ~Holds(v, a)
      BY <2>2, <2>3, <2>5, <3>2
    <3> QED
      BY <2>0, <2>8, <3>3 DEF P, v1, v2
  <2> QED
    BY <2>6, <2>7, <2>8
<1>3. ASSUME NEW a, NEW b, NEW c
      PROVE  Blamed(v, <<a, b, c>>) <=>
                 \/ Member(Member(Member(v, a), b), c) # JNull
                 \/ Member(Member(v, a), b) # JNull /\ ~Holds(Member(Member(v, a), b), c)
                 \/ Member(v, a) # JNull /\ Member(Member(v, a), b) = JNull /\ ~Holds(Member(v, a), b)
                 \/ Member(v, a) = JNull /\ ~Holds(v, a)
  <2> DEFINE P == <<a, b, c>>
             Q == <<a>>
             R == <<a, b>>
             T == {q \in Prefixes(P) : Get(v, q) # JNull}
             v1 == Member(v, a)
             v2 == Member(v1, b)
             v3 == Member(v2, c)
  <2>1. Prefixes(P) = {<<>>, Q, R, P}
    BY PrefixesAre
  <2>2. Get(v, <<>>) = v /\ Get(v, Q) = v1 /\ Get(v, R) = v2 /\ Get(v, P) = v3
    BY GetIs
  <2>3. /\ Len(<<>>) = 0 /\ Len(Q) = 1 /\ Len(R) = 2 /\ Len(P) = 3
        /\ P[0 + 1] = a /\ P[1 + 1] = b /\ P[2 + 1] = c
        /\ <<>> # P /\ <<>> # Q /\ <<>> # R /\ Q # R /\ Q # P /\ R # P
    BY Fronts, SMT
  <2>4. Deepest(v, P) = CHOOSE p \in T : \A r \in T : Len(r) <= Len(p)
    BY DEF Deepest
  <2>5. Blamed(v, P) <=> \/ Deepest(v, P) = P
                         \/ ~Holds(Get(v, Deepest(v, P)), P[Len(Deepest(v, P)) + 1])
    BY DEF Blamed
  <2>0. (v1 = JNull => v2 = JNull) /\ (v2 = JNull => v3 = JNull)
    BY NullIsJSON
  <2>6. CASE v3 # JNull
    <3>1. T = {<<>>, Q, R, P}
      <4> HIDE DEF P, Q, R, v1, v2, v3
      <4> QED
        BY <2>0, <2>1, <2>2, <2>6
    <3>2. Deepest(v, P) = P
      <4> HIDE DEF P, Q, R, T
      <4>1. P \in T /\ \A r \in T \ {P} : r = <<>> \/ r = Q \/ r = R
        BY <3>1
      <4>2. \A r \in T \ {P} : Len(r) < Len(P)
        BY <2>3, <4>1
      <4>3. \A r \in T : Len(r) \in Nat
        BY <2>3, <3>1
      <4> QED
        BY <2>4, <4>1, <4>2, <4>3, LongestIs
    <3> QED
      BY <2>5, <2>6, <3>2
  <2>7. CASE v2 # JNull /\ v3 = JNull
    <3>1. T = {<<>>, Q, R}
      <4> HIDE DEF P, Q, R, v1, v2, v3
      <4> QED
        BY <2>0, <2>1, <2>2, <2>7
    <3>2. Deepest(v, P) = R
      <4> HIDE DEF P, Q, R, T
      <4>1. R \in T /\ \A r \in T \ {R} : r = <<>> \/ r = Q
        BY <3>1
      <4>2. \A r \in T \ {R} : Len(r) < Len(R)
        BY <2>3, <4>1
      <4>3. \A r \in T : Len(r) \in Nat
        BY <2>3, <3>1
      <4> QED
        BY <2>4, <4>1, <4>2, <4>3, LongestIs
    <3> HIDE DEF P, Q, R, T, v1, v2, v3
    <3>3. Blamed(v, P) <=> ~Holds(v2, c)
      BY <2>2, <2>3, <2>5, <3>2
    <3>4. v1 # JNull
      BY <2>0, <2>7
    <3> QED
      BY <2>7, <3>3, <3>4 DEF P, v1, v2, v3
  <2>8. CASE v1 # JNull /\ v2 = JNull
    <3>1. T = {<<>>, Q}
      <4> HIDE DEF P, Q, R, v1, v2, v3
      <4> QED
        BY <2>0, <2>1, <2>2, <2>8
    <3>2. Deepest(v, P) = Q
      <4> HIDE DEF P, Q, R, T
      <4>1. Q \in T /\ \A r \in T \ {Q} : r = <<>>
        BY <3>1
      <4>2. \A r \in T \ {Q} : Len(r) < Len(Q)
        BY <2>3, <4>1
      <4>3. \A r \in T : Len(r) \in Nat
        BY <2>3, <3>1
      <4> QED
        BY <2>4, <4>1, <4>2, <4>3, LongestIs
    <3> HIDE DEF P, Q, R, T, v1, v2, v3
    <3>3. Blamed(v, P) <=> ~Holds(v1, b)
      BY <2>2, <2>3, <2>5, <3>2
    <3> QED
      BY <2>0, <2>8, <3>3 DEF P, v1, v2, v3
  <2>9. CASE v1 = JNull
    <3>1. T = {<<>>}
      <4> HIDE DEF P, Q, R, v1, v2, v3
      <4> QED
        BY <2>0, <2>1, <2>2, <2>9
    <3>2. Deepest(v, P) = <<>>
      <4> HIDE DEF P, Q, R, T
      <4>1. <<>> \in T /\ \A r \in T \ {<<>>} : FALSE
        BY <3>1
      <4>2. \A r \in T \ {<<>>} : Len(r) < Len(<<>>)
        BY <2>3, <4>1
      <4>3. \A r \in T : Len(r) \in Nat
        BY <2>3, <3>1
      <4> QED
        BY <2>4, <4>1, <4>2, <4>3, LongestIs
    <3> HIDE DEF P, Q, R, T, v1, v2, v3
    <3>3. Blamed(v, P) <=> ~Holds(v, a)
      BY <2>2, <2>3, <2>5, <3>2
    <3> QED
      BY <2>0, <2>9, <3>3 DEF P, v1, v2, v3
  <2> QED
    BY <2>6, <2>7, <2>8, <2>9
<1> QED
  BY <1>1, <1>2, <1>3

(* A value that is there is a result, or of the wrong type. *)
LEMMA KeptIs ==
    ASSUME NEW v, IsJSON(v), NEW q, NEW type
    PROVE  LET r == Kept(Found(v, q), type)
           IN  /\ r.ok => r = Found(v, q) /\ ValueOf(r) # Nil /\ Is(v, type)
               /\ ~r.ok => ~r.missing /\ r.path = q
<1> DEFINE r == Kept(Found(v, q), type)
<1>1. Found(v, q).ok /\ Found(v, q).value = v /\ Found(v, q).path = q
  BY ResultsAre
<1>2. CASE Is(v, type)
  <2>1. r = Found(v, q)
    BY <1>1, <1>2 DEF Kept
  <2>2. IsText(v) \/ IsInt(v) \/ IsFloat(v)
    BY <1>2 DEF Is
  <2>3. (IsText(v) => v.text \in Texts) /\ (~IsText(v) => v.number \in Int)
    BY <2>2 DEF IsText, IsInt, IsFloat, IsJSON
  <2>4. ValueOf(Found(v, q)) = IF IsText(v) THEN v.text ELSE v.number
    BY <1>1 DEF ValueOf
  <2>5. ValueOf(Found(v, q)) # Nil
    BY <2>3, <2>4, FieldsAssumption
  <2> HIDE DEF r
  <2> QED
    BY <1>1, <1>2, <2>1, <2>5 DEF r
<1>3. CASE ~Is(v, type)
  <2>1. r = Wrong(q)
    BY <1>1, <1>3 DEF Kept
  <2> HIDE DEF r
  <2> QED
    BY <2>1, ResultsAre DEF r
<1> QED
  BY <1>2, <1>3

\* What a result says of the body: nothing is there exactly if it is called missing, and
\* an error is at the place itself or at the array it would be in.
Judges(r, o, path) ==
    /\ r.ok => ValueOf(r) # Nil
    /\ ~r.ok => (r.missing <=> ~Blamed(o, path))
    /\ ~r.ok /\ ~r.missing =>
          \/ r.path = path
          \/ \E a : \E k \in Indices : /\ path = <<a, k>> /\ r.path = <<a>>
                                      /\ \A j \in Indices : Blamed(o, <<a, j>>)
          \/ \E a, b : \E k \in Indices : /\ path = <<a, b, k>> /\ r.path = <<a, b>>
                                         /\ \A j \in Indices : Blamed(o, <<a, b, j>>)

(* The first step of walk, from the answer itself. *)
LEMMA BodyIs ==
    ASSUME NEW o, JSON3(o), o.kind = "object", NEW a, a \notin Indices
    PROVE  /\ o # JNull /\ JSON1(o) /\ IsJSON(o) /\ Holds(o, a)
           /\ Into(Found(o, <<>>), a) = IF Member(o, a) = JNull THEN Missing(<<a>>)
                                        ELSE Found(Member(o, a), <<a>>)
<1>1. JSON2(o) /\ JSON1(o) /\ IsJSON(o)
  BY MemberIsJSON
<1>2. o # JNull
  BY NullIsJSON
<1>3. Append(<<>>, a) = <<a>>
  BY AppendsAre
<1>4. Into(Found(o, <<>>), a) = IF o.kind # "object" THEN Wrong(Append(<<>>, a))
                                ELSE IF Member(o, a) = JNull THEN Missing(Append(<<>>, a))
                                ELSE Found(Member(o, a), Append(<<>>, a))
  BY <1>1, StepIs
<1>5. Holds(o, a)
  BY DEF Holds
<1> QED
  BY <1>1, <1>2, <1>3, <1>4, <1>5

(* A field of the body itself. *)
LEMMA JudgesOne ==
    ASSUME NEW o, JSON3(o), o.kind = "object", NEW a, a \notin Indices, NEW type
    PROVE  Judges(Kept(Walk(o, <<a>>), type), o, <<a>>)
<1> DEFINE v1 == Member(o, a)
           r == Kept(Walk(o, <<a>>), type)
<1>1. /\ o # JNull /\ Holds(o, a)
      /\ Into(Found(o, <<>>), a) = IF v1 = JNull THEN Missing(<<a>>) ELSE Found(v1, <<a>>)
  BY BodyIs
<1>2. Walk(o, <<a>>) = Into(Found(o, <<>>), a)
  BY WalkIs
<1>3. Blamed(o, <<a>>) <=> v1 # JNull
  BY <1>1, BlamedIs
<1>4. CASE v1 = JNull
  <2>1. r = Missing(<<a>>)
    BY <1>1, <1>2, <1>4, ErrorStays, ResultsAre
  <2> HIDE DEF r, v1
  <2>2. Judges(r, o, <<a>>)
    BY <1>3, <1>4, <2>1, ResultsAre DEF Judges
  <2> QED
    BY <2>2 DEF r
<1>5. CASE v1 # JNull
  <2>1. r = Kept(Found(v1, <<a>>), type)
    BY <1>1, <1>2, <1>5
  <2>2. IsJSON(v1)
    BY MemberIsJSON
  <2> HIDE DEF v1
  <2>3. /\ r.ok => ValueOf(r) # Nil
        /\ ~r.ok => ~r.missing /\ r.path = <<a>>
    BY <2>1, <2>2, KeptIs
  <2> HIDE DEF r
  <2>4. Judges(r, o, <<a>>)
    BY <1>3, <1>5, <2>3 DEF Judges
  <2> QED
    BY <2>4 DEF r
<1> QED
  BY <1>4, <1>5

(* A field of an object in it. *)
LEMMA JudgesTwo ==
    ASSUME NEW o, JSON3(o), o.kind = "object", NEW a, a \notin Indices, NEW b, b \notin Indices,
           NEW type
    PROVE  Judges(Kept(Walk(o, <<a, b>>), type), o, <<a, b>>)
<1> DEFINE v1 == Member(o, a)
           v2 == Member(v1, b)
           r == Kept(Walk(o, <<a, b>>), type)
<1>1. /\ o # JNull /\ Holds(o, a)
      /\ Into(Found(o, <<>>), a) = IF v1 = JNull THEN Missing(<<a>>) ELSE Found(v1, <<a>>)
  BY BodyIs
<1>2. Walk(o, <<a, b>>) = Into(Into(Found(o, <<>>), a), b)
  BY WalkIs
<1>3. Blamed(o, <<a, b>>) <=> v2 # JNull \/ (v1 # JNull /\ ~Holds(v1, b))
  BY <1>1, BlamedIs
<1>4. JSON2(v1) /\ JSON1(v1) /\ JSON1(v2) /\ IsJSON(v2)
  BY MemberIsJSON
<1>5. Into(Found(v1, <<a>>), b) = IF v1.kind # "object" THEN Wrong(<<a, b>>)
                                  ELSE IF v2 = JNull THEN Missing(<<a, b>>) ELSE Found(v2, <<a, b>>)
  <2>1. Append(<<a>>, b) = <<a, b>>
    BY AppendsAre
  <2>2. Into(Found(v1, <<a>>), b) = IF v1.kind # "object" THEN Wrong(Append(<<a>>, b))
                                    ELSE IF v2 = JNull THEN Missing(Append(<<a>>, b))
                                    ELSE Found(v2, Append(<<a>>, b))
    BY <1>4, StepIs
  <2> QED
    BY <2>1, <2>2
<1>6. Holds(v1, b) <=> v1.kind = "object"
  BY DEF Holds
<1>7. v2 # JNull => Holds(v1, b)
  BY MemberInside
<1>8. v1 = JNull => v2 = JNull
  BY NullIsJSON
<1>9. CASE v1 = JNull
  <2>1. r = Missing(<<a>>)
    BY <1>1, <1>2, <1>9, ErrorStays, ResultsAre
  <2> HIDE DEF r, v1, v2
  <2>2. Judges(r, o, <<a, b>>)
    BY <1>3, <1>8, <1>9, <2>1, ResultsAre DEF Judges
  <2> QED
    BY <2>2 DEF r
<1>10. CASE v1 # JNull /\ v1.kind # "object"
  <2>1. r = Wrong(<<a, b>>)
    BY <1>1, <1>2, <1>5, <1>10, ErrorStays, ResultsAre
  <2> HIDE DEF r, v1, v2
  <2>2. Judges(r, o, <<a, b>>)
    BY <1>3, <1>6, <1>10, <2>1, ResultsAre DEF Judges
  <2> QED
    BY <2>2 DEF r
<1>11. CASE v1 # JNull /\ v1.kind = "object" /\ v2 = JNull
  <2>1. r = Missing(<<a, b>>)
    BY <1>1, <1>2, <1>5, <1>11, ErrorStays, ResultsAre
  <2> HIDE DEF r, v1, v2
  <2>2. Judges(r, o, <<a, b>>)
    BY <1>3, <1>6, <1>11, <2>1, ResultsAre DEF Judges
  <2> QED
    BY <2>2 DEF r
<1>12. CASE v1 # JNull /\ v1.kind = "object" /\ v2 # JNull
  <2>1. r = Kept(Found(v2, <<a, b>>), type)
    BY <1>1, <1>2, <1>5, <1>12
  <2> HIDE DEF v1, v2
  <2>2. /\ r.ok => ValueOf(r) # Nil
        /\ ~r.ok => ~r.missing /\ r.path = <<a, b>>
    BY <1>4, <2>1, KeptIs
  <2> HIDE DEF r
  <2>3. Judges(r, o, <<a, b>>)
    BY <1>3, <1>12, <2>2 DEF Judges
  <2> QED
    BY <2>3 DEF r
<1> QED
  BY <1>9, <1>10, <1>11, <1>12

(* An element of an array in it. *)
LEMMA JudgesElement ==
    ASSUME NEW o, JSON3(o), o.kind = "object", NEW a, a \notin Indices, NEW k \in Indices, NEW type
    PROVE  Judges(Kept(Element(Walk(o, <<a>>), k), type), o, <<a, k>>)
<1> DEFINE v1 == Member(o, a)
           v2 == Member(v1, k)
           r == Kept(Element(Walk(o, <<a>>), k), type)
<1>1. /\ o # JNull /\ Holds(o, a)
      /\ Into(Found(o, <<>>), a) = IF v1 = JNull THEN Missing(<<a>>) ELSE Found(v1, <<a>>)
  BY BodyIs
<1>2. Walk(o, <<a>>) = Into(Found(o, <<>>), a)
  BY WalkIs
<1>3. \A j : Blamed(o, <<a, j>>) <=> Member(v1, j) # JNull \/ (v1 # JNull /\ ~Holds(v1, j))
  BY <1>1, BlamedIs
<1>4. JSON2(v1) /\ JSON1(v1) /\ JSON1(v2) /\ IsJSON(v2)
  BY MemberIsJSON
<1>0. \A j : Append(<<a>>, j) = <<a, j>>
  BY AppendsAre
<1>5. Element(Found(v1, <<a>>), k) = IF v1.kind # "array" THEN Wrong(<<a>>)
                                     ELSE IF v2 = JNull THEN Missing(<<a, k>>) ELSE Found(v2, <<a, k>>)
  <2>1. Element(Found(v1, <<a>>), k) = IF v1.kind # "array" THEN Wrong(<<a>>)
                                       ELSE IF v2 = JNull THEN Missing(Append(<<a>>, k))
                                       ELSE Found(v2, Append(<<a>>, k))
    BY <1>4, StepIs
  <2> QED
    BY <1>0, <2>1
<1>6. \A j \in Indices : Holds(v1, j) <=> v1.kind = "array"
  BY DEF Holds
<1>8. v1 = JNull => v2 = JNull
  BY NullIsJSON
<1>9. CASE v1 = JNull
  <2>1. r = Missing(<<a>>)
    BY <1>1, <1>2, <1>9, ErrorStays, ResultsAre
  <2> HIDE DEF r, v1
  <2>2. Judges(r, o, <<a, k>>)
    BY <1>3, <1>8, <1>9, <2>1, ResultsAre DEF Judges
  <2> QED
    BY <2>2 DEF r
<1>10. CASE v1 # JNull /\ v1.kind # "array"
  <2>1. r = Wrong(<<a>>)
    BY <1>1, <1>2, <1>5, <1>10, ErrorStays, ResultsAre
  <2>2. \A j \in Indices : Blamed(o, <<a, j>>)
    <3> HIDE DEF r, v1, v2
    <3> QED
      BY <1>0, <1>3, <1>6, <1>10
  <2> HIDE DEF r, v1, v2
  <2>3. Blamed(o, <<a, k>>)
    BY <2>2
  <2>4. Judges(r, o, <<a, k>>)
    BY <2>1, <2>2, <2>3, ResultsAre DEF Judges
  <2> QED
    BY <2>4 DEF r
<1>11. CASE v1 # JNull /\ v1.kind = "array" /\ v2 = JNull
  <2>1. r = Missing(<<a, k>>)
    BY <1>1, <1>2, <1>5, <1>11, ErrorStays, ResultsAre
  <2>2. ~Blamed(o, <<a, k>>)
    BY <1>3, <1>6, <1>11
  <2> HIDE DEF r, v1, v2
  <2>3. Judges(r, o, <<a, k>>)
    BY <2>1, <2>2, ResultsAre DEF Judges
  <2> QED
    BY <2>3 DEF r
<1>12. CASE v1 # JNull /\ v1.kind = "array" /\ v2 # JNull
  <2>1. r = Kept(Found(v2, <<a, k>>), type)
    BY <1>1, <1>2, <1>5, <1>12
  <2>2. Blamed(o, <<a, k>>)
    BY <1>3, <1>12
  <2> HIDE DEF v1, v2
  <2>3. /\ r.ok => ValueOf(r) # Nil
        /\ ~r.ok => ~r.missing /\ r.path = <<a, k>>
    BY <1>4, <2>1, KeptIs
  <2> HIDE DEF r
  <2>4. Judges(r, o, <<a, k>>)
    BY <2>2, <2>3 DEF Judges
  <2> QED
    BY <2>4 DEF r
<1> QED
  BY <1>9, <1>10, <1>11, <1>12

(* An element of an array in an object in it. *)
LEMMA JudgesInner ==
    ASSUME NEW o, JSON3(o), o.kind = "object", NEW a, a \notin Indices, NEW b, b \notin Indices,
           NEW k \in Indices, NEW type
    PROVE  Judges(Kept(Element(Walk(o, <<a, b>>), k), type), o, <<a, b, k>>)
<1> DEFINE v1 == Member(o, a)
           v2 == Member(v1, b)
           v3 == Member(v2, k)
           r == Kept(Element(Walk(o, <<a, b>>), k), type)
<1>1. /\ o # JNull /\ Holds(o, a)
      /\ Into(Found(o, <<>>), a) = IF v1 = JNull THEN Missing(<<a>>) ELSE Found(v1, <<a>>)
  BY BodyIs
<1>2. Walk(o, <<a, b>>) = Into(Into(Found(o, <<>>), a), b)
  BY WalkIs
<1>3. \A j : Blamed(o, <<a, b, j>>) <=>
                \/ Member(v2, j) # JNull
                \/ v2 # JNull /\ ~Holds(v2, j)
                \/ v1 # JNull /\ v2 = JNull /\ ~Holds(v1, b)
  BY <1>1, BlamedIs
<1>4. JSON2(v1) /\ JSON1(v1) /\ JSON1(v2) /\ IsJSON(v2) /\ IsJSON(v3)
  BY MemberIsJSON
<1>0. (\A j : Append(<<a, b>>, j) = <<a, b, j>>) /\ Append(<<a>>, b) = <<a, b>>
  BY AppendsAre
<1>5. Into(Found(v1, <<a>>), b) = IF v1.kind # "object" THEN Wrong(<<a, b>>)
                                  ELSE IF v2 = JNull THEN Missing(<<a, b>>) ELSE Found(v2, <<a, b>>)
  <2>1. Into(Found(v1, <<a>>), b) = IF v1.kind # "object" THEN Wrong(Append(<<a>>, b))
                                    ELSE IF v2 = JNull THEN Missing(Append(<<a>>, b))
                                    ELSE Found(v2, Append(<<a>>, b))
    BY <1>4, StepIs
  <2> QED
    BY <1>0, <2>1
<1>6. Element(Found(v2, <<a, b>>), k) =
         IF v2.kind # "array" THEN Wrong(<<a, b>>)
         ELSE IF v3 = JNull THEN Missing(<<a, b, k>>) ELSE Found(v3, <<a, b, k>>)
  <2>1. Element(Found(v2, <<a, b>>), k) =
           IF v2.kind # "array" THEN Wrong(<<a, b>>)
           ELSE IF v3 = JNull THEN Missing(Append(<<a, b>>, k))
           ELSE Found(v3, Append(<<a, b>>, k))
    BY <1>4, StepIs
  <2> QED
    BY <1>0, <2>1
<1>7. /\ \A j \in Indices : Holds(v2, j) <=> v2.kind = "array"
      /\ Holds(v1, b) <=> v1.kind = "object"
  BY DEF Holds
<1>8. (v1 = JNull => v2 = JNull) /\ (v2 = JNull => v3 = JNull) /\ (v2 # JNull => Holds(v1, b))
  BY NullIsJSON, MemberInside
<1>9. CASE v1 = JNull
  <2>1. r = Missing(<<a>>)
    BY <1>1, <1>2, <1>9, ErrorStays, ResultsAre
  <2>2. ~Blamed(o, <<a, b, k>>)
    BY <1>3, <1>8, <1>9
  <2> HIDE DEF r, v1, v2, v3
  <2>3. Judges(r, o, <<a, b, k>>)
    BY <2>1, <2>2, ResultsAre DEF Judges
  <2> QED
    BY <2>3 DEF r
<1>10. CASE v1 # JNull /\ v1.kind # "object"
  <2>1. r = Wrong(<<a, b>>)
    BY <1>1, <1>2, <1>5, <1>10, ErrorStays, ResultsAre
  <2>2. \A j \in Indices : Blamed(o, <<a, b, j>>)
    <3> HIDE DEF r, v1, v2, v3
    <3> QED
      BY <1>0, <1>3, <1>7, <1>8, <1>10
  <2> HIDE DEF r, v1, v2, v3
  <2>3. Blamed(o, <<a, b, k>>)
    BY <2>2
  <2>4. Judges(r, o, <<a, b, k>>)
    BY <2>1, <2>2, <2>3, ResultsAre DEF Judges
  <2> QED
    BY <2>4 DEF r
<1>11. CASE v1 # JNull /\ v1.kind = "object" /\ v2 = JNull
  <2>1. r = Missing(<<a, b>>)
    BY <1>1, <1>2, <1>5, <1>11, ErrorStays, ResultsAre
  <2>2. ~Blamed(o, <<a, b, k>>)
    BY <1>3, <1>7, <1>8, <1>11
  <2> HIDE DEF r, v1, v2, v3
  <2>3. Judges(r, o, <<a, b, k>>)
    BY <2>1, <2>2, ResultsAre DEF Judges
  <2> QED
    BY <2>3 DEF r
<1>12. ASSUME v1 # JNull, v1.kind = "object", v2 # JNull
       PROVE  Judges(r, o, <<a, b, k>>)
  <2>1. r = Kept(Element(Found(v2, <<a, b>>), k), type)
    BY <1>1, <1>2, <1>5, <1>12
  <2>2. CASE v2.kind # "array"
    <3>1. r = Wrong(<<a, b>>)
      BY <1>6, <2>1, <2>2, ErrorStays, ResultsAre
    <3> HIDE DEF r, v1, v2, v3
    <3>2. \A j \in Indices : Blamed(o, <<a, b, j>>)
      BY <1>0, <1>3, <1>7, <1>12, <2>2
    <3>3. Blamed(o, <<a, b, k>>)
      BY <3>2
    <3> QED
      BY <3>1, <3>2, <3>3, ResultsAre DEF Judges
  <2>3. CASE v2.kind = "array" /\ v3 = JNull
    <3>1. r = Missing(<<a, b, k>>)
      BY <1>6, <2>1, <2>3, ErrorStays, ResultsAre
    <3>2. ~Blamed(o, <<a, b, k>>)
      BY <1>3, <1>7, <1>12, <2>3
    <3> HIDE DEF r, v1, v2, v3
    <3> QED
      BY <3>1, <3>2, ResultsAre DEF Judges
  <2>4. CASE v2.kind = "array" /\ v3 # JNull
    <3>1. r = Kept(Found(v3, <<a, b, k>>), type)
      BY <1>6, <2>1, <2>4
    <3>2. Blamed(o, <<a, b, k>>)
      BY <1>3, <2>4
    <3> HIDE DEF v1, v2, v3
    <3>3. /\ r.ok => ValueOf(r) # Nil
          /\ ~r.ok => ~r.missing /\ r.path = <<a, b, k>>
      BY <1>4, <3>1, KeptIs
    <3> HIDE DEF r
    <3> QED
      BY <3>2, <3>3 DEF Judges
  <2> QED
    BY <2>2, <2>3, <2>4
<1> QED
  BY <1>9, <1>10, <1>11, <1>12

(* Every field is read as Judges says. *)
LEMMA ReadsJudge ==
    ASSUME NEW o, JSON3(o), o.kind = "object"
    PROVE  /\ DOMAIN Reads(o) = DOMAIN Place
           /\ \A f \in DOMAIN Place : Judges(Reads(o)[f], o, Place[f])
<1>1. DOMAIN Place = {"version", "id", "uptime", "hashrate10s", "hashrate60s", "hashrate15m",
                      "pagesAllocated", "pagesTotal", "good", "total", "pool", "connected"}
  BY DEF Place
<1>2. DOMAIN Reads(o) = DOMAIN Place
  BY DEF Place, Reads
<1>3. /\ Reads(o).version = Kept(Walk(o, <<"version">>), "text")
      /\ Reads(o).id = Kept(Walk(o, <<"id">>), "text")
      /\ Reads(o).uptime = Kept(Walk(o, <<"uptime">>), "int")
  BY DEF Reads, String, IntAtPath
<1>4. /\ Reads(o).hashrate10s = Kept(Element(Walk(o, <<"hashrate", "total">>), "[0]"), "float")
      /\ Reads(o).hashrate60s = Kept(Element(Walk(o, <<"hashrate", "total">>), "[1]"), "float")
      /\ Reads(o).hashrate15m = Kept(Element(Walk(o, <<"hashrate", "total">>), "[2]"), "float")
  BY DEF Reads, FloatAt
<1>5. /\ Reads(o).pagesAllocated = Kept(Element(Walk(o, <<"hugepages">>), "[0]"), "int")
      /\ Reads(o).pagesTotal = Kept(Element(Walk(o, <<"hugepages">>), "[1]"), "int")
  BY DEF Reads, IntAt
<1>6. /\ Reads(o).good = Kept(Walk(o, <<"results", "shares_good">>), "int")
      /\ Reads(o).total = Kept(Walk(o, <<"results", "shares_total">>), "int")
      /\ Reads(o).pool = Kept(Walk(o, <<"connection", "pool">>), "text")
      /\ Reads(o).connected = Kept(Walk(o, <<"connection", "uptime_ms">>), "int")
  BY DEF Reads, String, IntAtPath
<1>7. /\ "[0]" \in Indices /\ "[1]" \in Indices /\ "[2]" \in Indices
      /\ \A a \in {"version", "id", "uptime", "hashrate", "total", "hugepages", "results",
                   "shares_good", "shares_total", "connection", "pool", "uptime_ms"} : a \notin Indices
  BY DEF Indices
<1>8. /\ Judges(Reads(o).version, o, <<"version">>)
      /\ Judges(Reads(o).id, o, <<"id">>)
      /\ Judges(Reads(o).uptime, o, <<"uptime">>)
  BY <1>3, <1>7, JudgesOne
<1>9. /\ Judges(Reads(o).hashrate10s, o, <<"hashrate", "total", "[0]">>)
      /\ Judges(Reads(o).hashrate60s, o, <<"hashrate", "total", "[1]">>)
      /\ Judges(Reads(o).hashrate15m, o, <<"hashrate", "total", "[2]">>)
  BY <1>4, <1>7, JudgesInner
<1>10. /\ Judges(Reads(o).pagesAllocated, o, <<"hugepages", "[0]">>)
       /\ Judges(Reads(o).pagesTotal, o, <<"hugepages", "[1]">>)
  BY <1>5, <1>7, JudgesElement
<1>11. /\ Judges(Reads(o).good, o, <<"results", "shares_good">>)
       /\ Judges(Reads(o).total, o, <<"results", "shares_total">>)
       /\ Judges(Reads(o).pool, o, <<"connection", "pool">>)
       /\ Judges(Reads(o).connected, o, <<"connection", "uptime_ms">>)
  BY <1>6, <1>7, JudgesTwo
<1>12. ASSUME NEW f \in DOMAIN Place PROVE Judges(Reads(o)[f], o, Place[f])
  <2>1. CASE f \in {"version", "id", "uptime"}
    BY <1>8, <2>1 DEF Place
  <2>2. CASE f \in {"hashrate10s", "hashrate60s", "hashrate15m"}
    BY <1>9, <2>2 DEF Place
  <2>3. CASE f \in {"pagesAllocated", "pagesTotal"}
    BY <1>10, <2>3 DEF Place
  <2>4. CASE f \in {"good", "total", "pool", "connected"}
    BY <1>11, <2>4 DEF Place
  <2> QED
    BY <1>1, <2>1, <2>2, <2>3, <2>4
<1> QED
  BY <1>2, <1>12

(* Which of the short paths begin others. *)
LEMMA BeginsWith ==
    /\ \A a, x : IsPrefix(<<a>>, <<x>>) <=> a = x
    /\ \A a, x, y : IsPrefix(<<a>>, <<x, y>>) <=> a = x
    /\ \A a, x, y, z : IsPrefix(<<a>>, <<x, y, z>>) <=> a = x
    /\ \A a, b, x : ~IsPrefix(<<a, b>>, <<x>>)
    /\ \A a, b, x, y : IsPrefix(<<a, b>>, <<x, y>>) <=> a = x /\ b = y
    /\ \A a, b, x, y, z : IsPrefix(<<a, b>>, <<x, y, z>>) <=> a = x /\ b = y
    /\ \A a, b, c, x : ~IsPrefix(<<a, b, c>>, <<x>>)
    /\ \A a, b, c, x, y : ~IsPrefix(<<a, b, c>>, <<x, y>>)
    /\ \A a, b, c, x, y, z : IsPrefix(<<a, b, c>>, <<x, y, z>>) <=> a = x /\ b = y /\ c = z
<1>1. \A a, x : IsPrefix(<<a>>, <<x>>) <=> a = x
  BY Fronts DEF IsPrefix
<1>2. \A a, x, y : IsPrefix(<<a>>, <<x, y>>) <=> a = x
  BY Fronts DEF IsPrefix
<1>3. \A a, x, y, z : IsPrefix(<<a>>, <<x, y, z>>) <=> a = x
  BY Fronts DEF IsPrefix
<1>4. \A a, b, x : ~IsPrefix(<<a, b>>, <<x>>)
  BY Fronts DEF IsPrefix
<1>5. \A a, b, x, y : IsPrefix(<<a, b>>, <<x, y>>) <=> a = x /\ b = y
  BY Fronts DEF IsPrefix
<1>6. \A a, b, x, y, z : IsPrefix(<<a, b>>, <<x, y, z>>) <=> a = x /\ b = y
  BY Fronts DEF IsPrefix
<1>7. \A a, b, c, x : ~IsPrefix(<<a, b, c>>, <<x>>)
  BY Fronts DEF IsPrefix
<1>8. \A a, b, c, x, y : ~IsPrefix(<<a, b, c>>, <<x, y>>)
  BY Fronts DEF IsPrefix
<1>9. \A a, b, c, x, y, z : IsPrefix(<<a, b, c>>, <<x, y, z>>) <=> a = x /\ b = y /\ c = z
  BY Fronts DEF IsPrefix
<1> QED
  BY <1>1, <1>2, <1>3, <1>4, <1>5, <1>6, <1>7, <1>8, <1>9

(* No place begins another; what begins like an element of an array is one of it. *)
LEMMA PlacesApart ==
    ASSUME NEW f \in DOMAIN Place, NEW g \in DOMAIN Place
    PROVE  /\ IsPrefix(Place[g], Place[f]) <=> f = g
           /\ \A a : \A k \in Indices : Place[g] = <<a, k>> /\ IsPrefix(<<a>>, Place[f])
                                           => \E j \in Indices : Place[f] = <<a, j>>
           /\ \A a, b : \A k \in Indices : Place[g] = <<a, b, k>> /\ IsPrefix(<<a, b>>, Place[f])
                                              => \E j \in Indices : Place[f] = <<a, b, j>>
<1> DEFINE Outside(h) == h \in {"version", "id", "uptime"}
           Rates(h)   == h \in {"hashrate10s", "hashrate60s", "hashrate15m"}
           Pages(h)   == h \in {"pagesAllocated", "pagesTotal"}
           Counts(h)  == h \in {"good", "total", "pool", "connected"}
<1>1. \A h \in DOMAIN Place : Outside(h) \/ Rates(h) \/ Pages(h) \/ Counts(h)
  BY DEF Place
<1>2. \A h : Outside(h) => h \notin Indices /\ Place[h] = <<h>>
  BY DEF Place, Indices
<1>3. \A h : Rates(h) => \E j \in Indices : /\ Place[h] = <<"hashrate", "total", j>>
                                            /\ j = "[0]" <=> h = "hashrate10s"
                                            /\ j = "[1]" <=> h = "hashrate60s"
                                            /\ j = "[2]" <=> h = "hashrate15m"
  BY DEF Place, Indices
<1>4. \A h : Pages(h) => \E j \in Indices : /\ Place[h] = <<"hugepages", j>>
                                            /\ j = "[0]" <=> h = "pagesAllocated"
                                            /\ j = "[1]" <=> h = "pagesTotal"
  BY DEF Place, Indices
<1>5. /\ Place["good"] = <<"results", "shares_good">>
      /\ Place["total"] = <<"results", "shares_total">>
      /\ Place["pool"] = <<"connection", "pool">>
      /\ Place["connected"] = <<"connection", "uptime_ms">>
  BY DEF Place
<1>6. \A h : Counts(h) => \E x, y : /\ Place[h] = <<x, y>> /\ x # "hugepages" /\ x # "hashrate"
                                    /\ x # "version" /\ x # "id" /\ x # "uptime"
                                    /\ y \notin Indices
                                    /\ y = "shares_good" <=> h = "good"
                                    /\ y = "shares_total" <=> h = "total"
                                    /\ y = "pool" <=> h = "pool"
                                    /\ y = "uptime_ms" <=> h = "connected"
  BY <1>5 DEF Indices
<1>7. Indices = {"[0]", "[1]", "[2]"}
  BY DEF Indices
<1>8. CASE Outside(g)
  <2>1. CASE Outside(f)
    BY <1>2, <1>8, <2>1, BeginsWith
  <2>2. CASE Rates(f)
    BY <1>2, <1>3, <1>8, <2>2, BeginsWith
  <2>3. CASE Pages(f)
    BY <1>2, <1>4, <1>8, <2>3, BeginsWith
  <2>4. CASE Counts(f)
    BY <1>2, <1>6, <1>8, <2>4, BeginsWith
  <2> QED
    BY <1>1, <2>1, <2>2, <2>3, <2>4
<1>9. CASE Rates(g)
  <2>0. PICK i \in Indices : /\ Place[g] = <<"hashrate", "total", i>>
                             /\ i = "[0]" <=> g = "hashrate10s"
                             /\ i = "[1]" <=> g = "hashrate60s"
                             /\ i = "[2]" <=> g = "hashrate15m"
    BY <1>3, <1>9
  <2>1. CASE Outside(f)
    BY <1>2, <1>9, <2>0, <2>1, BeginsWith
  <2>2. CASE Rates(f)
    <3>1. PICK j \in Indices : /\ Place[f] = <<"hashrate", "total", j>>
                               /\ j = "[0]" <=> f = "hashrate10s"
                               /\ j = "[1]" <=> f = "hashrate60s"
                               /\ j = "[2]" <=> f = "hashrate15m"
      BY <1>3, <2>2
    <3>2. IsPrefix(Place[g], Place[f]) <=> i = j
      BY <2>0, <3>1, BeginsWith
    <3>3. i = j <=> f = g
      BY <1>7, <1>9, <2>0, <2>2, <3>1
    <3> QED
      BY <2>0, <3>1, <3>2, <3>3
  <2>3. CASE Pages(f)
    BY <1>4, <1>9, <2>0, <2>3, BeginsWith
  <2>4. CASE Counts(f)
    BY <1>6, <1>9, <2>0, <2>4, BeginsWith
  <2> QED
    BY <1>1, <2>1, <2>2, <2>3, <2>4
<1>10. CASE Pages(g)
  <2>0. PICK i \in Indices : /\ Place[g] = <<"hugepages", i>>
                             /\ i = "[0]" <=> g = "pagesAllocated"
                             /\ i = "[1]" <=> g = "pagesTotal"
    BY <1>4, <1>10
  <2>1. CASE Outside(f)
    BY <1>2, <1>10, <2>0, <2>1, BeginsWith
  <2>2. CASE Rates(f)
    BY <1>3, <1>10, <2>0, <2>2, BeginsWith
  <2>3. CASE Pages(f)
    <3>1. PICK j \in Indices : /\ Place[f] = <<"hugepages", j>>
                               /\ j = "[0]" <=> f = "pagesAllocated"
                               /\ j = "[1]" <=> f = "pagesTotal"
      BY <1>4, <2>3
    <3>2. IsPrefix(Place[g], Place[f]) <=> i = j
      BY <2>0, <3>1, BeginsWith
    <3>3. i = j <=> f = g
      BY <1>7, <1>10, <2>0, <2>3, <3>1
    <3> QED
      BY <2>0, <3>1, <3>2, <3>3
  <2>4. CASE Counts(f)
    BY <1>6, <1>10, <2>0, <2>4, BeginsWith
  <2> QED
    BY <1>1, <2>1, <2>2, <2>3, <2>4
<1>11. CASE Counts(g)
  <2>0. PICK x, y : /\ Place[g] = <<x, y>> /\ x # "hugepages" /\ x # "hashrate"
                    /\ x # "version" /\ x # "id" /\ x # "uptime" /\ y \notin Indices
                    /\ y = "shares_good" <=> g = "good"
                    /\ y = "shares_total" <=> g = "total"
                    /\ y = "pool" <=> g = "pool"
                    /\ y = "uptime_ms" <=> g = "connected"
    BY <1>6, <1>11
  <2>1. CASE Outside(f)
    BY <1>2, <1>11, <2>0, <2>1, BeginsWith
  <2>2. CASE Rates(f)
    BY <1>3, <1>11, <2>0, <2>2, BeginsWith
  <2>3. CASE Pages(f)
    BY <1>4, <1>11, <2>0, <2>3, BeginsWith
  <2>4. CASE Counts(f)
    <3>1. IsPrefix(Place[g], Place[f]) <=> f = g
      BY <1>5, <1>11, <2>4, BeginsWith
    <3> QED
      BY <2>0, <3>1
  <2> QED
    BY <1>1, <2>1, <2>2, <2>3, <2>4
<1> QED
  BY <1>1, <1>8, <1>9, <1>10, <1>11

(* The values of an answer are JSON. *)
LEMMA ValuesAreJSON ==
    /\ \A t \in Texts : IsJSON(Text(t)) /\ Inside(Text(t)) = {}
    /\ \A n \in Int : \A w : IsJSON(Number(n, w)) /\ Inside(Number(n, w)) = {}
    /\ \A m : m = [k \in DOMAIN m |-> m[k]] =>
          /\ IsJSON(Array(m)) /\ Inside(Array(m)) = {m[k] : k \in DOMAIN m}
          /\ IsJSON(Object(m)) /\ Inside(Object(m)) = {m[k] : k \in DOMAIN m}
          /\ Object(m).kind = "object"
<1>1. ASSUME NEW t \in Texts PROVE IsJSON(Text(t)) /\ Inside(Text(t)) = {}
  BY DEF Text, IsJSON, Inside
<1>2. ASSUME NEW n \in Int, NEW w PROVE IsJSON(Number(n, w)) /\ Inside(Number(n, w)) = {}
  BY DEF Number, IsJSON, Inside
<1>3. ASSUME NEW m, m = [k \in DOMAIN m |-> m[k]]
      PROVE  /\ IsJSON(Array(m)) /\ Inside(Array(m)) = {m[k] : k \in DOMAIN m}
             /\ IsJSON(Object(m)) /\ Inside(Object(m)) = {m[k] : k \in DOMAIN m}
             /\ Object(m).kind = "object"
  <2>1. IsJSON(Array(m)) /\ Inside(Array(m)) = {m[k] : k \in DOMAIN m}
    BY <1>3 DEF Array, IsJSON, Inside
  <2>2. /\ IsJSON(Object(m)) /\ Inside(Object(m)) = {m[k] : k \in DOMAIN m}
        /\ Object(m).kind = "object"
    BY <1>3 DEF Object, IsJSON, Inside
  <2> QED
    BY <2>1, <2>2
<1> QED
  BY <1>1, <1>2, <1>3

(* The answer of a miner that works is an object of JSON. *)
LEMMA SampleIsJSON == JSON3(Sample) /\ Sample.kind = "object"
<1> DEFINE rate    == [i \in Indices |-> Number(3, FALSE)]
           pages   == [i \in {"[0]", "[1]"} |-> Number(2, TRUE)]
           hash    == [total |-> Array(rate)]
           shares  == [shares_good |-> Number(2, TRUE), shares_total |-> Number(3, TRUE)]
           pool    == [pool |-> Text("p"), uptime_ms |-> Number(1, TRUE)]
           all     == [version |-> Text("6"), id |-> Text("mine"), uptime |-> Number(1, TRUE),
                       hashrate |-> Object(hash), hugepages |-> Array(pages),
                       results |-> Object(shares), connection |-> Object(pool)]
           Flat(v) == IsJSON(v) /\ Inside(v) = {}
<1>1. \A v : Flat(v) => JSON2(v) /\ JSON1(v)
  BY DEF JSON1, JSON2
<1>2. /\ Flat(Text("6")) /\ Flat(Text("mine")) /\ Flat(Text("p"))
      /\ Flat(Number(1, TRUE)) /\ Flat(Number(2, TRUE)) /\ Flat(Number(3, TRUE))
      /\ Flat(Number(3, FALSE))
  <2>1. "6" \in Texts /\ "mine" \in Texts /\ "p" \in Texts
    BY FieldsAssumption
  <2>2. 1 \in Int /\ 2 \in Int /\ 3 \in Int
    BY SMT
  <2> QED
    BY <2>1, <2>2, ValuesAreJSON, Zenon
<1>3. JSON1(Array(rate))
  <2>1. rate = [k \in DOMAIN rate |-> rate[k]] /\ \A k \in DOMAIN rate : IsJSON(rate[k])
    BY <1>2
  <2> HIDE DEF rate
  <2>2. IsJSON(Array(rate)) /\ Inside(Array(rate)) = {rate[k] : k \in DOMAIN rate}
    BY <2>1, ValuesAreJSON
  <2> QED
    BY <2>1, <2>2 DEF JSON1
<1>4. JSON2(Array(pages))
  <2>1. pages = [k \in DOMAIN pages |-> pages[k]] /\ \A k \in DOMAIN pages : JSON1(pages[k])
    BY <1>1, <1>2
  <2> HIDE DEF pages
  <2>2. IsJSON(Array(pages)) /\ Inside(Array(pages)) = {pages[k] : k \in DOMAIN pages}
    BY <2>1, ValuesAreJSON
  <2> QED
    BY <2>1, <2>2 DEF JSON2
<1>5. JSON2(Object(hash))
  <2> HIDE DEF rate
  <2>1. hash = [k \in DOMAIN hash |-> hash[k]] /\ \A k \in DOMAIN hash : JSON1(hash[k])
    BY <1>3
  <2> HIDE DEF hash
  <2>2. IsJSON(Object(hash)) /\ Inside(Object(hash)) = {hash[k] : k \in DOMAIN hash}
    BY <2>1, ValuesAreJSON
  <2> QED
    BY <2>1, <2>2 DEF JSON2
<1>6. JSON2(Object(shares))
  <2>0. /\ DOMAIN shares = {"shares_good", "shares_total"}
        /\ JSON1(shares["shares_good"]) /\ JSON1(shares["shares_total"])
    BY <1>1, <1>2
  <2>1. shares = [k \in DOMAIN shares |-> shares[k]] /\ \A k \in DOMAIN shares : JSON1(shares[k])
    BY <2>0
  <2> HIDE DEF shares
  <2>2. IsJSON(Object(shares)) /\ Inside(Object(shares)) = {shares[k] : k \in DOMAIN shares}
    BY <2>1, ValuesAreJSON
  <2> QED
    BY <2>1, <2>2 DEF JSON2
<1>7. JSON2(Object(pool))
  <2>0. /\ DOMAIN pool = {"pool", "uptime_ms"}
        /\ JSON1(pool["pool"]) /\ JSON1(pool["uptime_ms"])
    BY <1>1, <1>2
  <2>1. pool = [k \in DOMAIN pool |-> pool[k]] /\ \A k \in DOMAIN pool : JSON1(pool[k])
    BY <2>0
  <2> HIDE DEF pool
  <2>2. IsJSON(Object(pool)) /\ Inside(Object(pool)) = {pool[k] : k \in DOMAIN pool}
    BY <2>1, ValuesAreJSON
  <2> QED
    BY <2>1, <2>2 DEF JSON2
<1>8. Sample = Object(all)
  BY DEF Sample
<1> HIDE DEF rate, pages, hash, shares, pool
<1>9. all = [k \in DOMAIN all |-> all[k]] /\ \A k \in DOMAIN all : JSON2(all[k])
  <2>1. /\ JSON2(all.version) /\ JSON2(all.id) /\ JSON2(all.uptime)
        /\ JSON2(all.hashrate) /\ JSON2(all.hugepages) /\ JSON2(all.results)
        /\ JSON2(all.connection)
    BY <1>1, <1>2, <1>4, <1>5, <1>6, <1>7
  <2>2. DOMAIN all = {"version", "id", "uptime", "hashrate", "hugepages", "results", "connection"}
    OBVIOUS
  <2>3. all = [k \in DOMAIN all |-> all[k]]
    OBVIOUS
  <2> HIDE DEF all
  <2> QED
    BY <2>1, <2>2, <2>3
<1> HIDE DEF all
<1>10. /\ IsJSON(Object(all)) /\ Inside(Object(all)) = {all[k] : k \in DOMAIN all}
       /\ Object(all).kind = "object"
  BY <1>9, ValuesAreJSON
<1> QED
  BY <1>8, <1>9, <1>10 DEF JSON3

\* The answer is an object of JSON, and the summary is that of the answer.
FieldsInv ==
    /\ JSON3(body) /\ body.kind = "object"
    /\ summary = SummaryOf(body)
    /\ expected \in Printable

(* Every answer keeps FieldsInv. *)
LEMMA FieldsInvHolds == FieldsSpec => []FieldsInv
<1>1. FieldsInit => FieldsInv
  BY SampleIsJSON DEF FieldsInit, FieldsInv, ValidID
<1>2. ASSUME FieldsInv, [FieldsNext]_fieldsVars PROVE FieldsInv'
  <2>1. CASE Answer
    <3>1. PICK path \in Places, v \in Variants : /\ Holds(Get(body, Front(path)), Last(path))
                                                 /\ body' = Put(body, path, v)
      BY <2>1 DEF Answer
    <3>2. JSON3(body) /\ body.kind = "object"
      BY <1>2 DEF FieldsInv
    <3>3. JSON3(Put(body, path, v)) /\ Put(body, path, v).kind = body.kind
      BY <3>1, <3>2, PutKeepsJSON
    <3>4. JSON3(body') /\ body'.kind = "object"
      BY <3>1, <3>2, <3>3
    <3> QED
      BY <1>2, <2>1, <3>4 DEF Answer, FieldsInv
  <2>2. CASE UNCHANGED fieldsVars
    BY <1>2, <2>2 DEF fieldsVars, FieldsInv
  <2> QED
    BY <1>2, <2>1, <2>2 DEF FieldsNext
<1> QED
  BY <1>1, <1>2, PTL DEF FieldsSpec

(* What is reported of a field that has no value. *)
LEMMA FieldReported ==
    ASSUME NEW o, JSON3(o), o.kind = "object", NEW f \in DOMAIN Place,
           ValueOf(Reads(o)[f]) = Nil
    PROVE  (\E p \in Notes(Reads(o)) : IsPrefix(p, Place[f])) <=> Blamed(o, Place[f])
<1> DEFINE reads == Reads(o)
<1>1. DOMAIN reads = DOMAIN Place /\ \A g \in DOMAIN Place : Judges(reads[g], o, Place[g])
  BY ReadsJudge
<1>2. Notes(reads) = {reads[g].path : g \in {h \in DOMAIN reads : ~reads[h].ok /\ ~reads[h].missing}}
                     \cup IF /\ reads.good.ok /\ reads.total.ok
                             /\ reads.total.value.number < reads.good.value.number
                          THEN {<<"results", "shares_total">>} ELSE {}
  BY DEF Notes
<1> HIDE DEF reads
<1>3. ~reads[f].ok /\ (reads[f].missing <=> ~Blamed(o, Place[f]))
  BY <1>1 DEF Judges, reads
<1>4. ASSUME Blamed(o, Place[f]) PROVE \E p \in Notes(reads) : IsPrefix(p, Place[f])
  <2>1. reads[f].path \in Notes(reads)
    BY <1>1, <1>2, <1>3, <1>4
  <2>2. IsPrefix(Place[f], Place[f])
    BY PlacesApart
  <2>3. \/ reads[f].path = Place[f]
        \/ \E a, k : Place[f] = <<a, k>> /\ reads[f].path = <<a>>
        \/ \E a, b, k : Place[f] = <<a, b, k>> /\ reads[f].path = <<a, b>>
    BY <1>1, <1>3, <1>4 DEF Judges
  <2>4. ASSUME NEW a, NEW k, Place[f] = <<a, k>>, reads[f].path = <<a>>
        PROVE  IsPrefix(reads[f].path, Place[f])
    BY <2>4, BeginsWith
  <2>5. ASSUME NEW a, NEW b, NEW k, Place[f] = <<a, b, k>>, reads[f].path = <<a, b>>
        PROVE  IsPrefix(reads[f].path, Place[f])
    BY <2>5, BeginsWith
  <2>6. IsPrefix(reads[f].path, Place[f])
    BY <2>2, <2>3, <2>4, <2>5
  <2> QED
    BY <2>1, <2>6
<1>5. ASSUME NEW p \in Notes(reads), IsPrefix(p, Place[f]) PROVE Blamed(o, Place[f])
  <2>1. CASE p = <<"results", "shares_total">> /\ reads["total"].ok
    <3>1. "total" \in DOMAIN Place /\ Place["total"] = <<"results", "shares_total">>
      BY DEF Place
    <3>2. f = "total"
      BY <1>5, <2>1, <3>1, PlacesApart
    <3> QED
      BY <1>3, <2>1, <3>2
  <2>2. ASSUME NEW g \in DOMAIN Place, ~reads[g].ok, ~reads[g].missing, p = reads[g].path
        PROVE  Blamed(o, Place[f])
    <3>1. \/ p = Place[g]
          \/ \E a : \E k \in Indices : /\ Place[g] = <<a, k>> /\ p = <<a>>
                                      /\ \A j \in Indices : Blamed(o, <<a, j>>)
          \/ \E a, b : \E k \in Indices : /\ Place[g] = <<a, b, k>> /\ p = <<a, b>>
                                         /\ \A j \in Indices : Blamed(o, <<a, b, j>>)
      BY <1>1, <2>2 DEF Judges
    <3>2. CASE p = Place[g]
      <4>1. f = g
        BY <1>5, <3>2, PlacesApart
      <4> QED
        BY <1>3, <2>2, <4>1
    <3>3. ASSUME NEW a, NEW k \in Indices, Place[g] = <<a, k>>, p = <<a>>,
                 \A j \in Indices : Blamed(o, <<a, j>>)
          PROVE  Blamed(o, Place[f])
      <4>1. \E j \in Indices : Place[f] = <<a, j>>
        BY <1>5, <3>3, PlacesApart
      <4> QED
        BY <3>3, <4>1
    <3>4. ASSUME NEW a, NEW b, NEW k \in Indices, Place[g] = <<a, b, k>>, p = <<a, b>>,
                 \A j \in Indices : Blamed(o, <<a, b, j>>)
          PROVE  Blamed(o, Place[f])
      <4>1. \E j \in Indices : Place[f] = <<a, b, j>>
        BY <1>5, <3>4, PlacesApart
      <4> QED
        BY <3>4, <4>1
    <3> QED
      BY <3>1, <3>2, <3>3, <3>4
  <2>3. \/ p = <<"results", "shares_total">> /\ reads["total"].ok
        \/ \E g \in DOMAIN Place : ~reads[g].ok /\ ~reads[g].missing /\ p = reads[g].path
    BY <1>1, <1>2, <1>5
  <2> QED
    BY <2>1, <2>2, <2>3
<1> QED
  BY <1>4, <1>5 DEF reads

(* The summary of an answer. *)
LEMMA SummaryIs ==
    ASSUME FieldsInv
    PROVE  /\ DOMAIN summary.value = DOMAIN Place
           /\ \A f \in DOMAIN Place : summary.value[f] = ValueOf(Reads(body)[f])
           /\ summary.invalid = Notes(Reads(body))
<1>1. DOMAIN Reads(body) = DOMAIN Place
  BY ReadsJudge DEF FieldsInv
<1>2. /\ summary.value = [f \in DOMAIN Reads(body) |-> ValueOf(Reads(body)[f])]
      /\ summary.invalid = Notes(Reads(body))
  BY DEF FieldsInv, SummaryOf
<1> QED
  BY <1>1, <1>2

(* For any answers: parse reports every field that is of the wrong type or out of range,   *)
(* and nothing of one that is only absent.                                                 *)
THEOREM FieldsReported == FieldsSpec => []WrongIsReported
<1>1. FieldsInv => WrongIsReported
  <2> SUFFICES ASSUME FieldsInv, NEW f \in DOMAIN summary.value, summary.value[f] = Nil
               PROVE  LET there == Deepest(body, Place[f])
                      IN  (\E p \in summary.invalid : IsPrefix(p, Place[f]))
                             <=> \/ there = Place[f]
                                 \/ ~Holds(Get(body, there), Place[f][Len(there) + 1])
    BY DEF WrongIsReported
  <2>1. f \in DOMAIN Place /\ ValueOf(Reads(body)[f]) = Nil /\ summary.invalid = Notes(Reads(body))
    BY SummaryIs
  <2>2. (\E p \in summary.invalid : IsPrefix(p, Place[f])) <=> Blamed(body, Place[f])
    BY <2>1, FieldReported DEF FieldsInv
  <2> QED
    BY <2>2 DEF Blamed
<1> QED
  BY <1>1, FieldsInvHolds, PTL

(* For any answers: applyXMRig takes a miner for ours only if its answer holds the         *)
(* expected_id, which config.validate never lets be the empty one of a miner that does     *)
(* not say.                                                                                *)
THEOREM OnlyOwnPasses == FieldsSpec => []OnlyOwnMiner
<1>1. FieldsInv => OnlyOwnMiner
  <2> SUFFICES ASSUME FieldsInv, Identified PROVE Get(body, <<"id">>) = Text(expected)
    BY DEF OnlyOwnMiner
  <2> DEFINE v1 == Member(body, "id")
             r  == Kept(Walk(body, <<"id">>), "text")
  <2>1. expected # "" /\ expected \in Texts /\ Nil # expected
    BY FieldsAssumption DEF FieldsInv
  <2>2. summary.value.id = ValueOf(Reads(body).id)
    BY SummaryIs DEF Place
  <2>3. Reads(body).id = r
    BY DEF Reads, String
  <2>4. ValueOf(r) = expected /\ r.ok
    BY <2>1, <2>2, <2>3 DEF Identified, ValueOf
  <2>5. /\ JSON3(body) /\ body.kind = "object" /\ "id" \notin Indices
    BY DEF FieldsInv, Indices
  <2>6. Walk(body, <<"id">>) = IF v1 = JNull THEN Missing(<<"id">>) ELSE Found(v1, <<"id">>)
    BY <2>5, BodyIs, WalkIs
  <2>7. v1 # JNull
    BY <2>4, <2>6, ErrorStays, ResultsAre
  <2>8. IsJSON(v1)
    BY <2>5, MemberIsJSON
  <2>9. r = Kept(Found(v1, <<"id">>), "text")
    BY <2>6, <2>7
  <2>10. r = Found(v1, <<"id">>) /\ Is(v1, "text")
    BY <2>4, <2>8, <2>9, KeptIs
  <2>11. r.value = v1 /\ IsText(v1)
    BY <2>10, ResultsAre DEF Is
  <2>12. v1.text = expected /\ v1 = Text(v1.text)
    BY <2>4, <2>8, <2>11 DEF ValueOf, IsText, IsJSON
  <2>13. Get(body, <<"id">>) = v1
    BY GetIs
  <2> QED
    BY <2>12, <2>13
<1> QED
  BY <1>1, FieldsInvHolds, PTL
=============================================================================
