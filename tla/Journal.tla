-------------------------------- MODULE Journal --------------------------------
(***************************************************************************)
(* The payout report: ExecRunner and limitedWriter of                      *)
(* internal/systemd/systemd.go, Fetch, Parse and FormatXMR of              *)
(* internal/payouts/payouts.go.                                            *)
(*                                                                         *)
(* journalctl, the pipe and os/exec are external: journalctl writes the    *)
(* lines that match and exits, or is killed by the deadline; a copy of its *)
(* output that stops closes the pipe, after which it is killed at its next *)
(* write.  A line is the payout it reports, a block without one, or of a   *)
(* form that Parse does not know: what journalctl searches for is less     *)
(* than the two regular expressions ask.  Output is measured in lines.     *)
(* Word is the size of an unsigned 64-bit number, Atomic what makes one    *)
(* XMR.                                                                    *)
(*                                                                         *)
(* An operator named after another with a suffix (CopyStopsNever) is a     *)
(* slip the code could have had, kept to show that a property notices.     *)
(***************************************************************************)
EXTENDS Integers, Sequences, FiniteSets

CONSTANTS
    Entries,     \* what journalctl may find: Without, Unknown or [whole, frac]
    MaxEntries,  \* bound: lines that match
    Limit,       \* lines that limitedWriter takes
    Word, Atomic,
    Without, Unknown

ASSUME JournalAssumption ==
    /\ MaxEntries \in Nat /\ Limit \in Nat /\ Word \in Nat \ {0} /\ Atomic \in Nat \ {0}
    /\ \A l \in Entries \ {Without, Unknown} : l.whole \in Nat /\ l.frac \in 0 .. Atomic - 1

VARIABLES
    matching,  \* the lines that match, of the journal that journalctl may read
    left,      \* those that journalctl has not written yet
    buffer,    \* what limitedWriter took
    copying,   \* whether the output is still copied
    child,     \* journalctl, and how it ended; "failed" is an exit with a message
    fetched,   \* what Fetch returns: "nothing" yet, "error" or "report"
    payouts,   \* the report
    hidden     \* history: journalctl was refused the journal and -q kept it from saying so

journalVars == <<matching, left, buffer, copying, child, fetched, payouts, hidden>>

ChildStates == {"starts", "runs", "exit0", "exit1", "failed", "killed"}
NoReport == [payouts |-> <<>>, total |-> 0, without |-> 0]

JournalInit ==
    /\ matching = <<>> /\ left = <<>> /\ buffer = <<>>
    /\ copying = TRUE /\ child = "starts"
    /\ fetched = "nothing" /\ payouts = NoReport
    /\ hidden = FALSE

\* journalctl finds what matches; or it fails, with a message, or without one and like a
\* search that found nothing.
Search ==
    /\ child = "starts"
    /\ \/ \E n \in 0 .. MaxEntries : \E ls \in [1 .. n -> Entries] :
             /\ matching' = ls
             /\ \/ left' = ls /\ child' = "runs" /\ hidden' = FALSE
                \/ left' = <<>> /\ child' = "exit1" /\ hidden' = TRUE
       \/ child' = "failed" /\ UNCHANGED <<matching, left, hidden>>
    /\ UNCHANGED <<buffer, copying, fetched, payouts>>

\* limitedWriter cuts what exceeds its limit and says so by a short count, upon which
\* io.Copy stops.
CopyStopsNever(cut) == FALSE
CopyStops(cut) == cut

WriteLines ==
    /\ child = "runs" /\ left # <<>> /\ copying
    /\ \E n \in 1 .. Len(left) :
          LET room == Limit - Len(buffer)
              cut  == n > room
          IN  /\ buffer' = buffer \o SubSeq(left, 1, IF cut THEN room ELSE n)
              /\ left' = SubSeq(left, n + 1, Len(left))
              /\ copying' = ~CopyStops(cut)
    /\ UNCHANGED <<matching, child, fetched, payouts, hidden>>

\* A write into the closed pipe.
BrokenPipe ==
    /\ child = "runs" /\ left # <<>> /\ ~copying
    /\ child' = "killed"
    /\ UNCHANGED <<matching, left, buffer, copying, fetched, payouts, hidden>>

\* Without a match it exits with 1 and says nothing.
Exit ==
    /\ child = "runs" /\ left = <<>>
    /\ child' = IF matching = <<>> THEN "exit1" ELSE "exit0"
    /\ UNCHANGED <<matching, left, buffer, copying, fetched, payouts, hidden>>

\* The deadline of the context.
Deadline ==
    /\ child \in {"starts", "runs"}
    /\ child' = "killed"
    /\ UNCHANGED <<matching, left, buffer, copying, fetched, payouts, hidden>>

-----------------------------------------------------------------------------
(* Parse: all arithmetic is on unsigned words. *)

Units(l) == (l.whole * Atomic + l.frac) % Word

\* One line: a payout, a block without one, or what neither expression knows.
Line(r, l) ==
    IF l = Unknown THEN r
    ELSE IF l = Without THEN [r EXCEPT !.without = @ + 1]
    ELSE [r EXCEPT !.payouts = Append(@, l), !.total = (@ + Units(l)) % Word]

\* The loop over the lines.
Reports(ls) ==
    LET r[n \in 0 .. Len(ls)] == IF n = 0 THEN NoReport ELSE Line(r[n - 1], ls[n])
    IN  r

Parse(ls) == Reports(ls)[Len(ls)]

FormatXMR(a) == [whole |-> a \div Atomic, frac |-> a % Atomic]

\* Run returns the exit of the child, or else the error of the copy.
RunError == child # "exit0" \/ ~copying

Accepted == ~RunError \/ child = "exit1"

Fetch ==
    /\ child \notin {"starts", "runs"} /\ fetched = "nothing"
    /\ fetched' = IF Accepted THEN "report" ELSE "error"
    /\ payouts' = IF Accepted THEN Parse(buffer) ELSE NoReport
    /\ UNCHANGED <<matching, left, buffer, copying, child, hidden>>

JournalNext == Search \/ WriteLines \/ BrokenPipe \/ Exit \/ Deadline \/ Fetch

JournalSpec == JournalInit /\ [][JournalNext]_journalVars

-----------------------------------------------------------------------------
(* Properties. *)

\* What the lines are worth together.
Amount(l) == IF l \in {Without, Unknown} THEN 0 ELSE l.whole * Atomic + l.frac

Sums(ls) ==
    LET s[n \in 0 .. Len(ls)] == IF n = 0 THEN 0 ELSE s[n - 1] + Amount(ls[n])
    IN  s

SumOf(ls) == Sums(ls)[Len(ls)]

\* The lines that Parse knows.
Known(ls) == {i \in DOMAIN ls : ls[i] # Unknown}

\* PAY-01 to PAY-03: unless -q hid a refusal, a report counts every line that matched and
\* is of a known form, and adds up their amounts as long as the sum fits a word; output
\* that was cut, a failure with a message or the deadline never passes as a shorter
\* history or as no payouts at all.
ReportIsComplete ==
    fetched = "report" =>
        /\ child \in {"exit0", "exit1"}
        /\ ~hidden =>
              /\ Len(payouts.payouts) + payouts.without = Cardinality(Known(matching))
              /\ SumOf(matching) < Word =>
                    LET t == FormatXMR(payouts.total)
                    IN  t.whole * Atomic + t.frac = SumOf(matching)
=============================================================================
