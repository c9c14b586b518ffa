----------------------------- MODULE ToolOutput -----------------------------
(***************************************************************************)
(* How the output of tool calls is shown and stored.                       *)
(*                                                                         *)
(* Before an event of a tool call is projected, the chunks it adds are     *)
(* derived from the projection as it is (output_updates) and committed     *)
(* with the event.  Then the projection is changed (project): by rules of  *)
(* its own, that are to amount to the same.  A shell that several calls    *)
(* use has a terminal and a stream of its own, next to those of the calls. *)
(* After a restart the projection is filled from the streams, from their   *)
(* last chunks only, and earlier ones are loaded when they are scrolled to.*)
(*                                                                         *)
(* A text is a sequence of chunks.  The event is appended and projected in *)
(* one action: an event that was appended but not projected when the       *)
(* process died is projected when it is replayed.                          *)
(***************************************************************************)
EXTENDS Naturals, SequencesExt

CONSTANTS
    Calls,       \* tool calls
    Shells,      \* shells
    Chunks,      \* what a chunk says
    Results,     \* the texts that a completion brings
    Window,      \* RESTORED_OUTPUT_CHUNKS
    None,
    MaxPartials, \* bound: partial results
    MaxRestarts  \* bound

ASSUME ToolOutputAssumption ==
    /\ Results \subseteq Seq(Chunks) \ {<<>>}
    /\ Calls \cap Shells = {} /\ None \notin Calls \cup Shells \cup Chunks
    /\ Window \in Nat \ {0} /\ MaxPartials \in Nat /\ MaxRestarts \in Nat

VARIABLES
    invocation,  \* invocation[c]: what is shown of call c
    terminal,    \* terminal[s]: what is shown of shell s
    stream,      \* durable: the chunks stored for a call or a shell
    sent,        \* what the runtime sent of a call's output (history, for properties)
    unread,      \* output_load_error: calls and shells whose text could not be read when
                 \* the session was recovered; an error is shown in its place
    over,        \* calls that were completed (history)
    odd,         \* calls whose start was not the first event, shells that a call turned
                 \* out to have used only when it ended or that ended unread, and shells
                 \* that showed all of a result before it came (history, for properties)
    partials, restarts \* bounds

vars == <<invocation, terminal, stream, sent, unread, over, odd, partials, restarts>>

Text == Seq(Chunks)
Shown == [output : Text, start : Nat, count : Nat]
Blank == [output |-> <<>>, start |-> 0, count |-> 0]

\* output_was_dropped; last_partial_delivery: its time and what it said.
Delivery   == [time : Nat, chunk : Chunks \cup {None}]
Invocation == [state : {"running", "ended", "cancelled"}, text : Shown, dropped : BOOLEAN,
               last : Delivery \cup {None}, shell : Shells \cup {None}]
Terminal   == [state : {"running", "exited", "cancelled"}, text : Shown, calls : Seq(Calls)]

Sent == [text : Text, dropped : BOOLEAN, last : Delivery \cup {None},
         result : Text]

ASSUME NoneAssumption == None \notin Invocation \cup Terminal \cup Delivery

Append1(shown, text) ==
    [output |-> shown.output \o text, start |-> shown.start, count |-> shown.count + Len(text)]
Replace1(text) == Append1(Blank, text)

\* ensure_terminal, with the call among those that contributed to it.
Joined(s, c) ==
    LET t == IF terminal[s] # None THEN terminal[s]
             ELSE [state |-> "running", text |-> Blank, calls |-> <<>>]
    IN  [t EXCEPT !.calls = IF Contains(@, c) THEN @ ELSE Append(@, c)]

\* apply_output_update: what is added to a stream, after it was emptied or not.
Update(replace, text) == [replace |-> replace, text |-> text]
Nothing == Update(FALSE, <<>>)

Stored(k, u) == (IF u.replace THEN <<>> ELSE stream[k]) \o u.text

Store(c, u, s, v) ==
    stream' = [k \in Calls \cup Shells |->
        IF k = c THEN Stored(k, u) ELSE IF k = s THEN Stored(k, v) ELSE stream[k]]

-----------------------------------------------------------------------------
\* project_start; a call can name the shell it is for.
Start(c, s) ==
    /\ invocation[c] = None
    /\ invocation' = [invocation EXCEPT ![c] =
         [state |-> "running", text |-> Blank, dropped |-> FALSE, last |-> None, shell |-> s]]
    /\ terminal' = IF s = None THEN terminal ELSE [terminal EXCEPT ![s] = Joined(s, c)]
    /\ odd' = IF stream[c] # <<>> \/ c \in over THEN odd \cup {c} \cup ({s} \cap Shells) ELSE odd
    /\ UNCHANGED <<stream, sent, unread, over, partials, restarts>>

\* Mutant: a partial result is compared with nothing.
AnyDelivery(c, d) == FALSE

\* is_redelivered_partial.
Redelivered(c, d) == invocation[c] # None /\ invocation[c].last = d

Heard(call, text, dropped, d) ==
    [call EXCEPT !.text = Append1(@, text), !.dropped = @ \/ dropped, !.last = d]

\* project_partial and its output_updates.  A part of the output is left out where
\* the text says so; that line is not shown, and may be all the text there is.
Partial(c, d, dropped) ==
    LET call == invocation[c]
        text == IF d.chunk = None THEN <<>> ELSE <<d.chunk>>
        s    == IF call = None THEN None ELSE call.shell
    IN  IF Redelivered(c, d) THEN UNCHANGED <<invocation, terminal, stream>>
        ELSE /\ Store(c, Update(FALSE, text), s, Update(FALSE, text))
             /\ invocation' = IF call = None THEN invocation ELSE
                  [invocation EXCEPT ![c] = Heard(@, text, dropped, d)]
             /\ terminal' = IF s = None \/ terminal[s] = None THEN terminal ELSE
                  [terminal EXCEPT ![s].text = Append1(@, text)]

WasSent(x, d, dropped) ==
    [x EXCEPT !.text = IF d.chunk = None THEN @ ELSE Append(@, d.chunk),
              !.dropped = @ \/ dropped, !.last = d]

PartialResult(c) ==
    /\ partials < MaxPartials /\ partials' = partials + 1
    /\ c \notin over
    /\ \E chunk \in Chunks \cup {None}, dropped \in BOOLEAN :
        LET d == [time |-> partials', chunk |-> chunk]
        IN  /\ chunk # None \/ dropped
            /\ Partial(c, d, dropped)
            /\ sent' = [sent EXCEPT ![c] = WasSent(@, d, dropped)]
    /\ odd' = IF invocation[c] = None THEN odd \cup {c} ELSE odd
    /\ UNCHANGED <<unread, over, restarts>>

\* The runtime delivers its last partial result again, as a new event.
Redelivery(c) ==
    /\ sent[c].last # None /\ c \notin odd
    /\ Partial(c, sent[c].last, FALSE)
    /\ UNCHANGED <<sent, unread, over, odd, partials, restarts>>

-----------------------------------------------------------------------------
\* A completion: its text, whether that leaves out parts too, the shell it says has
\* exited, and a preview of what that shell printed.
Completion ==
    {e \in [result : Results \cup {<<>>}, marked : BOOLEAN, exited : Shells \cup {None},
            preview : Results \cup {<<>>}] :
        (e.marked => e.result # <<>>) /\ (e.exited = None => e.preview = <<>>)}

\* The result takes the place of a preview that left out parts.
Replaces(call, e) == call.dropped /\ e.result # <<>> /\ ~e.marked

\* What the result has beyond the output shown so far, where it begins with that.
Suffix(call, e) ==
    IF Replaces(call, e) /\ IsPrefix(call.text.output, e.result)
    THEN SubSeq(e.result, Len(call.text.output) + 1, Len(e.result)) ELSE <<>>

ShellOf(call, e) == IF e.exited # None THEN e.exited ELSE IF call = None THEN None ELSE call.shell

\* output_updates: what is stored for the call.
CallUpdate(call, e) ==
    IF call = None THEN Nothing
    ELSE IF Replaces(call, e) THEN Update(TRUE, e.result)
    ELSE IF call.text.count = 0 THEN Update(FALSE, e.result) ELSE Nothing

\* output_updates: what is stored for its shell.
ShellUpdate(c, call, t, e) ==
    LET alone  == t # None /\ t.calls = <<c>>
        shared == t # None /\ Len(t.calls) > 1
        first  == IF CallUpdate(call, e).text # <<>> THEN CallUpdate(call, e).text
                  ELSE IF call # None /\ call.text.output # <<>> THEN call.text.output
                  ELSE e.preview
    IN  IF call # None /\ alone /\ Replaces(call, e) /\ t.text.output # e.result
        THEN Update(TRUE, e.result)
        ELSE IF call # None /\ shared /\ Suffix(call, e) # <<>>
                  /\ IsSuffix(call.text.output, t.text.output)
        THEN Update(FALSE, Suffix(call, e))
        ELSE IF t = None \/ t.text.count = 0 THEN Update(FALSE, first) ELSE Nothing

\* project_complete: what is shown of the call.
CallShown(call, e) ==
    IF Replaces(call, e) THEN Replace1(e.result)
    ELSE IF call.text.output = <<>> THEN Append1(call.text, e.result) ELSE call.text

\* Mutant: the provisional output is not replaced, only extended.
ShellShownExtended(c, call, t, e) ==
    IF t.text.output = <<>> THEN Append1(t.text, CallShown(call, e).output)
    ELSE Append1(t.text, Suffix(call, e))

\* project_complete: what is shown of its shell; t is the terminal with the call.
ShellShown(c, call, t, e) ==
    IF Replaces(call, e) /\ t.calls = <<c>> /\ t.text.output # e.result
    THEN Replace1(e.result)
    ELSE IF Suffix(call, e) # <<>> /\ IsSuffix(call.text.output, t.text.output)
    THEN Append1(t.text, Suffix(call, e))
    ELSE IF t.text.output # <<>> \/ (Replaces(call, e) /\ Len(t.calls) > 1) THEN t.text
    ELSE Append1(t.text, IF CallShown(call, e).output # <<>> THEN CallShown(call, e).output
                         ELSE e.preview)

\* The shell of call c alone shows all of the result, the call only the end of it: the
\* projection appends the suffix to the terminal, and output_updates stores nothing.
Doubled(c, call, t, e) ==
    /\ call # None /\ t # None /\ t.calls = <<c>> /\ t.text.output = e.result
    /\ Suffix(call, e) # <<>> /\ IsSuffix(call.text.output, t.text.output)

\* What is shown of the shell may part from what is stored (history, for properties).
Strays(c, call, t, e) ==
    \/ call = None \/ c \in unread
    \/ t # None /\ ~Contains(t.calls, c)
    \/ Doubled(c, call, t, e)

Ended(call, s, e) ==
    [call EXCEPT !.state = "ended", !.text = CallShown(call, e),
                 !.shell = IF @ = None THEN s ELSE @, !.dropped = @ /\ ~Replaces(call, e)]

Left(t, c, call, e) ==
    [t EXCEPT !.text = ShellShown(c, call, t, e),
              !.state = IF e.exited # None THEN "exited" ELSE @]

Complete(c, e) ==
    LET call == invocation[c]
        s    == ShellOf(call, e)
        t    == IF s = None THEN None ELSE terminal[s]
    IN  /\ c \notin over
        /\ over' = over \cup {c}
        /\ Store(c, CallUpdate(call, e), s, IF s = None THEN Nothing ELSE ShellUpdate(c, call, t, e))
        /\ IF call = None THEN UNCHANGED <<invocation, terminal>>
           ELSE /\ invocation' = [invocation EXCEPT ![c] = Ended(call, s, e)]
                /\ terminal' = IF s = None THEN terminal ELSE
                                [terminal EXCEPT ![s] = Left(Joined(s, c), c, call, e)]
        /\ sent' = [sent EXCEPT ![c].result = IF sent[c].text = <<>>
                                                \/ (sent[c].dropped /\ ~e.marked)
                                             THEN e.result ELSE <<>>]
        /\ odd' = odd \cup (IF call = None THEN {c} ELSE {})
                      \cup (IF s # None /\ Strays(c, call, t, e) THEN {s} ELSE {})
        /\ UNCHANGED <<unread, partials, restarts>>

-----------------------------------------------------------------------------
\* mark_running_invocations_cancelled and mark_running_terminals_cancelled.
CancelledCall(call) ==
    IF call # None /\ call.state = "running" THEN [call EXCEPT !.state = "cancelled"] ELSE call

\* Mutant: whatever the shell is doing.
CancelledAnyShell(t) == IF t # None THEN [t EXCEPT !.state = "cancelled"] ELSE t

CancelledShell(t) ==
    IF t # None /\ t.state = "running" THEN [t EXCEPT !.state = "cancelled"] ELSE t

\* The turn is cancelled.
Abort ==
    /\ invocation' = [c \in Calls |-> CancelledCall(invocation[c])]
    /\ terminal' = [s \in Shells |-> CancelledShell(terminal[s])]
    /\ UNCHANGED <<stream, sent, unread, over, odd, partials, restarts>>

\* hydrate_output and set_output: the last chunks of what is stored.
Hydrated(k) ==
    LET start == IF Len(stream[k]) > Window THEN Len(stream[k]) - Window ELSE 0
    IN  [output |-> SubSeq(stream[k], start + 1, Len(stream[k])), start |-> start,
         count |-> Len(stream[k])]

\* The error branch of set_output: the text is cleared, the window and the count stay.
Cleared(shown) == [shown EXCEPT !.output = <<>>]

Recovered(k, shown, failed) == IF k \in failed THEN Cleared(shown) ELSE Hydrated(k)

\* The process ends, at any moment, and the session is recovered and reconciled: only
\* the text is not kept in the snapshot.  Any of the reads may fail.
Restart(failed) ==
    /\ restarts < MaxRestarts /\ restarts' = restarts + 1
    /\ \A k \in failed : IF k \in Calls THEN invocation[k] # None ELSE terminal[k] # None
    /\ invocation' = [c \in Calls |-> IF invocation[c] = None THEN None ELSE
                        [CancelledCall(invocation[c]) EXCEPT !.text = Recovered(c, @, failed)]]
    /\ terminal' = [s \in Shells |-> IF terminal[s] = None THEN None ELSE
                        [CancelledShell(terminal[s]) EXCEPT !.text = Recovered(s, @, failed)]]
    /\ unread' = failed
    /\ UNCHANGED <<stream, sent, over, odd, partials>>

\* Mutant: the window is not compared with the one that was asked for.
PrependedAnywhere(k, shown, start, before) ==
    [output |-> SubSeq(stream[k], start + 1, before) \o shown.output, start |-> start,
     count |-> shown.count]

\* prepend_output.
Prepended(k, shown, start, before) ==
    IF shown.start # before \/ start >= before THEN shown
    ELSE [output |-> SubSeq(stream[k], start + 1, before) \o shown.output, start |-> start,
          count |-> shown.count]

\* load_output: the chunks before those shown, as the window that asks knew them.
LoadOutput(k, before) ==
    LET start == IF before > Window THEN before - Window ELSE 0
    IN  /\ Len(stream[k]) >= before
        /\ \/ /\ k \in Calls /\ invocation[k] # None
              /\ invocation' = [invocation EXCEPT ![k].text = Prepended(k, @, start, before)]
              /\ UNCHANGED terminal
           \/ /\ k \in Shells /\ terminal[k] # None
              /\ terminal' = [terminal EXCEPT ![k].text = Prepended(k, @, start, before)]
              /\ UNCHANGED invocation
        /\ UNCHANGED <<stream, sent, unread, over, odd, partials, restarts>>

-----------------------------------------------------------------------------
Init ==
    /\ invocation = [c \in Calls |-> None]
    /\ terminal = [s \in Shells |-> None]
    /\ stream = [k \in Calls \cup Shells |-> <<>>]
    /\ sent = [c \in Calls |-> [text |-> <<>>, dropped |-> FALSE, last |-> None,
                                result |-> <<>>]]
    /\ unread = {} /\ over = {} /\ odd = {} /\ partials = 0 /\ restarts = 0

Next ==
    \/ \E c \in Calls, s \in Shells \cup {None} : Start(c, s)
    \/ \E c \in Calls : PartialResult(c) \/ Redelivery(c)
    \/ \E c \in Calls, e \in Completion : Complete(c, e)
    \/ Abort
    \/ \E failed \in SUBSET (Calls \cup Shells) : Restart(failed)
    \/ \E k \in Calls \cup Shells : \E before \in 1..Len(stream[k]) : LoadOutput(k, before)

Spec == Init /\ [][Next]_vars

-----------------------------------------------------------------------------
(* Properties.                                                             *)

TypeOK ==
    /\ invocation \in [Calls -> Invocation \cup {None}]
    /\ terminal \in [Shells -> Terminal \cup {None}]
    /\ stream \in [Calls \cup Shells -> Text]
    /\ sent \in [Calls -> Sent]
    /\ \A s \in Shells : terminal[s] # None => IsInjective(terminal[s].calls)
    /\ over \subseteq Calls /\ odd \subseteq Calls \cup Shells
    /\ unread \subseteq Calls \cup Shells

Tail1(k, shown) ==
    /\ shown.count = Len(stream[k])
    /\ shown.output = SubSeq(stream[k], shown.start + 1, Len(stream[k]))

\* "Projection then applies the same mutations to in-memory display state": what is
\* shown of a call or of a shell is what is stored for it, from the chunk on that the
\* window begins with, whatever was streamed, replaced, restored and scrolled to, but
\* where an error is shown because it could not be read; the next recovery that reads
\* it shows it again.
ShownIsStored ==
    /\ \A c \in Calls \ (odd \cup unread) : invocation[c] # None => Tail1(c, invocation[c].text)
    /\ \A s \in Shells \ (odd \cup unread) : terminal[s] # None => Tail1(s, terminal[s].text)

\* What is stored of a call is what the runtime sent, every partial result once, in
\* order, or the complete result where the partial ones left out something or there
\* were none; also across a restart, and when a result is delivered again.
SentIsStored ==
    \A c \in Calls \ odd :
        stream[c] = IF sent[c].result # <<>> THEN sent[c].result ELSE sent[c].text

\* "A shell reports exit only once; later `read_bash` calls against the same id must
\* not resurrect it", nor does a cancelled turn or a restart turn an exit into a
\* cancellation.
ExitIsFinal ==
    [][\A s \in Shells : terminal[s] # None /\ terminal[s].state = "exited" =>
           terminal'[s] # None /\ terminal'[s].state = "exited"]_vars

=============================================================================
