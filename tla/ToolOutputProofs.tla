--------------------------- MODULE ToolOutputProofs ---------------------------
(***************************************************************************)
(* Theorems about ToolOutput, for any calls, shells, texts and windows.    *)
(*                                                                         *)
(* That projection and storage agree does not follow from their texts      *)
(* alone.  A terminal of several calls keeps what it shows when a result   *)
(* replaces the preview of one of them, while the storage would take a     *)
(* first text if it had none: it has one, since what a call has streamed   *)
(* its shell has too (Fed), and only a call that was started for a shell   *)
(* ends in it as one of its calls (Linked).                                *)
(***************************************************************************)
EXTENDS ToolOutput, SequenceTheorems, TLAPS

(***************************************************************************)
(* The inductive invariant.                                                *)
(***************************************************************************)

\* A text that shows nothing stands for nothing.
Shape(text) == (text.output = <<>> <=> text.count = 0) /\ (text.count = 0 => text.start = 0)

\* What is shown of a call has this form, also of those whose start came late, and
\* where something is shown something is stored, unless it could not be read.
CallShape ==
    \A c \in Calls \ unread : invocation[c] # None =>
        /\ Shape(invocation[c].text)
        /\ invocation[c].text.output # <<>> => stream[c] # <<>>

ShellShape == \A s \in Shells \ unread : terminal[s] # None => Shape(terminal[s].text)

\* Until a call ends it is known how much of it is stored, though it could not be read.
Counted ==
    \A c \in Calls \ (odd \cup over) : invocation[c] # None =>
        invocation[c].text.count = Len(stream[c])

\* Nothing was sent and nothing is stored before the start of a call.
CallFresh ==
    \A c \in Calls \ odd : invocation[c] = None =>
        stream[c] = <<>> /\ sent[c].text = <<>> /\ sent[c].last = None /\ ~sent[c].dropped
        /\ sent[c].result = <<>>

\* Nothing is stored of a shell before it is shown.
ShellFresh == \A s \in Shells \ odd : terminal[s] = None => stream[s] = <<>>

\* A call with a shell is among the calls of its terminal, and until it ends it is
\* there for no other reason.
Linked ==
    \A c \in Calls, s \in Shells :
        /\ invocation[c] # None /\ invocation[c].shell = s =>
              terminal[s] # None /\ Contains(terminal[s].calls, c)
        /\ terminal[s] # None /\ Contains(terminal[s].calls, c) /\ c \notin over =>
              invocation[c] # None /\ invocation[c].shell = s

\* What a call has streamed so far its shell has too.
Fed ==
    \A c \in Calls \ over, s \in Shells \ odd :
        invocation[c] # None /\ invocation[c].shell = s /\ stream[c] # <<>> => stream[s] # <<>>

\* A call remembers the last partial result it was sent, and whether one left out
\* something; the time that comes next is new.
Known ==
    \A c \in Calls :
        /\ c \notin odd /\ invocation[c] # None => invocation[c].last = sent[c].last
        /\ c \notin odd \cup over /\ invocation[c] # None => invocation[c].dropped = sent[c].dropped
        /\ c \notin over => sent[c].result = <<>>
        /\ invocation[c] # None /\ invocation[c].last # None => invocation[c].last.time <= partials

ToolInv ==
    /\ TypeOK /\ CallShape /\ ShellShape /\ Counted /\ CallFresh /\ ShellFresh /\ Linked /\ Fed /\ Known
    /\ partials \in Nat
    /\ ShownIsStored /\ SentIsStored
-----------------------------------------------------------------------------
(* Texts, and what is shown of them.                                       *)

\* The end of a stored text, as Tail1 says of a stream.
EndOf(stored, shown) ==
    /\ shown.count = Len(stored)
    /\ shown.output = SubSeq(stored, shown.start + 1, Len(stored))

LEMMA Ends ==
    /\ \A k, shown : Tail1(k, shown) <=> EndOf(stream[k], shown)
    /\ \A k, shown : Tail1(k, shown)' <=> EndOf(stream'[k], shown')
  BY DEF Tail1, EndOf

LEMMA PartOfText ==
    ASSUME NEW text \in Text, NEW a \in 0..Len(text), NEW b \in a..Len(text)
    PROVE  /\ SubSeq(text, a + 1, b) \in Text /\ Len(SubSeq(text, a + 1, b)) = b - a
           /\ SubSeq(text, a + 1, b) = <<>> <=> a = b
           /\ \A i \in 1..b - a : SubSeq(text, a + 1, b)[i] = text[a + i]
<1>1. text \in Seq(Chunks) /\ Len(text) \in Nat
  BY LenProperties DEF Text
<1>2. a + 1 \in Int /\ b \in Int
  BY <1>1
<1>3. \A i \in a + 1..b : text[i] \in Chunks
  <2> TAKE i \in a + 1..b
  <2>1. i \in 1..Len(text)
    BY <1>1
  <2> QED  BY <1>1, <2>1, ElementOfSeq
<1> DEFINE part == SubSeq(text, a + 1, b)
<1>4. /\ part \in Seq(Chunks) /\ Len(part) = IF a + 1 <= b THEN b - (a + 1) + 1 ELSE 0
      /\ \A i \in 1..b - (a + 1) + 1 : part[i] = text[a + 1 + i - 1]
  BY <1>2, <1>3, SubSeqProperties
<1>5. Len(part) = 0 <=> part = <<>>
  BY <1>4, EmptySeq
<1> HIDE DEF part
<1>6. b - (a + 1) + 1 = b - a /\ \A i \in 1..b - a : a + 1 + i - 1 = a + i
  BY <1>1, <1>2
<1> QED  BY <1>1, <1>2, <1>4, <1>5, <1>6 DEF Text, part

LEMMA PartsOfText ==
    ASSUME NEW text \in Text, NEW a \in 0..Len(text), NEW b \in a..Len(text)
    PROVE  SubSeq(text, a + 1, b) \o SubSeq(text, b + 1, Len(text))
             = SubSeq(text, a + 1, Len(text))
<1>1. text \in Seq(Chunks) /\ Len(text) \in Nat
  BY LenProperties DEF Text
<1>2. a + 1 \in 1..Len(text) + 1 /\ b \in a + 1 - 1..Len(text)
      /\ Len(text) \in b..Len(text)
  BY <1>1
<1> DEFINE m == a + 1
<1>3. a + 1 - 1 = m - 1
  BY <1>1
<1> HIDE DEF m
<1>4. m \in 1..Len(text) + 1 /\ b \in m - 1..Len(text)
  BY <1>2, <1>3 DEF m
<1>5. SubSeq(text, m, b) \o SubSeq(text, b + 1, Len(text)) = SubSeq(text, m, Len(text))
  BY <1>1, <1>2, <1>4, ConcatAdjacentSubSeq
<1> QED  BY <1>5 DEF m

LEMMA BlankIsShown == Blank \in Shown /\ Shape(Blank) /\ EndOf(<<>>, Blank)
  BY SubSeqEmpty, EmptySeq DEF Blank, Shown, Text, Shape, EndOf

\* The window begins before the end of what it shows.
LEMMA EndIsWithin ==
    ASSUME NEW stored \in Text, NEW shown \in Shown, EndOf(stored, shown), Shape(shown)
    PROVE  /\ shown.start \in 0..Len(stored)
           /\ shown.output = <<>> <=> stored = <<>>
           /\ shown.count = 0 <=> stored = <<>>
<1>1. Len(stored) \in Nat /\ (Len(stored) = 0 <=> stored = <<>>)
  BY EmptySeq, LenProperties DEF Text
<1>2. shown.start \in Nat /\ shown.count \in Nat
  BY DEF Shown
<1>3. shown.start > Len(stored) => shown.output = <<>>
  BY <1>1, <1>2, SubSeqEmpty DEF EndOf
<1> QED  BY <1>1, <1>2, <1>3 DEF EndOf, Shape

LEMMA AppendedIsShown ==
    ASSUME NEW shown \in Shown, NEW text \in Text
    PROVE  /\ Append1(shown, text) \in Shown
           /\ Append1(shown, text) = [output |-> shown.output \o text, start |-> shown.start,
                                      count |-> shown.count + Len(text)]
           /\ Shape(shown) => Shape(Append1(shown, text))
<1>1. shown.output \in Seq(Chunks) /\ text \in Seq(Chunks)
  BY DEF Shown, Text
<1>2. /\ shown.output \o text \in Seq(Chunks) /\ Len(text) \in Nat
      /\ shown.output \o text = <<>> <=> shown.output = <<>> /\ text = <<>>
      /\ Len(text) = 0 <=> text = <<>>
  BY <1>1, ConcatProperties, ConcatEqualIffEmpty, EmptySeq
<1>3. Append1(shown, text) = [output |-> shown.output \o text, start |-> shown.start,
                              count |-> shown.count + Len(text)]
  BY DEF Append1, Shown
<1> QED  BY <1>2, <1>3 DEF Shown, Text, Shape

LEMMA AppendedIsEnd ==
    ASSUME NEW stored \in Text, NEW shown \in Shown, NEW text \in Text,
           EndOf(stored, shown), Shape(shown)
    PROVE  stored \o text \in Text /\ EndOf(stored \o text, Append1(shown, text))
<1> DEFINE n == shown.start
           both == stored \o text
<1>1. stored \in Seq(Chunks) /\ text \in Seq(Chunks) /\ n \in 0..Len(stored)
  BY EndIsWithin DEF Text
<1>2. both \in Seq(Chunks) /\ Len(both) = Len(stored) + Len(text) /\ Len(text) \in Nat
      /\ Len(stored) \in Nat
      /\ \A i \in 1..Len(both) : both[i] = IF i <= Len(stored) THEN stored[i]
                                           ELSE text[i - Len(stored)]
  BY <1>1, ConcatProperties, LenProperties
<1>3. shown.output = SubSeq(stored, n + 1, Len(stored)) /\ shown.count = Len(stored)
  BY DEF EndOf
<1> HIDE DEF both, n
<1>4. SubSeq(both, n + 1, Len(both)) = shown.output \o text
  <2> DEFINE left == SubSeq(both, n + 1, Len(both))
             right == shown.output \o text
  <2>1. left \in Seq(Chunks) /\ Len(left) = Len(both) - n
        /\ \A i \in 1..Len(both) - n : left[i] = both[n + i]
    BY <1>1, <1>2, PartOfText DEF Text
  <2>2. shown.output \in Seq(Chunks) /\ Len(shown.output) = Len(stored) - n
        /\ \A i \in 1..Len(stored) - n : shown.output[i] = stored[n + i]
    BY <1>1, <1>2, <1>3, PartOfText DEF Text
  <2> HIDE DEF left, right
  <2>3. right \in Seq(Chunks) /\ Len(right) = Len(stored) - n + Len(text)
        /\ \A i \in 1..Len(right) : right[i] = IF i <= Len(stored) - n THEN shown.output[i]
                                               ELSE text[i - (Len(stored) - n)]
    <3> DEFINE first == shown.output
    <3>1. first \in Seq(Chunks) /\ Len(first) = Len(stored) - n /\ text \in Seq(Chunks)
      BY <1>1, <2>2
    <3> HIDE DEF first
    <3>2. /\ first \o text \in Seq(Chunks) /\ Len(first \o text) = Len(first) + Len(text)
          /\ \A i \in 1..Len(first) + Len(text) :
                (first \o text)[i] = IF i <= Len(first) THEN first[i] ELSE text[i - Len(first)]
      BY <3>1, ConcatProperties
    <3>3. right = first \o text
      BY DEF right, first
    <3> QED  BY <3>1, <3>2, <3>3 DEF first
  <2>4. \A i \in 1..Len(left) : left[i] = right[i]
    <3> TAKE i \in 1..Len(left)
    <3>1. i \in 1..Len(right) /\ n + i \in 1..Len(both) /\ i \in Nat
      BY <1>1, <1>2, <2>1, <2>3
    <3>2. left[i] = both[n + i]
      BY <1>1, <1>2, <2>1, <3>1
    <3>3. CASE i <= Len(stored) - n
      BY <1>1, <1>2, <2>2, <2>3, <3>1, <3>2, <3>3
    <3>4. CASE i > Len(stored) - n
      <4>1. n + i > Len(stored) /\ n + i - Len(stored) = i - (Len(stored) - n)
        BY <1>1, <1>2, <3>1, <3>4
      <4> QED  BY <1>1, <1>2, <2>3, <3>1, <3>2, <3>4, <4>1
    <3> QED  BY <1>1, <1>2, <3>1, <3>3, <3>4
  <2>5. left = right
    BY <1>1, <1>2, <2>1, <2>3, <2>4, SeqEqual
  <2> QED  BY <2>5 DEF left, right
<1>5. Append1(shown, text) = [output |-> shown.output \o text, start |-> n,
                              count |-> shown.count + Len(text)]
  BY AppendedIsShown DEF n
<1>6. /\ Append1(shown, text).count = Len(both)
      /\ Append1(shown, text).output = SubSeq(both, Append1(shown, text).start + 1, Len(both))
  <2>1. shown.count + Len(text) = Len(both)
    BY <1>2, <1>3
  <2>2. /\ Append1(shown, text).count = shown.count + Len(text)
        /\ Append1(shown, text).output = shown.output \o text
        /\ Append1(shown, text).start = n
    BY <1>5
  <2> QED  BY <1>4, <2>1, <2>2
<1> QED  BY <1>2, <1>6 DEF EndOf, Text, both

LEMMA ReplacedIsEnd ==
    ASSUME NEW text \in Text
    PROVE  /\ Replace1(text) \in Shown /\ Shape(Replace1(text)) /\ EndOf(text, Replace1(text))
           /\ Replace1(text).output = text /\ Replace1(text).count = Len(text)
           /\ Replace1(text).start = 0
<1>1. text \in Seq(Chunks) /\ <<>> \o text = text /\ SubSeq(text, 1, Len(text)) = text
      /\ Len(text) \in Nat
  BY ConcatEmptySeq, SubSeqFull, LenProperties DEF Text
<1>2. Replace1(text) = [output |-> text, start |-> 0, count |-> Len(text)]
  <2>1. Blank.output = <<>> /\ Blank.start = 0 /\ Blank.count = 0
    BY DEF Blank
  <2> QED  BY <1>1, <2>1 DEF Replace1, Append1
<1>3. Replace1(text) \in Shown /\ Shape(Replace1(text))
  BY <1>1, BlankIsShown, AppendedIsShown DEF Replace1
<1> QED  BY <1>1, <1>2, <1>3 DEF EndOf

LEMMA HydratedIsEnd ==
    ASSUME NEW k, stream[k] \in Text
    PROVE  Hydrated(k) \in Shown /\ Shape(Hydrated(k)) /\ EndOf(stream[k], Hydrated(k))
<1> DEFINE first == IF Len(stream[k]) > Window THEN Len(stream[k]) - Window ELSE 0
           rest == SubSeq(stream[k], first + 1, Len(stream[k]))
<1>1. stream[k] \in Text /\ Len(stream[k]) \in Nat /\ Window \in Nat \ {0}
  BY ToolOutputAssumption, LenProperties DEF Text
<1>2. first \in 0..Len(stream[k]) /\ (Len(stream[k]) > 0 => first < Len(stream[k]))
      /\ Len(stream[k]) \in first..Len(stream[k])
  BY <1>1
<1>3. Hydrated(k) = [output |-> rest, start |-> first, count |-> Len(stream[k])]
  BY DEF Hydrated
<1> HIDE DEF first
<1>4. rest \in Text /\ (rest = <<>> <=> first = Len(stream[k]))
  <2> DEFINE text == stream[k]
             last == Len(text)
  <2>1. text \in Text /\ first \in 0..Len(text) /\ last \in first..Len(text)
    BY <1>1, <1>2
  <2> HIDE DEF text, last
  <2>2. SubSeq(text, first + 1, last) \in Text
        /\ (SubSeq(text, first + 1, last) = <<>> <=> first = last)
    BY <2>1, PartOfText
  <2> QED  BY <2>2 DEF text, last, rest
<1>5. rest = <<>> <=> Len(stream[k]) = 0
  BY <1>1, <1>2, <1>4
<1> HIDE DEF rest
<1>6. EndOf(stream[k], Hydrated(k))
  <2>1. Hydrated(k).output = rest /\ Hydrated(k).start = first
        /\ Hydrated(k).count = Len(stream[k])
    BY <1>3
  <2> QED  BY <2>1 DEF EndOf, rest
<1> QED  BY <1>1, <1>2, <1>3, <1>4, <1>5, <1>6 DEF Shown, Shape

LEMMA PrependedIsEnd ==
    ASSUME NEW k, stream[k] \in Text, NEW shown \in Shown,
           NEW start \in Nat, NEW before \in 1..Len(stream[k])
    PROVE  /\ Prepended(k, shown, start, before) \in Shown
           /\ Prepended(k, shown, start, before).count = shown.count
           /\ Shape(shown) =>
                /\ Shape(Prepended(k, shown, start, before))
                /\ shown.output # <<>> <=> Prepended(k, shown, start, before).output # <<>>
                /\ EndOf(stream[k], shown) => EndOf(stream[k], Prepended(k, shown, start, before))
<1>1. CASE shown.start # before \/ start >= before
  BY <1>1 DEF Prepended
<1>2. CASE shown.start = before /\ start < before
  <2> DEFINE text == stream[k]
             earlier == SubSeq(text, start + 1, before)
             later == shown.output
  <2>1. text \in Text /\ Len(text) \in Nat /\ later \in Seq(Chunks) /\ before \in 1..Len(text)
    BY LenProperties DEF Text, Shown
  <2>2. Prepended(k, shown, start, before) =
          [output |-> earlier \o later, start |-> start, count |-> shown.count]
    BY <1>2 DEF Prepended
  <2>3. ASSUME EndOf(stream[k], shown)
        PROVE  later = SubSeq(text, before + 1, Len(text)) /\ shown.count = Len(text)
    BY <1>2, <2>3 DEF EndOf
  <2>4. Shape(shown) => later # <<>> /\ shown.count # 0
    BY <1>2, <2>1 DEF Shape
  <2> HIDE DEF text
  <2> start \in 0..Len(text) /\ before \in start..Len(text) /\ start # before
    BY <1>2, <2>1
  <2>5. earlier \in Seq(Chunks) /\ earlier # <<>>
    BY <2>1, PartOfText DEF Text
  <2>6. ASSUME EndOf(stream[k], shown)
        PROVE  earlier \o later = SubSeq(text, start + 1, Len(text))
    <3>1. SubSeq(text, start + 1, before) \o SubSeq(text, before + 1, Len(text))
            = SubSeq(text, start + 1, Len(text))
      BY <2>1, PartsOfText
    <3> QED  BY <2>3, <2>6, <3>1
  <2> HIDE DEF earlier, later
  <2>7. earlier \o later \in Seq(Chunks) /\ earlier \o later # <<>>
    BY <2>1, <2>5, ConcatProperties, ConcatEqualIffEmpty
  <2>8. /\ Prepended(k, shown, start, before) \in Shown
        /\ Prepended(k, shown, start, before).count = shown.count
        /\ Shape(shown) => Shape(Prepended(k, shown, start, before))
        /\ Prepended(k, shown, start, before).output # <<>>
    BY <2>2, <2>4, <2>7 DEF Shown, Text, Shape
  <2>9. ASSUME EndOf(stream[k], shown)
        PROVE  EndOf(stream[k], Prepended(k, shown, start, before))
    <3> DEFINE after == Prepended(k, shown, start, before)
    <3>1. shown.count = Len(text) /\ earlier \o later = SubSeq(text, start + 1, Len(text))
      BY <2>3, <2>6, <2>9
    <3>2. after.count = shown.count /\ after.output = earlier \o later /\ after.start = start
      BY <2>2
    <3> HIDE DEF after
    <3>3. EndOf(text, after)
      BY <3>1, <3>2 DEF EndOf
    <3> QED  BY <3>3 DEF after, text
  <2> QED  BY <2>4, <2>8, <2>9 DEF later
<1> QED  BY <1>1, <1>2 DEF Shown

-----------------------------------------------------------------------------
(* What a completion shows and what it stores.                             *)

After(stored, u) == (IF u.replace THEN <<>> ELSE stored) \o u.text

LEMMA UpdateFields ==
    /\ \A text : Update(TRUE, text).replace /\ Update(TRUE, text).text = text
    /\ \A text : ~Update(FALSE, text).replace /\ Update(FALSE, text).text = text
    /\ ~Nothing.replace /\ Nothing.text = <<>>
    /\ \A k, u : Stored(k, u) = After(stream[k], u)
  BY DEF Update, Nothing, Stored, After

LEMMA NothingAdded ==
    ASSUME NEW stored \in Text
    PROVE  After(stored, Nothing) = stored
<1>1. After(stored, Nothing) = stored \o <<>>
  BY UpdateFields DEF After
<1> QED  BY <1>1, ConcatEmptySeq DEF Text

LEMMA Told ==
    ASSUME NEW e \in Completion
    PROVE  e.result \in Text /\ e.preview \in Text /\ e.exited \in Shells \cup {None}
<1>1. <<>> \in Seq(Chunks)
  BY EmptySeq
<1> QED  BY <1>1, ToolOutputAssumption DEF Completion, Text

LEMMA NotNone ==
    /\ \A call \in Invocation : call # None
    /\ \A t \in Terminal : t # None
    /\ \A d \in Delivery : d # None
    /\ \A s \in Shells : s # None
  BY NoneAssumption, ToolOutputAssumption

LEMMA SuffixIsText ==
    ASSUME NEW call \in Invocation, NEW e \in Completion
    PROVE  /\ Suffix(call, e) \in Text
           /\ Suffix(call, e) # <<>> => Replaces(call, e)
           /\ Replaces(call, e) => e.result # <<>>
           /\ Replaces(call, e) /\ call.text.output = <<>> => Suffix(call, e) = e.result
<1> DEFINE shown == call.text.output
<1>1. e.result \in Text /\ shown \in Text /\ <<>> \in Text
  BY Told, EmptySeq DEF Invocation, Shown, Text
<1>2. Len(e.result) \in Nat /\ Len(shown) \in Nat
  BY <1>1, LenProperties DEF Text
<1>3. CASE Replaces(call, e) /\ IsPrefix(shown, e.result)
  <2>1. Suffix(call, e) = SubSeq(e.result, Len(shown) + 1, Len(e.result))
    BY <1>3 DEF Suffix
  <2>2. Len(shown) \in 0..Len(e.result) /\ Len(e.result) \in Len(shown)..Len(e.result)
    BY <1>2, <1>3 DEF IsPrefix
  <2>3. Suffix(call, e) \in Text
    BY <1>1, <2>1, <2>2, PartOfText
  <2>4. shown = <<>> => Suffix(call, e) = e.result
    <3>1. SUFFICES ASSUME shown = <<>> PROVE Suffix(call, e) = e.result
      OBVIOUS
    <3>2. Len(shown) = 0
      BY <3>1
    <3> HIDE DEF shown
    <3>3. Suffix(call, e) = SubSeq(e.result, 1, Len(e.result))
      BY <2>1, <3>2
    <3> QED  BY <1>1, <3>3, SubSeqFull DEF Text
  <2> QED  BY <1>3, <2>3, <2>4 DEF Replaces
<1>4. CASE Replaces(call, e) /\ ~IsPrefix(shown, e.result)
  <2>1. shown # <<>>
    <3>1. SUFFICES ASSUME shown = <<>> PROVE FALSE
      OBVIOUS
    <3>2. Len(shown) = 0
      BY <3>1
    <3> HIDE DEF shown
    <3>3. SubSeq(shown, 1, Len(shown)) = <<>> /\ SubSeq(e.result, 1, Len(shown)) = <<>>
      BY <3>2, SubSeqEmpty
    <3> QED  BY <1>2, <1>4, <3>2, <3>3 DEF IsPrefix
  <2> QED  BY <1>1, <1>4, <2>1 DEF Suffix, Replaces
<1>5. CASE ~Replaces(call, e)
  BY <1>1, <1>5 DEF Suffix
<1> QED  BY <1>3, <1>4, <1>5

\* A call that ends leaves texts, and what is stored for it depends on how much was.
LEMMA CallTyped ==
    ASSUME NEW call \in Invocation, NEW e \in Completion, NEW stored \in Text
    PROVE  /\ CallUpdate(call, e).text \in Text
           /\ After(stored, CallUpdate(call, e)) \in Text
           /\ stored # <<>> => After(stored, CallUpdate(call, e)) # <<>>
           /\ CallShown(call, e) \in Shown
           /\ call.text.count = Len(stored) =>
                After(stored, CallUpdate(call, e)) =
                  IF Replaces(call, e) \/ stored = <<>> THEN e.result ELSE stored
<1> DEFINE u == CallUpdate(call, e)
<1>1. e.result \in Text /\ call.text \in Shown /\ <<>> \in Text /\ call # None
  BY Told, EmptySeq, NotNone DEF Invocation, Text
<1>2. /\ \A x \in Text : <<>> \o x = x
      /\ \A x, y \in Text : x \o y \in Text /\ (x \o y = <<>> <=> x = <<>> /\ y = <<>>)
  BY ConcatEmptySeq, ConcatProperties, ConcatEqualIffEmpty DEF Text
<1>3. Len(stored) = 0 <=> stored = <<>>
  BY EmptySeq DEF Text
<1>4. CallShown(call, e) \in Shown
  BY <1>1, AppendedIsShown, ReplacedIsEnd DEF CallShown
<1>5. CASE Replaces(call, e)
  <2>1. u = Update(TRUE, e.result)
    BY <1>1, <1>5 DEF CallUpdate
  <2>2. u.text = e.result /\ After(stored, u) = e.result /\ e.result # <<>>
    BY <1>1, <1>2, <1>5, <2>1, UpdateFields, SuffixIsText DEF After
  <2> QED  BY <1>1, <1>4, <1>5, <2>2
<1>6. CASE ~Replaces(call, e) /\ call.text.count = 0
  <2>1. u = Update(FALSE, e.result)
    BY <1>1, <1>6 DEF CallUpdate
  <2>2. u.text = e.result /\ After(stored, u) = stored \o e.result
    BY <2>1, UpdateFields DEF After
  <2>3. stored \o e.result \in Text /\ (stored # <<>> => stored \o e.result # <<>>)
        /\ (stored = <<>> => stored \o e.result = e.result)
    BY <1>1, <1>2
  <2> HIDE DEF u
  <2>4. /\ u.text \in Text /\ After(stored, u) \in Text
        /\ stored # <<>> => After(stored, u) # <<>>
        /\ call.text.count = Len(stored) =>
             After(stored, u) = IF Replaces(call, e) \/ stored = <<>> THEN e.result ELSE stored
    BY <1>1, <1>3, <1>6, <2>2, <2>3
  <2> QED  BY <1>4, <2>4 DEF u
<1>7. CASE ~Replaces(call, e) /\ call.text.count # 0
  <2>1. u = Nothing
    BY <1>1, <1>7 DEF CallUpdate
  <2>2. u.text = <<>> /\ After(stored, u) = stored
    BY <2>1, UpdateFields, NothingAdded
  <2> QED  BY <1>1, <1>3, <1>4, <1>7, <2>2
<1> QED  BY <1>5, <1>6, <1>7

\* What is shown of a call that ends is what is stored for it then.
LEMMA CallAgrees ==
    ASSUME NEW call \in Invocation, NEW e \in Completion, NEW stored \in Text,
           Shape(call.text), call.text.output # <<>> => stored # <<>>
    PROVE  /\ CallUpdate(call, e).text \in Text
           /\ After(stored, CallUpdate(call, e)) \in Text
           /\ stored # <<>> => After(stored, CallUpdate(call, e)) # <<>>
           /\ CallShown(call, e) \in Shown
           /\ Shape(CallShown(call, e))
           /\ CallShown(call, e).output # <<>> => After(stored, CallUpdate(call, e)) # <<>>
           /\ EndOf(stored, call.text) =>
                EndOf(After(stored, CallUpdate(call, e)), CallShown(call, e))
           /\ EndOf(stored, call.text) =>
                After(stored, CallUpdate(call, e)) =
                  IF Replaces(call, e) \/ stored = <<>> THEN e.result ELSE stored
           /\ CallUpdate(call, e).text # <<>> => CallShown(call, e).output = CallUpdate(call, e).text
           /\ CallUpdate(call, e).text = <<>> => CallShown(call, e).output = call.text.output
<1> DEFINE u == CallUpdate(call, e)
           out == call.text.output
<1>1. /\ e.result \in Text /\ call.text \in Shown /\ out \in Text /\ <<>> \in Text
      /\ call # None
  BY Told, EmptySeq, NotNone DEF Invocation, Shown, Text
<1>2. \A x \in Text : <<>> \o x = x /\ x \o <<>> = x
  BY ConcatEmptySeq DEF Text
<1>3. \A x, y \in Text : x \o y \in Text /\ (x \o y = <<>> <=> x = <<>> /\ y = <<>>)
  BY ConcatProperties, ConcatEqualIffEmpty DEF Text
<1>4. EndOf(stored, call.text) => (out = <<>> <=> stored = <<>>)
  BY <1>1, EndIsWithin
<1>5. CASE Replaces(call, e)
  <2>1. u = Update(TRUE, e.result) /\ CallShown(call, e) = Replace1(e.result)
    BY <1>1, <1>5 DEF CallUpdate, CallShown
  <2>2. u.replace /\ u.text = e.result /\ After(stored, u) = e.result /\ e.result # <<>>
    BY <1>1, <1>2, <1>5, <2>1, UpdateFields, SuffixIsText DEF After
  <2> QED  BY <1>1, <1>5, <2>1, <2>2, ReplacedIsEnd
<1>6. CASE ~Replaces(call, e) /\ call.text.count = 0
  <2>1. u = Update(FALSE, e.result) /\ CallShown(call, e) = Append1(call.text, e.result)
        /\ out = <<>>
    BY <1>1, <1>6 DEF CallUpdate, CallShown, Shape
  <2>2. ~u.replace /\ u.text = e.result /\ After(stored, u) = stored \o e.result
    BY <2>1, UpdateFields DEF After
  <2>3. CallShown(call, e).output = e.result
    <3>1. CallShown(call, e).output = out \o e.result
      BY <2>1 DEF Append1
    <3> QED  BY <1>1, <1>2, <2>1, <3>1
  <2>4. After(stored, u) \in Text /\ (After(stored, u) = <<>> <=> stored = <<>> /\ e.result = <<>>)
    BY <1>1, <1>3, <2>2
  <2>5. EndOf(stored, call.text) => EndOf(After(stored, u), CallShown(call, e))
    BY <1>1, <2>1, <2>2, AppendedIsEnd
  <2>6. CallShown(call, e) \in Shown /\ Shape(CallShown(call, e))
    BY <1>1, <2>1, AppendedIsShown
  <2>7. EndOf(stored, call.text) => After(stored, u) = e.result /\ stored = <<>>
    BY <1>1, <1>2, <1>4, <2>1, <2>2
  <2> HIDE DEF u
  <2>8. /\ u.text \in Text /\ (u.text # <<>> => CallShown(call, e).output = u.text)
        /\ u.text = <<>> => CallShown(call, e).output = call.text.output
    BY <1>1, <2>1, <2>2, <2>3
  <2> QED  BY <1>6, <2>2, <2>3, <2>4, <2>5, <2>6, <2>7, <2>8 DEF u
<1>7. CASE ~Replaces(call, e) /\ call.text.count # 0
  <2>1. u = Nothing /\ CallShown(call, e) = call.text /\ out # <<>>
    BY <1>1, <1>7 DEF CallUpdate, CallShown, Shape
  <2>2. ~u.replace /\ u.text = <<>> /\ After(stored, u) = stored
    BY <2>1, UpdateFields, NothingAdded
  <2> QED  BY <1>1, <1>4, <1>7, <2>1, <2>2
<1> QED  BY <1>5, <1>6, <1>7

LEMMA EmptyIsSuffix == \A text \in Text : IsSuffix(<<>>, text)
<1> TAKE text \in Text
<1> DEFINE r == Reverse(text)
           z == Reverse(<<>>)
<1>1. Len(text) \in Nat /\ text \in Seq(Chunks)
  BY LenProperties DEF Text
<1>2. Len(r) = Len(text) /\ Len(z) = 0
  BY <1>1 DEF Reverse
<1> HIDE DEF r, z
<1>3. SubSeq(z, 1, Len(z)) = <<>> /\ SubSeq(r, 1, Len(z)) = <<>>
  BY <1>2, SubSeqEmpty
<1>4. IsPrefix(z, r)
  BY <1>1, <1>2, <1>3 DEF IsPrefix
<1> QED  BY <1>4 DEF IsSuffix, r, z

LEMMA OneOrMore ==
    ASSUME NEW calls \in Seq(Calls), NEW c \in Calls, Contains(calls, c)
    PROVE  calls = <<c>> \/ Len(calls) > 1
<1>1. PICK i \in 1..Len(calls) : calls[i] = c
  BY DEF Contains
<1>2. Len(calls) \in Nat /\ Len(calls) >= 1
  BY <1>1, LenProperties
<1>3. CASE Len(calls) = 1
  <2>1. <<c>> \in Seq(Calls) /\ Len(<<c>>) = 1 /\ <<c>>[1] = c
    OBVIOUS
  <2>2. \A j \in 1..Len(calls) : calls[j] = <<c>>[j]
    BY <1>1, <1>3, <2>1
  <2> QED  BY <1>3, <2>1, <2>2, SeqEqual
<1>4. \A n \in Nat : n >= 1 => n = 1 \/ n > 1
  OBVIOUS
<1> QED  BY <1>2, <1>3, <1>4

\* What a shell gets if it has nothing yet.
First(call, e) ==
    IF CallUpdate(call, e).text # <<>> THEN CallUpdate(call, e).text
    ELSE IF call # None /\ call.text.output # <<>> THEN call.text.output
    ELSE e.preview

LEMMA FirstIsText ==
    ASSUME NEW call \in Invocation, NEW e \in Completion
    PROVE  First(call, e) \in Text
<1>1. call.text.output \in Text /\ e.preview \in Text /\ <<>> \in Text
  BY Told, EmptySeq DEF Invocation, Shown, Text
<1>2. CallUpdate(call, e).text \in Text
  BY <1>1, CallTyped
<1> QED  BY <1>1, <1>2 DEF First

LEMMA FirstIsShown ==
    ASSUME NEW call \in Invocation, NEW e \in Completion, Shape(call.text)
    PROVE  /\ First(call, e) \in Text
           /\ First(call, e) = IF CallShown(call, e).output # <<>> THEN CallShown(call, e).output
                               ELSE e.preview
<1>1. call.text.output \in Text /\ e.preview \in Text /\ call # None
  BY Told, NotNone DEF Invocation, Shown
<1>2. /\ CallUpdate(call, e).text \in Text
      /\ CallUpdate(call, e).text # <<>> => CallShown(call, e).output = CallUpdate(call, e).text
      /\ CallUpdate(call, e).text = <<>> => CallShown(call, e).output = call.text.output
  BY <1>1, CallAgrees
<1> QED  BY <1>1, <1>2 DEF First

\* What is stored for a shell when a call that is shown ends in it.
LEMMA ShellUpdateIs ==
    ASSUME NEW c \in Calls, NEW call \in Invocation, NEW e \in Completion
    PROVE  /\ ShellUpdate(c, call, None, e) = Update(FALSE, First(call, e))
           /\ \A t \in Terminal :
                ShellUpdate(c, call, t, e) =
                  IF Replaces(call, e) /\ t.calls = <<c>> /\ t.text.output # e.result
                  THEN Update(TRUE, e.result)
                  ELSE IF Len(t.calls) > 1 /\ Suffix(call, e) # <<>>
                            /\ IsSuffix(call.text.output, t.text.output)
                  THEN Update(FALSE, Suffix(call, e))
                  ELSE IF t.text.count = 0 THEN Update(FALSE, First(call, e)) ELSE Nothing
<1>1. ShellUpdate(c, call, None, e) = Update(FALSE, First(call, e))
  BY DEF ShellUpdate, First
<1>2. ASSUME NEW t \in Terminal
      PROVE  ShellUpdate(c, call, t, e) =
                  IF Replaces(call, e) /\ t.calls = <<c>> /\ t.text.output # e.result
                  THEN Update(TRUE, e.result)
                  ELSE IF Len(t.calls) > 1 /\ Suffix(call, e) # <<>>
                            /\ IsSuffix(call.text.output, t.text.output)
                  THEN Update(FALSE, Suffix(call, e))
                  ELSE IF t.text.count = 0 THEN Update(FALSE, First(call, e)) ELSE Nothing
  <2>1. call # None /\ t # None
    BY NotNone
  <2> QED  BY <2>1 DEF ShellUpdate, First
<1> QED  BY <1>1, <1>2

\* An update leaves a text, and does not empty what was stored.
LEMMA ShellUpdateIsText ==
    ASSUME NEW c \in Calls, NEW call \in Invocation, NEW e \in Completion,
           NEW t \in Terminal \cup {None}, NEW stored \in Text
    PROVE  /\ After(stored, ShellUpdate(c, call, t, e)) \in Text
           /\ stored # <<>> => After(stored, ShellUpdate(c, call, t, e)) # <<>>
<1> DEFINE u == ShellUpdate(c, call, t, e)
<1>1. First(call, e) \in Text /\ Suffix(call, e) \in Text /\ e.result \in Text /\ <<>> \in Text
      /\ (Replaces(call, e) => e.result # <<>>)
  BY FirstIsText, SuffixIsText, Told, EmptySeq DEF Text
<1>2. \/ u = Update(TRUE, e.result) /\ Replaces(call, e)
      \/ u = Update(FALSE, Suffix(call, e)) \/ u = Update(FALSE, First(call, e))
      \/ u = Nothing
  BY ShellUpdateIs
<1> HIDE DEF u
<1>3. CASE u = Update(TRUE, e.result) /\ Replaces(call, e)
  <2>1. After(stored, u) = <<>> \o e.result
    BY <1>3, UpdateFields DEF After
  <2> QED  BY <1>1, <1>3, <2>1, ConcatEmptySeq DEF Text, u
<1>4. ASSUME NEW text \in Text, u = Update(FALSE, text)
      PROVE  After(stored, u) \in Text /\ (stored # <<>> => After(stored, u) # <<>>)
  <2>1. After(stored, u) = stored \o text
    BY <1>4, UpdateFields DEF After
  <2> QED  BY <2>1, ConcatProperties, ConcatEqualIffEmpty DEF Text
<1>5. CASE u = Nothing
  BY <1>5, NothingAdded DEF u
<1> QED  BY <1>1, <1>2, <1>3, <1>4, <1>5 DEF u

LEMMA ShellShownIsShown ==
    ASSUME NEW c \in Calls, NEW call \in Invocation, NEW e \in Completion,
           NEW t, t.text \in Shown
    PROVE  /\ ShellShown(c, call, t, e) \in Shown
           /\ Shape(t.text) => Shape(ShellShown(c, call, t, e))
<1> DEFINE text == IF CallShown(call, e).output # <<>> THEN CallShown(call, e).output
                   ELSE e.preview
<1>1. Suffix(call, e) \in Text /\ e.result \in Text /\ e.preview \in Text /\ <<>> \in Text
  BY SuffixIsText, Told, EmptySeq DEF Text
<1>2. CallShown(call, e) \in Shown
  BY <1>1, CallTyped
<1>3. text \in Text
  BY <1>1, <1>2 DEF Shown
<1>4. \/ ShellShown(c, call, t, e) = Replace1(e.result)
      \/ ShellShown(c, call, t, e) = Append1(t.text, Suffix(call, e))
      \/ ShellShown(c, call, t, e) = Append1(t.text, text)
      \/ ShellShown(c, call, t, e) = t.text
  BY DEF ShellShown
<1> HIDE DEF text
<1> QED  BY <1>1, <1>3, <1>4, ReplacedIsEnd, AppendedIsShown

\* What is shown of a shell of the call's is what is stored for it then.
LEMMA ShellAgrees ==
    ASSUME NEW c \in Calls, NEW call \in Invocation, NEW e \in Completion, NEW t \in Terminal,
           NEW stored \in Text, Shape(call.text), Shape(t.text), EndOf(stored, t.text),
           Contains(t.calls, c), ~Doubled(c, call, t, e),
           call.text.output # <<>> => stored # <<>>
    PROVE  EndOf(After(stored, ShellUpdate(c, call, t, e)), ShellShown(c, call, t, e))
<1> DEFINE u == ShellUpdate(c, call, t, e)
           shown == ShellShown(c, call, t, e)
           replaced == Replaces(call, e) /\ t.calls = <<c>> /\ t.text.output # e.result
           extended == Suffix(call, e) # <<>> /\ IsSuffix(call.text.output, t.text.output)
<1>1. /\ t.text \in Shown /\ t.calls \in Seq(Calls) /\ call # None /\ t # None
      /\ e.result \in Text /\ Suffix(call, e) \in Text /\ First(call, e) \in Text
      /\ call.text.output \in Text
  BY Told, NotNone, SuffixIsText, FirstIsShown DEF Terminal, Invocation, Shown
<1>2. t.calls = <<c>> \/ Len(t.calls) > 1
  BY <1>1, OneOrMore
<1>3. /\ t.text.output = <<>> <=> stored = <<>>
      /\ t.text.count = 0 <=> stored = <<>>
  BY <1>1, EndIsWithin
<1>4. \A text \in Text : EndOf(stored \o text, Append1(t.text, text))
  BY <1>1, AppendedIsEnd
<1>5. CASE replaced
  <2>1. u = Update(TRUE, e.result) /\ shown = Replace1(e.result)
    BY <1>5, ShellUpdateIs DEF ShellShown
  <2> HIDE DEF u, shown
  <2>2. After(stored, u) = <<>> \o e.result
    BY <2>1, UpdateFields DEF After
  <2>3. After(stored, u) = e.result
    BY <1>1, <2>2, ConcatEmptySeq DEF Text
  <2> QED  BY <1>1, <2>1, <2>3, ReplacedIsEnd DEF u, shown
<1>6. CASE ~replaced /\ extended
  <2>1. Replaces(call, e)
    BY <1>6, SuffixIsText
  <2>2. t.calls # <<c>>
    BY <1>1, <1>6, <2>1 DEF Doubled
  <2>3. Len(t.calls) > 1
    BY <1>2, <2>2
  <2>4. u = Update(FALSE, Suffix(call, e)) /\ shown = Append1(t.text, Suffix(call, e))
    BY <1>6, <2>2, <2>3, ShellUpdateIs DEF ShellShown
  <2> HIDE DEF u, shown
  <2>5. After(stored, u) = stored \o Suffix(call, e)
    BY <2>4, UpdateFields DEF After
  <2> QED  BY <1>1, <1>4, <2>4, <2>5 DEF u, shown
<1>7. CASE ~replaced /\ ~extended /\ t.text.output # <<>>
  <2>1. u = Nothing /\ shown = t.text
    BY <1>3, <1>7, ShellUpdateIs DEF ShellShown
  <2> QED  BY <2>1, NothingAdded
<1>8. CASE ~replaced /\ ~extended /\ t.text.output = <<>>
  <2>1. ~(Replaces(call, e) /\ Len(t.calls) > 1)
    <3>1. SUFFICES ASSUME Replaces(call, e) PROVE FALSE
      OBVIOUS
    <3>2. call.text.output = <<>>
      BY <1>3, <1>8
    <3>3. Suffix(call, e) # <<>>
      BY <3>1, <3>2, SuffixIsText
    <3>4. IsSuffix(call.text.output, t.text.output)
      BY <1>1, <1>8, <3>2, EmptyIsSuffix
    <3> QED  BY <1>8, <3>3, <3>4
  <2>2. u = Update(FALSE, First(call, e)) /\ shown = Append1(t.text, First(call, e))
    <3>1. u = Update(FALSE, First(call, e))
      BY <1>3, <1>8, ShellUpdateIs
    <3>2. shown = Append1(t.text, First(call, e))
      BY <1>8, <2>1, FirstIsShown DEF ShellShown
    <3> QED  BY <3>1, <3>2
  <2> HIDE DEF u, shown
  <2>3. After(stored, u) = stored \o First(call, e)
    BY <2>2, UpdateFields DEF After
  <2> QED  BY <1>1, <1>4, <2>2, <2>3 DEF u, shown
<1> QED  BY <1>5, <1>6, <1>7, <1>8

\* The same of a shell that the call is the first to show.
LEMMA ShellBegins ==
    ASSUME NEW c \in Calls, NEW call \in Invocation, NEW e \in Completion, NEW t,
           Shape(call.text), t.text = Blank, t.calls = <<c>>
    PROVE  EndOf(After(<<>>, ShellUpdate(c, call, None, e)), ShellShown(c, call, t, e))
<1> DEFINE u == ShellUpdate(c, call, None, e)
           shown == ShellShown(c, call, t, e)
<1>1. /\ e.result \in Text /\ First(call, e) \in Text /\ <<>> \in Text
      /\ call.text.output \in Text /\ e.preview \in Text
      /\ Replaces(call, e) => e.result # <<>>
      /\ Suffix(call, e) # <<>> => Replaces(call, e)
      /\ t.text.output = <<>> /\ Len(t.calls) = 1
  BY Told, EmptySeq, SuffixIsText, FirstIsShown DEF Invocation, Shown, Text, Blank
<1>2. After(<<>>, u) = First(call, e)
  <2>1. u = Update(FALSE, First(call, e))
    BY ShellUpdateIs
  <2>2. After(<<>>, u) = <<>> \o First(call, e)
    BY <1>1, <2>1, UpdateFields, ConcatEmptySeq DEF After, Text
  <2> QED  BY <1>1, <2>2, ConcatEmptySeq DEF Text
<1>3. CASE Replaces(call, e)
  <2>1. shown = Replace1(e.result)
    BY <1>1, <1>3 DEF ShellShown
  <2>2. First(call, e) = e.result
    BY <1>1, <1>3, FirstIsShown, ReplacedIsEnd DEF CallShown
  <2> QED  BY <1>1, <1>2, <2>1, <2>2, ReplacedIsEnd
<1>4. CASE ~Replaces(call, e)
  <2>1. shown = Replace1(First(call, e))
    BY <1>1, <1>4, FirstIsShown DEF ShellShown, Replace1
  <2> QED  BY <1>1, <1>2, <2>1, ReplacedIsEnd
<1> QED  BY <1>3, <1>4

-----------------------------------------------------------------------------
(* The steps.                                                              *)

LEMMA RecordTypes ==
    /\ \A call \in Invocation :
          /\ call.state \in {"running", "ended", "cancelled"} /\ call.text \in Shown
          /\ call.dropped \in BOOLEAN /\ call.last \in Delivery \cup {None}
          /\ call.shell \in Shells \cup {None} /\ call.text.output \in Text
          /\ call.text.count \in Nat /\ call.text.start \in Nat
    /\ \A t \in Terminal :
          /\ t.state \in {"running", "exited", "cancelled"} /\ t.text \in Shown
          /\ t.calls \in Seq(Calls)
    /\ \A x \in Sent :
          /\ x.text \in Text /\ x.dropped \in BOOLEAN /\ x.last \in Delivery \cup {None}
          /\ x.result \in Text
    /\ <<>> \in Text
  BY EmptySeq DEF Invocation, Terminal, Sent, Shown, Text

LEMMA InvHolds == Init => ToolInv
<1> SUFFICES ASSUME Init PROVE ToolInv
  OBVIOUS
<1>1. <<>> \in Text /\ Len(<<>>) = 0 /\ None \in {None}
  BY RecordTypes
<1>2. \A c \in Calls : sent[c] \in Sent /\ sent[c].text = <<>> /\ sent[c].result = <<>>
                       /\ sent[c].last = None /\ sent[c].dropped = FALSE
  BY <1>1 DEF Init, Sent
<1>3. sent \in [Calls -> Sent]
  BY <1>2 DEF Init
<1>4. (\A c \in Calls : invocation[c] = None) /\ (\A s \in Shells : terminal[s] = None)
      /\ (\A k \in Calls \cup Shells : stream[k] = <<>>)
      /\ over = {} /\ odd = {} /\ unread = {} /\ partials = 0
  BY DEF Init
<1>5. TypeOK
  BY <1>1, <1>3, <1>4 DEF Init, TypeOK
<1>6. CallShape /\ ShellShape /\ Counted /\ CallFresh /\ ShellFresh /\ Linked /\ Fed /\ Known
  BY <1>2, <1>4 DEF CallShape, ShellShape, Counted, CallFresh, ShellFresh, Linked, Fed, Known
<1>7. ShownIsStored /\ SentIsStored
  BY <1>2, <1>4 DEF ShownIsStored, SentIsStored
<1> QED  BY <1>4, <1>5, <1>6, <1>7 DEF ToolInv

\* A call is as it was but for its text and its state.
SameCall(x, y) ==
    /\ x = None <=> y = None
    /\ y # None => x.shell = y.shell /\ x.last = y.last /\ x.dropped = y.dropped

SameShell(x, y) == (x = None <=> y = None) /\ (y # None => x.calls = y.calls)

\* What a step keeps that changes no more than windows and states.
LEMMA WindowsMoved ==
    ASSUME ToolInv,
           UNCHANGED <<stream, sent, over, odd, partials>>,
           \A c \in Calls : SameCall(invocation'[c], invocation[c]),
           \A s \in Shells : SameShell(terminal'[s], terminal[s])
    PROVE  CallFresh' /\ ShellFresh' /\ Linked' /\ Fed' /\ Known' /\ (partials \in Nat)'
           /\ SentIsStored'
<1> USE DEF ToolInv, SameCall, SameShell
<1>1. CallFresh' /\ ShellFresh'
  BY DEF CallFresh, ShellFresh
<1>2. Linked'
  BY DEF Linked
<1>3. Fed'
  BY DEF Fed
<1>4. Known' /\ (partials \in Nat)'
  BY DEF Known
<1>5. SentIsStored'
  BY DEF SentIsStored
<1> QED  BY <1>1, <1>2, <1>3, <1>4, <1>5

LEMMA CancelledIsSame ==
    /\ \A call \in Invocation \cup {None} :
          /\ SameCall(CancelledCall(call), call)
          /\ CancelledCall(call) \in Invocation \cup {None}
          /\ call # None => CancelledCall(call) \in Invocation
          /\ call # None => CancelledCall(call).text = call.text
    /\ \A t \in Terminal \cup {None} :
          /\ SameShell(CancelledShell(t), t)
          /\ CancelledShell(t) \in Terminal \cup {None}
          /\ t # None => CancelledShell(t) \in Terminal
          /\ t # None => CancelledShell(t).text = t.text
<1>1. ASSUME NEW call \in Invocation
      PROVE  /\ SameCall(CancelledCall(call), call)
             /\ CancelledCall(call) \in Invocation
             /\ CancelledCall(call).text = call.text
  <2>1. CASE call.state = "running"
    <3>1. CancelledCall(call) = [call EXCEPT !.state = "cancelled"]
      BY <2>1, NotNone DEF CancelledCall
    <3>2. [call EXCEPT !.state = "cancelled"] \in Invocation
      BY DEF Invocation
    <3> QED  BY <3>1, <3>2, NotNone DEF Invocation, SameCall
  <2>2. CASE call.state # "running"
    BY <2>2 DEF CancelledCall, SameCall
  <2> QED  BY <2>1, <2>2
<1>2. ASSUME NEW t \in Terminal
      PROVE  /\ SameShell(CancelledShell(t), t)
             /\ CancelledShell(t) \in Terminal
             /\ CancelledShell(t).text = t.text
  <2>1. CASE t.state = "running"
    <3>1. CancelledShell(t) = [t EXCEPT !.state = "cancelled"]
      BY <2>1, NotNone DEF CancelledShell
    <3>2. [t EXCEPT !.state = "cancelled"] \in Terminal
      BY DEF Terminal
    <3> QED  BY <3>1, <3>2, NotNone DEF Terminal, SameShell
  <2>2. CASE t.state # "running"
    BY <2>2 DEF CancelledShell, SameShell
  <2> QED  BY <2>1, <2>2
<1>3. CancelledCall(None) = None /\ CancelledShell(None) = None
  BY DEF CancelledCall, CancelledShell
<1>4. SameCall(None, None) /\ SameShell(None, None)
  BY DEF SameCall, SameShell
<1> QED  BY <1>1, <1>2, <1>3, <1>4

LEMMA AbortKeeps ==
    ASSUME ToolInv, Abort
    PROVE  ToolInv'
<1> USE DEF ToolInv
<1>1. /\ \A c \in Calls : /\ invocation[c] \in Invocation \cup {None}
                          /\ invocation'[c] = CancelledCall(invocation[c])
      /\ \A s \in Shells : /\ terminal[s] \in Terminal \cup {None}
                           /\ terminal'[s] = CancelledShell(terminal[s])
  BY DEF Abort, TypeOK
<1>2. UNCHANGED <<stream, sent, over, odd, unread, partials>>
  BY DEF Abort
<1>3. /\ \A c \in Calls : /\ SameCall(invocation'[c], invocation[c])
                          /\ invocation'[c] \in Invocation \cup {None}
                          /\ invocation[c] # None => invocation'[c].text = invocation[c].text
      /\ \A s \in Shells : /\ SameShell(terminal'[s], terminal[s])
                           /\ terminal'[s] \in Terminal \cup {None}
                           /\ terminal[s] # None => terminal'[s].text = terminal[s].text
  BY <1>1, CancelledIsSame
<1>4. TypeOK'
  <2>1. invocation' \in [Calls -> Invocation \cup {None}]
    <3>1. invocation' = [c \in Calls |-> CancelledCall(invocation[c])]
      BY DEF Abort
    <3> QED  BY <1>1, <3>1, CancelledIsSame
  <2>2. terminal' \in [Shells -> Terminal \cup {None}]
    <3>1. terminal' = [s \in Shells |-> CancelledShell(terminal[s])]
      BY DEF Abort
    <3> QED  BY <1>1, <3>1, CancelledIsSame
  <2>3. \A s \in Shells : terminal'[s] # None => IsInjective(terminal'[s].calls)
    BY <1>3 DEF TypeOK, SameShell
  <2> QED  BY <1>2, <2>1, <2>2, <2>3 DEF TypeOK
<1>5. CallShape' /\ ShellShape' /\ Counted'
  BY <1>2, <1>3 DEF CallShape, ShellShape, Counted, SameCall, SameShell
<1>6. ShownIsStored'
  BY <1>2, <1>3 DEF ShownIsStored, Tail1, SameCall, SameShell
<1> QED  BY <1>2, <1>3, <1>4, <1>5, <1>6, WindowsMoved

LEMMA ClearedIsShown ==
    ASSUME NEW shown \in Shown
    PROVE  Cleared(shown) \in Shown /\ Cleared(shown).count = shown.count
<1>1. <<>> \in Text
  BY EmptySeq DEF Text
<1> QED  BY <1>1 DEF Cleared, Shown

\* A text that was read shows the end of what is stored.
LEMMA RecoveredIs ==
    ASSUME NEW k, stream[k] \in Text, NEW shown \in Shown, NEW failed
    PROVE  /\ Recovered(k, shown, failed) \in Shown
           /\ k \notin failed =>
                /\ Shape(Recovered(k, shown, failed))
                /\ EndOf(stream[k], Recovered(k, shown, failed))
                /\ Recovered(k, shown, failed).output # <<>> => stream[k] # <<>>
           /\ shown.count = Len(stream[k]) =>
                Recovered(k, shown, failed).count = Len(stream[k])
<1>1. Cleared(shown) \in Shown /\ Cleared(shown).count = shown.count
  BY ClearedIsShown
<1>2. Hydrated(k) \in Shown /\ Shape(Hydrated(k)) /\ EndOf(stream[k], Hydrated(k))
  BY HydratedIsEnd
<1>3. Hydrated(k).output # <<>> => stream[k] # <<>>
  BY <1>2, EndIsWithin
<1>4. Hydrated(k).count = Len(stream[k])
  BY <1>2 DEF EndOf
<1> QED  BY <1>1, <1>2, <1>3, <1>4 DEF Recovered

LEMMA RestartKeeps ==
    ASSUME ToolInv, NEW failed \in SUBSET (Calls \cup Shells), Restart(failed)
    PROVE  ToolInv'
<1> USE DEF ToolInv
<1>1. /\ \A c \in Calls : /\ invocation[c] \in Invocation \cup {None}
                          /\ invocation[c] = None => invocation'[c] = None
                          /\ invocation[c] # None => invocation'[c] =
                               [CancelledCall(invocation[c]) EXCEPT !.text = Recovered(c, @, failed)]
      /\ \A s \in Shells : /\ terminal[s] \in Terminal \cup {None}
                           /\ terminal[s] = None => terminal'[s] = None
                           /\ terminal[s] # None => terminal'[s] =
                               [CancelledShell(terminal[s]) EXCEPT !.text = Recovered(s, @, failed)]
  BY DEF Restart, TypeOK
<1>2. UNCHANGED <<stream, sent, over, odd, partials>> /\ unread' = failed
  BY DEF Restart
<1>3. ASSUME NEW k \in Calls \cup Shells, NEW shown \in Shown
      PROVE  /\ Recovered(k, shown, failed) \in Shown
             /\ k \notin failed =>
                  /\ Shape(Recovered(k, shown, failed))
                  /\ EndOf(stream[k], Recovered(k, shown, failed))
                  /\ Recovered(k, shown, failed).output # <<>> => stream[k] # <<>>
             /\ shown.count = Len(stream[k]) =>
                  Recovered(k, shown, failed).count = Len(stream[k])
  <2>1. stream[k] \in Text
    BY DEF TypeOK
  <2> QED  BY <2>1, RecoveredIs
<1>4. ASSUME NEW c \in Calls
      PROVE  /\ SameCall(invocation'[c], invocation[c])
             /\ invocation'[c] \in Invocation \cup {None}
             /\ invocation[c] # None =>
                  /\ invocation[c].text \in Shown
                  /\ invocation'[c].text = Recovered(c, invocation[c].text, failed)
  <2>1. CASE invocation[c] = None
    BY <1>1, <2>1 DEF SameCall
  <2>2. CASE invocation[c] # None
    <3> DEFINE call == CancelledCall(invocation[c])
               text == Recovered(c, call.text, failed)
    <3>1. call \in Invocation /\ SameCall(call, invocation[c]) /\ call.text = invocation[c].text
      BY <1>1, <2>2, CancelledIsSame
    <3>2. invocation'[c] = [call EXCEPT !.text = text]
      BY <1>1, <2>2
    <3> HIDE DEF call
    <3>3. call.text \in Shown
      BY <3>1, RecordTypes
    <3>4. text \in Shown
      BY <1>3, <3>3
    <3>5. text = Recovered(c, invocation[c].text, failed)
      BY <3>1
    <3> HIDE DEF text
    <3>6. [call EXCEPT !.text = text] \in Invocation /\ [call EXCEPT !.text = text].text = text
      BY <3>1, <3>4 DEF Invocation
    <3>7. SameCall([call EXCEPT !.text = text], invocation[c])
      BY <2>2, <3>1, <3>6, NotNone DEF SameCall, Invocation
    <3> QED  BY <3>1, <3>2, <3>3, <3>5, <3>6, <3>7
  <2> QED  BY <2>1, <2>2
<1>5. ASSUME NEW s \in Shells
      PROVE  /\ SameShell(terminal'[s], terminal[s])
             /\ terminal'[s] \in Terminal \cup {None}
             /\ terminal[s] # None =>
                  /\ terminal[s].text \in Shown
                  /\ terminal'[s].text = Recovered(s, terminal[s].text, failed)
  <2>1. CASE terminal[s] = None
    BY <1>1, <2>1 DEF SameShell
  <2>2. CASE terminal[s] # None
    <3> DEFINE t == CancelledShell(terminal[s])
               text == Recovered(s, t.text, failed)
    <3>1. t \in Terminal /\ SameShell(t, terminal[s]) /\ t.text = terminal[s].text
      BY <1>1, <2>2, CancelledIsSame
    <3>2. terminal'[s] = [t EXCEPT !.text = text]
      BY <1>1, <2>2
    <3> HIDE DEF t
    <3>3. t.text \in Shown
      BY <3>1, RecordTypes
    <3>4. text \in Shown
      BY <1>3, <3>3
    <3>5. text = Recovered(s, terminal[s].text, failed)
      BY <3>1
    <3> HIDE DEF text
    <3>6. [t EXCEPT !.text = text] \in Terminal /\ [t EXCEPT !.text = text].text = text
      BY <3>1, <3>4 DEF Terminal
    <3>7. SameShell([t EXCEPT !.text = text], terminal[s])
      BY <2>2, <3>1, <3>6, NotNone DEF SameShell, Terminal
    <3> QED  BY <3>1, <3>2, <3>3, <3>5, <3>6, <3>7
  <2> QED  BY <2>1, <2>2
<1>6. TypeOK'
  <2>1. invocation' \in [Calls -> Invocation \cup {None}]
    <3>1. invocation' = [c \in Calls |-> invocation'[c]]
      BY DEF Restart
    <3> QED  BY <1>4, <3>1
  <2>2. terminal' \in [Shells -> Terminal \cup {None}]
    <3>1. terminal' = [s \in Shells |-> terminal'[s]]
      BY DEF Restart
    <3> QED  BY <1>5, <3>1
  <2>3. \A s \in Shells : terminal'[s] # None => IsInjective(terminal'[s].calls)
    BY <1>5 DEF TypeOK, SameShell
  <2> QED  BY <1>2, <2>1, <2>2, <2>3 DEF TypeOK
<1>7. CallShape' /\ ShellShape'
  <2>1. \A c \in Calls \ unread' : invocation'[c] # None =>
           /\ Shape(invocation'[c].text)
           /\ invocation'[c].text.output # <<>> => stream'[c] # <<>>
    BY <1>2, <1>3, <1>4 DEF SameCall
  <2>2. \A s \in Shells \ unread' : terminal'[s] # None => Shape(terminal'[s].text)
    BY <1>2, <1>3, <1>5 DEF SameShell
  <2> QED  BY <2>1, <2>2 DEF CallShape, ShellShape, Shape
<1>8. Counted'
  BY <1>2, <1>3, <1>4 DEF Counted, SameCall
<1>9. ShownIsStored'
  <2>1. \A c \in Calls \ unread' : invocation'[c] # None => EndOf(stream'[c], invocation'[c].text)
    BY <1>2, <1>3, <1>4 DEF SameCall
  <2>2. \A s \in Shells \ unread' : terminal'[s] # None => EndOf(stream'[s], terminal'[s].text)
    BY <1>2, <1>3, <1>5 DEF SameShell
  <2> QED  BY <2>1, <2>2 DEF ShownIsStored, Tail1, EndOf
<1> QED  BY <1>2, <1>4, <1>5, <1>6, <1>7, <1>8, <1>9, WindowsMoved

LEMMA LoadKeeps ==
    ASSUME ToolInv, NEW k \in Calls \cup Shells, NEW before \in 1..Len(stream[k]),
           LoadOutput(k, before)
    PROVE  ToolInv'
<1> USE DEF ToolInv
<1> DEFINE from == IF before > Window THEN before - Window ELSE 0
<1>1. stream[k] \in Text /\ Len(stream[k]) \in Nat /\ Window \in Nat
  BY ToolOutputAssumption, LenProperties DEF TypeOK, Text
<1>2. from \in Nat
  BY <1>1
<1>3. \A shown \in Shown :
           /\ Prepended(k, shown, from, before) \in Shown
           /\ Prepended(k, shown, from, before).count = shown.count
           /\ Shape(shown) =>
                /\ Shape(Prepended(k, shown, from, before))
                /\ shown.output # <<>> <=> Prepended(k, shown, from, before).output # <<>>
                /\ EndOf(stream[k], shown) => EndOf(stream[k], Prepended(k, shown, from, before))
  BY <1>1, <1>2, PrependedIsEnd
<1>4. UNCHANGED <<stream, sent, over, odd, unread, partials>>
  BY DEF LoadOutput
<1>5. CASE /\ k \in Calls /\ invocation[k] # None /\ UNCHANGED terminal
           /\ invocation' = [invocation EXCEPT ![k].text = Prepended(k, @, from, before)]
  <2> DEFINE call == invocation[k]
             text == Prepended(k, call.text, from, before)
  <2>1. call \in Invocation
    BY <1>5 DEF TypeOK
  <2>2. /\ call.text \in Shown
        /\ k \notin unread => Shape(call.text) /\ (call.text.output # <<>> => stream[k] # <<>>)
    BY <1>5, <2>1, RecordTypes DEF CallShape
  <2>3. /\ text \in Shown /\ text.count = call.text.count
        /\ k \notin unread =>
             /\ Shape(text) /\ (text.output # <<>> => stream[k] # <<>>)
             /\ EndOf(stream[k], call.text) => EndOf(stream[k], text)
    BY <1>3, <2>2
  <2>4. invocation'[k] = [call EXCEPT !.text = text]
        /\ \A c \in Calls \ {k} : invocation'[c] = invocation[c]
        /\ invocation' = [invocation EXCEPT ![k] = [call EXCEPT !.text = text]]
    BY <1>5 DEF TypeOK
  <2>5. call = invocation[k]
    OBVIOUS
  <2> HIDE DEF text, call
  <2>6. [call EXCEPT !.text = text] \in Invocation /\ [call EXCEPT !.text = text].text = text
        /\ SameCall([call EXCEPT !.text = text], call)
    <3>1. [call EXCEPT !.text = text] \in Invocation /\ [call EXCEPT !.text = text].text = text
      BY <2>1, <2>3 DEF Invocation
    <3>2. SameCall([call EXCEPT !.text = text], call)
      BY <2>1, <3>1, NotNone DEF SameCall, Invocation
    <3> QED  BY <3>1, <3>2
  <2>7. TypeOK'
    BY <1>4, <1>5, <2>4, <2>6 DEF TypeOK
  <2>8. /\ \A c \in Calls : SameCall(invocation'[c], invocation[c])
        /\ \A s \in Shells : SameShell(terminal'[s], terminal[s])
    BY <1>5, <2>4, <2>5, <2>6 DEF SameCall, SameShell
  <2>9. CallShape' /\ ShellShape' /\ Counted'
    <3>1. \A c \in Calls \ unread : c # k /\ invocation'[c] # None =>
             /\ Shape(invocation'[c].text)
             /\ invocation'[c].text.output # <<>> => stream'[c] # <<>>
      BY <1>4, <2>4 DEF CallShape
    <3>2. k \notin unread =>
             /\ Shape(invocation'[k].text)
             /\ invocation'[k].text.output # <<>> => stream'[k] # <<>>
      BY <1>4, <2>3, <2>4, <2>6
    <3>3. CallShape'
      BY <1>4, <3>1, <3>2 DEF CallShape, Shape
    <3>4. ShellShape'
      BY <1>4, <1>5 DEF ShellShape, Shape
    <3>5. \A c \in Calls : invocation'[c].text.count = invocation[c].text.count \/ c # k
      BY <2>3, <2>4, <2>5, <2>6
    <3>6. Counted'
      BY <1>4, <1>5, <2>4, <3>5 DEF Counted
    <3> QED  BY <3>3, <3>4, <3>6
  <2>10. ShownIsStored'
    <3>1. \A c \in Calls \ (odd \cup unread) : c # k /\ invocation'[c] # None => EndOf(stream[c], invocation'[c].text)
      BY <2>4, Ends DEF ShownIsStored
    <3>2. k \notin odd \cup unread => EndOf(stream[k], invocation'[k].text)
      BY <1>5, <2>3, <2>4, <2>5, <2>6, Ends DEF ShownIsStored
    <3>3. \A s \in Shells \ (odd \cup unread) : terminal[s] # None => EndOf(stream[s], terminal[s].text)
      BY Ends DEF ShownIsStored
    <3> QED  BY <1>4, <1>5, <3>1, <3>2, <3>3 DEF ShownIsStored, Tail1, EndOf
  <2> QED  BY <1>4, <2>7, <2>8, <2>9, <2>10, WindowsMoved
<1>6. CASE /\ k \in Shells /\ terminal[k] # None /\ UNCHANGED invocation
           /\ terminal' = [terminal EXCEPT ![k].text = Prepended(k, @, from, before)]
  <2> DEFINE t == terminal[k]
             text == Prepended(k, t.text, from, before)
  <2>1. t \in Terminal
    BY <1>6 DEF TypeOK
  <2>2. t.text \in Shown /\ (k \notin unread => Shape(t.text))
    BY <1>6, <2>1, RecordTypes DEF ShellShape
  <2>3. /\ text \in Shown
        /\ k \notin unread =>
             Shape(text) /\ (EndOf(stream[k], t.text) => EndOf(stream[k], text))
    BY <1>3, <2>2
  <2>4. terminal'[k] = [t EXCEPT !.text = text]
        /\ \A s \in Shells \ {k} : terminal'[s] = terminal[s]
        /\ terminal' = [terminal EXCEPT ![k] = [t EXCEPT !.text = text]]
    BY <1>6 DEF TypeOK
  <2>5. t = terminal[k]
    OBVIOUS
  <2> HIDE DEF text, t
  <2>6. [t EXCEPT !.text = text] \in Terminal /\ [t EXCEPT !.text = text].text = text
        /\ [t EXCEPT !.text = text].calls = t.calls
        /\ SameShell([t EXCEPT !.text = text], t)
    <3>1. [t EXCEPT !.text = text] \in Terminal /\ [t EXCEPT !.text = text].text = text
          /\ [t EXCEPT !.text = text].calls = t.calls
      BY <2>1, <2>3 DEF Terminal
    <3>2. SameShell([t EXCEPT !.text = text], t)
      BY <2>1, <3>1, NotNone DEF SameShell
    <3> QED  BY <3>1, <3>2
  <2>7. TypeOK'
    <3>1. terminal' \in [Shells -> Terminal \cup {None}]
      BY <1>6, <2>4, <2>6 DEF TypeOK
    <3>2. \A s \in Shells : terminal'[s] # None => IsInjective(terminal'[s].calls)
      BY <1>6, <2>4, <2>5, <2>6 DEF TypeOK
    <3> QED  BY <1>4, <1>6, <3>1, <3>2 DEF TypeOK
  <2>8. /\ \A c \in Calls : SameCall(invocation'[c], invocation[c])
        /\ \A s \in Shells : SameShell(terminal'[s], terminal[s])
    BY <1>6, <2>4, <2>5, <2>6 DEF SameCall, SameShell
  <2>9. CallShape' /\ ShellShape' /\ Counted'
    <3>1. \A s \in Shells \ unread : s # k /\ terminal'[s] # None => Shape(terminal'[s].text)
      BY <2>4 DEF ShellShape
    <3>2. k \notin unread => Shape(terminal'[k].text)
      BY <2>3, <2>4, <2>6
    <3> QED  BY <1>4, <1>6, <3>1, <3>2 DEF CallShape, ShellShape, Counted, Shape
  <2>10. ShownIsStored'
    <3>1. \A s \in Shells \ (odd \cup unread) : s # k /\ terminal'[s] # None => EndOf(stream[s], terminal'[s].text)
      BY <2>4, Ends DEF ShownIsStored
    <3>2. k \notin odd \cup unread => EndOf(stream[k], terminal'[k].text)
      BY <1>6, <2>3, <2>4, <2>5, <2>6, Ends DEF ShownIsStored
    <3>3. \A c \in Calls \ (odd \cup unread) : invocation[c] # None => EndOf(stream[c], invocation[c].text)
      BY Ends DEF ShownIsStored
    <3> QED  BY <1>4, <1>6, <3>1, <3>2, <3>3 DEF ShownIsStored, Tail1, EndOf
  <2> QED  BY <1>4, <2>7, <2>8, <2>9, <2>10, WindowsMoved
<1> QED  BY <1>5, <1>6 DEF LoadOutput

\* A terminal that a call joins.
LEMMA JoinedIsTerminal ==
    ASSUME NEW s \in Shells, NEW c \in Calls, terminal[s] \in Terminal \cup {None},
           terminal[s] # None => IsInjective(terminal[s].calls)
    PROVE  /\ Joined(s, c) \in Terminal
           /\ IsInjective(Joined(s, c).calls)
           /\ \A d \in Calls : Contains(Joined(s, c).calls, d) <=>
                  d = c \/ (terminal[s] # None /\ Contains(terminal[s].calls, d))
           /\ terminal[s] = None =>
                /\ Joined(s, c).text = Blank /\ Joined(s, c).calls = <<c>>
                /\ Joined(s, c).state = "running"
           /\ terminal[s] # None =>
                /\ Joined(s, c).text = terminal[s].text /\ Joined(s, c).state = terminal[s].state
                /\ Contains(terminal[s].calls, c) => Joined(s, c) = terminal[s]
<1> DEFINE t == IF terminal[s] # None THEN terminal[s]
                ELSE [state |-> "running", text |-> Blank, calls |-> <<>>]
           calls == IF Contains(t.calls, c) THEN t.calls ELSE Append(t.calls, c)
<1>1. t \in Terminal /\ IsInjective(t.calls)
  <2>1. <<>> \in Seq(Calls) /\ IsInjective(<<>>)
    BY EmptySeq DEF IsInjective
  <2>2. [state |-> "running", text |-> Blank, calls |-> <<>>] \in Terminal
    BY <2>1, BlankIsShown DEF Terminal
  <2> QED  BY <2>1, <2>2
<1>2. Joined(s, c) = [t EXCEPT !.calls = calls]
  BY DEF Joined
<1>3. terminal[s] = None => t.text = Blank /\ t.calls = <<>> /\ t.state = "running"
  OBVIOUS
<1>4. terminal[s] # None => t = terminal[s]
  OBVIOUS
<1> HIDE DEF t
<1>5. t.calls \in Seq(Calls)
  BY <1>1, RecordTypes
<1>6. calls \in Seq(Calls) /\ IsInjective(calls)
      /\ \A d \in Calls : Contains(calls, d) <=> d = c \/ Contains(t.calls, d)
  <2>1. CASE Contains(t.calls, c)
    BY <1>1, <1>5, <2>1
  <2>2. CASE ~Contains(t.calls, c)
    <3> DEFINE old == t.calls
               new == Append(old, c)
    <3>1. calls = new
      BY <2>2
    <3>2. old \in Seq(Calls) /\ Len(old) \in Nat /\ DOMAIN old = 1..Len(old)
      BY <1>5, LenProperties
    <3>3. \A i \in 1..Len(old) : old[i] # c
      BY <2>2 DEF Contains
    <3>4. \A i, j \in 1..Len(old) : old[i] = old[j] => i = j
      BY <1>1, <3>2 DEF IsInjective
    <3> HIDE DEF old
    <3>5. /\ new \in Seq(Calls) /\ Len(new) = Len(old) + 1 /\ DOMAIN new = 1..Len(old) + 1
          /\ \A i \in 1..Len(old) : new[i] = old[i]
          /\ new[Len(old) + 1] = c
      BY <3>2
    <3> HIDE DEF new
    <3>6. IsInjective(new)
      BY <3>2, <3>3, <3>4, <3>5 DEF IsInjective
    <3>7. \A d \in Calls : Contains(new, d) <=> d = c \/ Contains(old, d)
      <4> TAKE d \in Calls
      <4>1. ASSUME Contains(new, d) PROVE d = c \/ Contains(old, d)
        <5>1. PICK i \in 1..Len(new) : new[i] = d
          BY <4>1 DEF Contains
        <5>2. i = Len(old) + 1 \/ i \in 1..Len(old)
          BY <3>2, <3>5, <5>1
        <5> QED  BY <3>5, <5>1, <5>2 DEF Contains
      <4>2. ASSUME Contains(old, d) PROVE Contains(new, d)
        <5>1. PICK i \in 1..Len(old) : old[i] = d
          BY <4>2 DEF Contains
        <5>2. i \in 1..Len(new) /\ new[i] = d
          BY <3>2, <3>5, <5>1
        <5> QED  BY <5>2 DEF Contains
      <4>3. Contains(new, c)
        <5>1. Len(old) + 1 \in 1..Len(new)
          BY <3>2, <3>5
        <5> QED  BY <3>5, <5>1 DEF Contains
      <4> QED  BY <4>1, <4>2, <4>3
    <3> QED  BY <3>1, <3>5, <3>6, <3>7 DEF old
  <2> QED  BY <2>1, <2>2
<1>7. terminal[s] = None => calls = <<c>>
  <2>1. SUFFICES ASSUME terminal[s] = None PROVE calls = <<c>>
    OBVIOUS
  <2>2. t.calls = <<>> /\ ~Contains(<<>>, c)
    BY <1>3, <2>1 DEF Contains
  <2> QED  BY <2>2
<1>8. Contains(t.calls, c) => calls = t.calls
  OBVIOUS
<1> HIDE DEF calls
<1>9. /\ [t EXCEPT !.calls = calls] \in Terminal
      /\ [t EXCEPT !.calls = calls].calls = calls
      /\ [t EXCEPT !.calls = calls].text = t.text
      /\ [t EXCEPT !.calls = calls].state = t.state
      /\ calls = t.calls => [t EXCEPT !.calls = calls] = t
  BY <1>1, <1>6 DEF Terminal
<1>10. terminal[s] = None => \A d \in Calls : ~Contains(t.calls, d)
  BY <1>3 DEF Contains
<1> QED  BY <1>2, <1>3, <1>4, <1>6, <1>7, <1>8, <1>9, <1>10

LEMMA StutterKeeps ==
    ASSUME ToolInv, UNCHANGED vars
    PROVE  ToolInv'
<1> USE DEF ToolInv, vars
<1>1. /\ \A c \in Calls : SameCall(invocation'[c], invocation[c])
      /\ \A s \in Shells : SameShell(terminal'[s], terminal[s])
  BY DEF SameCall, SameShell
<1>2. TypeOK'
  BY DEF TypeOK
<1>3. CallShape' /\ ShellShape' /\ Counted' /\ ShownIsStored'
  BY DEF CallShape, ShellShape, Counted, ShownIsStored, Shape, Tail1
<1> QED  BY <1>1, <1>2, <1>3, WindowsMoved

LEMMA StartKeeps ==
    ASSUME ToolInv, NEW c \in Calls, NEW s \in Shells \cup {None}, Start(c, s)
    PROVE  ToolInv'
<1> USE DEF ToolInv
<1> DEFINE new == [state |-> "running", text |-> Blank, dropped |-> FALSE, last |-> None,
                   shell |-> s]
           J == Joined(s, c)
<1>1. new \in Invocation /\ new.text = Blank /\ new.dropped = FALSE /\ new.last = None
      /\ new.shell = s /\ new # None
  <2>1. new \in Invocation
    BY BlankIsShown DEF Invocation
  <2> QED  BY <2>1, NotNone
<1>2. /\ invocation[c] = None /\ invocation' = [invocation EXCEPT ![c] = new]
      /\ UNCHANGED <<stream, sent, unread, over, partials>>
  BY DEF Start
<1>3. /\ terminal' = IF s = None THEN terminal ELSE [terminal EXCEPT ![s] = J]
      /\ odd' = IF stream[c] # <<>> \/ c \in over THEN odd \cup {c} \cup ({s} \cap Shells) ELSE odd
  BY DEF Start
<1> HIDE DEF new, J
<1>4. invocation'[c] = new /\ \A d \in Calls \ {c} : invocation'[d] = invocation[d]
  BY <1>2 DEF TypeOK
<1>5. s \in Shells =>
        /\ J \in Terminal /\ IsInjective(J.calls) /\ J # None
        /\ \A d \in Calls : Contains(J.calls, d) <=>
              d = c \/ (terminal[s] # None /\ Contains(terminal[s].calls, d))
        /\ terminal[s] = None => J.text = Blank
        /\ terminal[s] # None => J.text = terminal[s].text
  <2>1. SUFFICES ASSUME s \in Shells PROVE
        /\ J \in Terminal /\ IsInjective(J.calls) /\ J # None
        /\ \A d \in Calls : Contains(J.calls, d) <=>
              d = c \/ (terminal[s] # None /\ Contains(terminal[s].calls, d))
        /\ terminal[s] = None => J.text = Blank
        /\ terminal[s] # None => J.text = terminal[s].text
    OBVIOUS
  <2>2. terminal[s] \in Terminal \cup {None}
        /\ (terminal[s] # None => IsInjective(terminal[s].calls))
    BY <2>1 DEF TypeOK
  <2> QED  BY <2>1, <2>2, JoinedIsTerminal, NotNone DEF J
<1>6. /\ s \in Shells => terminal'[s] = J
      /\ \A x \in Shells \ {s} : terminal'[x] = terminal[x]
  BY <1>3, NotNone DEF TypeOK
<1>7. /\ odd \subseteq odd' /\ odd' \subseteq Calls \cup Shells
      /\ c \notin odd' => stream[c] = <<>> /\ c \notin over
      /\ stream[c] # <<>> \/ c \in over => s \notin Shells \ odd'
  BY <1>3 DEF TypeOK
<1>8. TypeOK'
  <2>1. terminal' \in [Shells -> Terminal \cup {None}]
    BY <1>3, <1>5 DEF TypeOK
  <2>2. invocation' \in [Calls -> Invocation \cup {None}]
    BY <1>1, <1>2 DEF TypeOK
  <2>3. \A x \in Shells : terminal'[x] # None => IsInjective(terminal'[x].calls)
    BY <1>5, <1>6 DEF TypeOK
  <2> QED  BY <1>2, <1>7, <2>1, <2>2, <2>3 DEF TypeOK
<1>9. CallShape'
  <2>1. Blank.output = <<>> /\ Shape(Blank)
    BY BlankIsShown DEF Blank
  <2>2. \A d \in Calls \ unread : d # c /\ invocation'[d] # None =>
           /\ Shape(invocation'[d].text)
           /\ invocation'[d].text.output # <<>> => stream'[d] # <<>>
    BY <1>2, <1>4 DEF CallShape
  <2>3. Shape(invocation'[c].text) /\ invocation'[c].text.output = <<>>
    BY <1>1, <1>4, <2>1
  <2> QED  BY <1>2, <2>2, <2>3 DEF CallShape, Shape
<1>10. ShellShape'
  <2>1. \A x \in Shells \ unread : terminal'[x] # None => Shape(terminal'[x].text)
    BY <1>5, <1>6, BlankIsShown DEF ShellShape
  <2> QED  BY <1>2, <2>1 DEF ShellShape, Shape
<1>11. CallFresh' /\ ShellFresh'
  BY <1>1, <1>2, <1>4, <1>5, <1>6, <1>7 DEF CallFresh, ShellFresh
<1>12. Linked'
  <2> SUFFICES ASSUME NEW d \in Calls, NEW x \in Shells
               PROVE  /\ invocation'[d] # None /\ invocation'[d].shell = x =>
                            terminal'[x] # None /\ Contains(terminal'[x].calls, d)
                      /\ terminal'[x] # None /\ Contains(terminal'[x].calls, d) /\ d \notin over =>
                            invocation'[d] # None /\ invocation'[d].shell = x
    BY <1>2 DEF Linked, Contains
  <2>1. ASSUME invocation'[d] # None, invocation'[d].shell = x
        PROVE  terminal'[x] # None /\ Contains(terminal'[x].calls, d)
    BY <1>1, <1>4, <1>5, <1>6, <2>1 DEF Linked
  <2>2. ASSUME terminal'[x] # None, Contains(terminal'[x].calls, d), d \notin over
        PROVE  invocation'[d] # None /\ invocation'[d].shell = x
    BY <1>1, <1>2, <1>4, <1>5, <1>6, <2>2 DEF Linked
  <2> QED  BY <2>1, <2>2
<1>13. Fed'
  BY <1>1, <1>2, <1>4, <1>7 DEF Fed
<1>14. Known' /\ (partials \in Nat)'
  <2>1. c \notin odd' => sent[c].last = None /\ sent[c].dropped = FALSE
    <3>1. sent[c].dropped \in BOOLEAN
      BY RecordTypes DEF TypeOK
    <3> QED  BY <1>2, <1>7, <3>1 DEF CallFresh
  <2> QED  BY <1>1, <1>2, <1>4, <1>7, <2>1 DEF Known
<1>15. ShownIsStored'
  <2>1. ASSUME NEW d \in Calls \ (odd' \cup unread), invocation'[d] # None
        PROVE  EndOf(stream[d], invocation'[d].text)
    <3>1. CASE d = c
      BY <1>1, <1>4, <1>7, <3>1, BlankIsShown
    <3>2. CASE d # c
      BY <1>4, <1>7, <2>1, <3>2, Ends DEF ShownIsStored
    <3> QED  BY <3>1, <3>2
  <2>2. ASSUME NEW x \in Shells \ (odd' \cup unread), terminal'[x] # None
        PROVE  EndOf(stream[x], terminal'[x].text)
    <3>1. CASE x = s /\ terminal[x] = None
      BY <1>5, <1>6, <1>7, <3>1, BlankIsShown DEF ShellFresh
    <3>2. CASE x = s /\ terminal[x] # None
      BY <1>5, <1>6, <1>7, <3>2, Ends DEF ShownIsStored
    <3>3. CASE x # s
      BY <1>6, <1>7, <2>2, <3>3, Ends DEF ShownIsStored
    <3> QED  BY <3>1, <3>2, <3>3
  <2> QED  BY <1>2, <2>1, <2>2 DEF ShownIsStored, Tail1, EndOf
<1>16. SentIsStored'
  BY <1>2, <1>7 DEF SentIsStored
<1>17. Counted'
  <2>1. c \notin odd' => new.text.count = Len(stream[c])
    <3>1. Blank.count = 0 /\ Len(<<>>) = 0
      BY DEF Blank
    <3> QED  BY <1>1, <1>7, <3>1
  <2> QED  BY <1>2, <1>4, <1>7, <2>1 DEF Counted
<1> QED  BY <1>17, <1>8, <1>9, <1>10, <1>11, <1>12, <1>13, <1>14, <1>15, <1>16

\* The call that was sent a partial result last knows it.
LEMMA RedeliveryKeeps ==
    ASSUME ToolInv, NEW c \in Calls, Redelivery(c)
    PROVE  ToolInv'
<1> USE DEF ToolInv
<1>1. sent[c].last # None /\ c \notin odd /\ Partial(c, sent[c].last, FALSE)
      /\ UNCHANGED <<sent, unread, over, odd, partials, restarts>>
  BY DEF Redelivery
<1>2. invocation[c] # None /\ invocation[c].last = sent[c].last
  BY <1>1 DEF CallFresh, Known
<1>3. Redelivered(c, sent[c].last)
  BY <1>2 DEF Redelivered
<1>4. UNCHANGED <<invocation, terminal, stream>>
  BY <1>1, <1>3 DEF Partial
<1> QED  BY <1>1, <1>4, StutterKeeps DEF vars

LEMMA StoreIs ==
    ASSUME TypeOK, NEW c \in Calls, NEW s \in Shells \cup {None}, NEW u, NEW v,
           Store(c, u, s, v), After(stream[c], u) \in Text,
           s \in Shells => After(stream[s], v) \in Text
    PROVE  /\ stream' \in [Calls \cup Shells -> Text]
           /\ stream'[c] = After(stream[c], u)
           /\ s \in Shells => stream'[s] = After(stream[s], v)
           /\ \A k \in Calls \cup Shells : k # c /\ k # s => stream'[k] = stream[k]
<1>1. stream' = [k \in Calls \cup Shells |->
                   IF k = c THEN After(stream[k], u) ELSE IF k = s THEN After(stream[k], v)
                   ELSE stream[k]]
  BY UpdateFields DEF Store
<1>2. c \notin Shells /\ None \notin Calls \cup Shells
  BY ToolOutputAssumption
<1>3. stream \in [Calls \cup Shells -> Text]
  BY DEF TypeOK
<1> QED  BY <1>1, <1>2, <1>3

\* A text with nothing or one chunk more.
LEMMA OneMore ==
    ASSUME NEW stored \in Text, NEW chunk \in Chunks \cup {None}
    PROVE  LET text == IF chunk = None THEN <<>> ELSE <<chunk>>
           IN  /\ text \in Text /\ stored \o text \in Text
               /\ (IF chunk = None THEN stored ELSE Append(stored, chunk)) = stored \o text
               /\ stored # <<>> => stored \o text # <<>>
               /\ text # <<>> => stored \o text # <<>>
<1> DEFINE text == IF chunk = None THEN <<>> ELSE <<chunk>>
<1>1. text \in Seq(Chunks) /\ stored \in Seq(Chunks)
  BY EmptySeq DEF Text
<1>2. (IF chunk = None THEN stored ELSE Append(stored, chunk)) = stored \o text
  <2>1. CASE chunk = None
    BY <1>1, <2>1, ConcatEmptySeq
  <2>2. CASE chunk # None
    <3>1. chunk \in Chunks /\ text = <<chunk>>
      BY <2>2
    <3>2. Append(stored, chunk) \in Seq(Chunks) /\ stored \o <<chunk>> \in Seq(Chunks)
          /\ Len(Append(stored, chunk)) = Len(stored \o <<chunk>>)
          /\ \A i \in 1..Len(Append(stored, chunk)) :
                Append(stored, chunk)[i] = (stored \o <<chunk>>)[i]
      BY <1>1, <3>1
    <3>3. Append(stored, chunk) = stored \o <<chunk>>
      BY <3>2, SeqEqual
    <3> QED  BY <2>2, <3>1, <3>3
  <2> QED  BY <2>1, <2>2
<1> HIDE DEF text
<1>3. stored \o text \in Seq(Chunks) /\ (stored \o text = <<>> <=> stored = <<>> /\ text = <<>>)
  BY <1>1, ConcatProperties, ConcatEqualIffEmpty
<1> QED  BY <1>1, <1>2, <1>3 DEF Text, text

LEMMA PartialKeeps ==
    ASSUME ToolInv, NEW c \in Calls, PartialResult(c)
    PROVE  ToolInv'
<1> USE DEF ToolInv
<1>1. PICK chunk \in Chunks \cup {None}, dropped \in BOOLEAN :
         /\ Partial(c, [time |-> partials', chunk |-> chunk], dropped)
         /\ sent' = [sent EXCEPT ![c] = WasSent(@, [time |-> partials', chunk |-> chunk], dropped)]
  BY DEF PartialResult
<1> DEFINE d == [time |-> partials', chunk |-> chunk]
           text == IF chunk = None THEN <<>> ELSE <<chunk>>
           call == invocation[c]
           s == IF call = None THEN None ELSE call.shell
<1>2. /\ c \notin over /\ partials' = partials + 1 /\ UNCHANGED <<unread, over, restarts>>
      /\ odd' = IF invocation[c] = None THEN odd \cup {c} ELSE odd
  BY DEF PartialResult
<1>3. d \in Delivery /\ d.time = partials + 1 /\ d # None /\ (partials \in Nat)'
  <2>1. partials \in Nat /\ partials' \in Nat
    BY <1>2
  <2>2. d \in Delivery
    BY <2>1 DEF Delivery
  <2> QED  BY <1>2, <2>1, <2>2, NotNone
<1>4. call \in Invocation \cup {None} /\ s \in Shells \cup {None} /\ sent[c] \in Sent
  BY RecordTypes DEF TypeOK
<1>5. ~Redelivered(c, d)
  <2>1. SUFFICES ASSUME call # None, call.last = d PROVE FALSE
    BY DEF Redelivered
  <2>2. call.last.time <= partials
    BY <1>3, <2>1 DEF Known
  <2> QED  BY <1>3, <2>1, <2>2
<1>6. /\ Store(c, Update(FALSE, text), s, Update(FALSE, text))
      /\ invocation' = IF call = None THEN invocation ELSE
            [invocation EXCEPT ![c] = Heard(call, text, dropped, d)]
      /\ terminal' = IF s = None \/ terminal[s] = None THEN terminal ELSE
            [terminal EXCEPT ![s].text = Append1(@, text)]
  <2>1. d.chunk = chunk
    OBVIOUS
  <2> HIDE DEF d
  <2>2. Partial(c, d, dropped)
    BY <1>1 DEF d
  <2> QED  BY <1>5, <2>1, <2>2 DEF Partial
<1>7. sent' = [sent EXCEPT ![c] = WasSent(sent[c], d, dropped)] /\ d.chunk = chunk
  BY <1>1
<1> HIDE DEF d
<1>8. text \in Text /\ \A stored \in Text :
          /\ stored \o text \in Text
          /\ stored # <<>> => stored \o text # <<>>
          /\ text # <<>> => stored \o text # <<>>
  <2>1. text \in Text
    BY RecordTypes, OneMore
  <2> QED  BY <2>1, OneMore
<1>9. /\ stream' \in [Calls \cup Shells -> Text]
      /\ stream'[c] = stream[c] \o text
      /\ s \in Shells => stream'[s] = stream[s] \o text
      /\ \A k \in Calls \cup Shells : k # c /\ k # s => stream'[k] = stream[k]
  <2> DEFINE u == Update(FALSE, text)
  <2>1. Store(c, u, s, u)
    BY <1>6
  <2> HIDE DEF s, text
  <2>2. \A stored : After(stored, u) = stored \o text
    BY UpdateFields DEF After
  <2> HIDE DEF u
  <2>3. stream[c] \in Text /\ (s \in Shells => stream[s] \in Text)
    BY DEF TypeOK
  <2>4. /\ After(stream[c], u) \in Text
        /\ s \in Shells => After(stream[s], u) \in Text
    BY <1>8, <2>2, <2>3
  <2>5. s \in Shells \cup {None} /\ TypeOK
    BY <1>4
  <2>6. /\ stream' \in [Calls \cup Shells -> Text]
        /\ stream'[c] = After(stream[c], u)
        /\ s \in Shells => stream'[s] = After(stream[s], u)
        /\ \A k \in Calls \cup Shells : k # c /\ k # s => stream'[k] = stream[k]
    BY <2>1, <2>4, <2>5, StoreIs
  <2> QED  BY <2>2, <2>6
<1>10. \A k \in Calls \cup Shells : stream[k] # <<>> => stream'[k] # <<>>
  <2> TAKE k \in Calls \cup Shells
  <2> HIDE DEF s, text
  <2>1. stream[k] \in Text
    BY DEF TypeOK
  <2>2. CASE k = c
    BY <1>8, <1>9, <2>1, <2>2
  <2>3. CASE k # c /\ k = s
    <3>1. s \in Shells
      BY <1>4, <2>3, ToolOutputAssumption
    <3> QED  BY <1>8, <1>9, <2>1, <2>3, <3>1
  <2>4. CASE k # c /\ k # s
    BY <1>9, <2>4
  <2> QED  BY <2>2, <2>3, <2>4
<1>11. /\ sent' \in [Calls -> Sent] /\ sent'[c].text = sent[c].text \o text
       /\ sent'[c].result = sent[c].result /\ sent'[c].last = d
       /\ sent'[c].dropped = (sent[c].dropped \/ dropped)
       /\ \A x \in Calls \ {c} : sent'[x] = sent[x]
  <2> DEFINE new == WasSent(sent[c], d, dropped)
  <2>1. sent[c].text \in Text
    BY <1>4, RecordTypes
  <2>2. (IF chunk = None THEN sent[c].text ELSE Append(sent[c].text, chunk)) = sent[c].text \o text
    BY <2>1, OneMore
  <2>3. sent[c].text \o text \in Text
    BY <1>8, <2>1
  <2> HIDE DEF text
  <2>4. new = [sent[c] EXCEPT !.text = sent[c].text \o text,
                              !.dropped = sent[c].dropped \/ dropped, !.last = d]
    BY <1>7, <2>2 DEF WasSent
  <2>5. new \in Sent /\ new.text = sent[c].text \o text /\ new.result = sent[c].result
        /\ new.last = d /\ new.dropped = (sent[c].dropped \/ dropped)
    BY <1>3, <1>4, <2>3, <2>4 DEF Sent
  <2>6. sent' = [sent EXCEPT ![c] = new]
    BY <1>7
  <2> HIDE DEF new
  <2> QED  BY <2>5, <2>6 DEF TypeOK
<1>12. CASE call = None
  <2>1. s = None /\ c \in odd' /\ odd \subseteq odd' /\ odd' \subseteq Calls \cup Shells
        /\ UNCHANGED <<invocation, terminal>> /\ \A x \in Shells : x \in odd' => x \in odd
    BY <1>2, <1>6, <1>12, ToolOutputAssumption DEF TypeOK
  <2>2. \A k \in Calls \cup Shells : k # c => stream'[k] = stream[k]
    BY <1>9, <2>1, ToolOutputAssumption
  <2>3. \A x \in Shells : stream'[x] = stream[x]
    BY <2>2, ToolOutputAssumption
  <2> HIDE DEF text, call, s
  <2>4. TypeOK'
    BY <1>2, <1>9, <1>11, <2>1 DEF TypeOK
  <2>5. CallShape' /\ ShellShape' /\ Counted'
    <3>1. CallShape' /\ ShellShape'
      BY <1>2, <1>10, <2>1 DEF CallShape, ShellShape, Shape
    <3>2. Counted'
      BY <1>2, <2>1, <2>2 DEF Counted
    <3> QED  BY <3>1, <3>2
  <2>6. CallFresh' /\ ShellFresh'
    BY <1>11, <2>1, <2>2, <2>3 DEF CallFresh, ShellFresh
  <2>7. Linked'
    BY <1>2, <2>1 DEF Linked, Contains
  <2>8. Fed'
    BY <1>2, <1>12, <2>1, <2>2, <2>3 DEF Fed, call
  <2>9. Known'
    <3>1. partials <= partials'
      BY <1>2
    <3>2. \A x \in Calls : invocation[x] # None /\ invocation[x].last # None =>
             invocation[x].last.time <= partials'
      <4> TAKE x \in Calls
      <4>1. invocation[x] # None /\ invocation[x].last # None => invocation[x].last.time \in Nat
        BY RecordTypes DEF TypeOK, Delivery
      <4> QED  BY <1>2, <4>1 DEF Known
    <3> QED  BY <1>2, <1>11, <2>1, <3>2 DEF Known
  <2>10. ShownIsStored'
    BY <1>2, <2>1, <2>2, <2>3 DEF ShownIsStored, Tail1
  <2>11. SentIsStored'
    BY <1>11, <2>1, <2>2 DEF SentIsStored
  <2> QED  BY <1>3, <2>4, <2>5, <2>6, <2>7, <2>8, <2>9, <2>10, <2>11
<1>13. CASE call # None
  <2> DEFINE new == Heard(call, text, dropped, d)
             shown == Append1(call.text, text)
  <2>1. /\ call \in Invocation /\ call.text \in Shown /\ s = call.shell
        /\ c \notin unread => Shape(call.text)
    BY <1>4, <1>13, RecordTypes DEF CallShape
  <2>2. odd' = odd
    BY <1>2, <1>13
  <2>3. /\ shown \in Shown /\ shown.output = call.text.output \o text
        /\ c \notin unread => Shape(shown)
        /\ shown.count = call.text.count + Len(text)
    <3> HIDE DEF text, call
    <3>1. /\ Append1(call.text, text) \in Shown
          /\ c \notin unread => Shape(Append1(call.text, text))
          /\ Append1(call.text, text) = [output |-> call.text.output \o text,
                 start |-> call.text.start, count |-> call.text.count + Len(text)]
      BY <1>8, <2>1, AppendedIsShown
    <3> QED  BY <3>1
  <2>4. c \notin unread /\ EndOf(stream[c], call.text) => EndOf(stream'[c], shown)
    <3>1. stream[c] \in Text
      BY DEF TypeOK
    <3> QED  BY <1>8, <1>9, <2>1, <3>1, AppendedIsEnd
  <2>5. c \notin unread /\ shown.output # <<>> => stream'[c] # <<>>
    <3>1. stream[c] \in Text /\ call.text.output \in Text
      BY <2>1, RecordTypes DEF TypeOK
    <3>2. c \notin unread /\ call.text.output # <<>> => stream[c] # <<>>
      BY <1>13 DEF CallShape
    <3>3. text = <<>> => call.text.output \o text = call.text.output
      BY <3>1, ConcatEmptySeq DEF Text
    <3> HIDE DEF text, call
    <3> QED  BY <1>8, <1>9, <1>10, <2>3, <3>1, <3>2, <3>3
  <2>6. invocation' = [invocation EXCEPT ![c] = new]
    BY <1>6, <1>13
  <2> HIDE DEF shown
  <2>7. new \in Invocation /\ new.text = shown /\ new.last = d /\ new.shell = s
        /\ new.dropped = (call.dropped \/ dropped) /\ new # None
    <3>1. new = [call EXCEPT !.text = shown, !.dropped = call.dropped \/ dropped, !.last = d]
      BY DEF shown, Heard
    <3> HIDE DEF new
    <3> QED  BY <1>3, <2>1, <2>3, <3>1, NotNone DEF Invocation
  <2> HIDE DEF new
  <2>8. invocation'[c] = new /\ \A x \in Calls \ {c} : invocation'[x] = invocation[x]
    BY <2>6 DEF TypeOK
  <2>9. s \in Shells => terminal[s] # None /\ Contains(terminal[s].calls, c)
    BY <1>13, <2>1 DEF Linked
  <2> DEFINE t == terminal[s]
             after == [t EXCEPT !.text = Append1(t.text, text)]
  <2>10. s \in Shells =>
           /\ t \in Terminal /\ t.text \in Shown /\ Append1(t.text, text) \in Shown
           /\ s \notin unread =>
                /\ Shape(Append1(t.text, text))
                /\ EndOf(stream[s], t.text) => EndOf(stream'[s], Append1(t.text, text))
    <3>1. SUFFICES ASSUME s \in Shells
                   PROVE  /\ t \in Terminal /\ t.text \in Shown /\ Append1(t.text, text) \in Shown
                          /\ s \notin unread =>
                              /\ Shape(Append1(t.text, text))
                              /\ EndOf(stream[s], t.text) => EndOf(stream'[s], Append1(t.text, text))
      OBVIOUS
    <3>2. t \in Terminal /\ t.text \in Shown /\ stream[s] \in Text
          /\ (s \notin unread => Shape(t.text))
      BY <2>9, <3>1, RecordTypes DEF TypeOK, ShellShape
    <3> HIDE DEF text, t, s
    <3>3. Append1(t.text, text) \in Shown /\ (s \notin unread => Shape(Append1(t.text, text)))
      BY <1>8, <3>2, AppendedIsShown
    <3>4. s \notin unread /\ EndOf(stream[s], t.text) => EndOf(stream[s] \o text, Append1(t.text, text))
      BY <1>8, <3>2, AppendedIsEnd
    <3>5. stream'[s] = stream[s] \o text
      BY <1>9, <3>1
    <3> QED  BY <3>2, <3>3, <3>4, <3>5
  <2>11. s \in Shells => terminal' = [terminal EXCEPT ![s] = after]
    BY <1>6, <2>9, NotNone DEF TypeOK
  <2>12. s = None => terminal' = terminal
    BY <1>6
  <2>13. s \in Shells => after \in Terminal /\ after.text = Append1(t.text, text)
                         /\ after.calls = t.calls /\ after # None
    <3>1. SUFFICES ASSUME s \in Shells
                   PROVE after \in Terminal /\ after.text = Append1(t.text, text)
                         /\ after.calls = t.calls /\ after # None
      OBVIOUS
    <3>2. t \in Terminal /\ Append1(t.text, text) \in Shown
      BY <2>10, <3>1
    <3> HIDE DEF t, text
    <3> QED  BY <3>2, NotNone DEF Terminal
  <2>14. s \in Shells => t # None
    BY <2>9
  <2>15. s \in Shells => terminal'[s] = after
    BY <2>11 DEF TypeOK
  <2>16. \A x \in Shells \ {s} : terminal'[x] = terminal[x]
    BY <1>4, <2>11, <2>12 DEF TypeOK
  <2>17. \A x \in Shells : terminal'[x] = None <=> terminal[x] = None
    BY <2>13, <2>14, <2>15, <2>16
  <2>18. \A x \in Shells : terminal[x] # None => terminal'[x].calls = terminal[x].calls
    BY <2>13, <2>15, <2>16
  <2>19. terminal' \in [Shells -> Terminal \cup {None}]
    BY <1>4, <2>11, <2>12, <2>13 DEF TypeOK
  <2>20. invocation' \in [Calls -> Invocation \cup {None}]
    BY <2>6, <2>7 DEF TypeOK
  <2>21. /\ \A x \in Shells : x # s => stream'[x] = stream[x]
         /\ \A x \in Calls : x # c => stream'[x] = stream[x]
    BY <1>4, <1>9, ToolOutputAssumption
  <2>22. /\ \A x \in Calls : invocation'[x] = None <=> invocation[x] = None
         /\ \A x \in Calls : invocation[x] # None => invocation'[x].shell = invocation[x].shell
    BY <1>13, <2>1, <2>7, <2>8
  <2> HIDE DEF text, after, s, t
  <2>23. TypeOK'
    <3>1. \A x \in Shells : terminal'[x] # None => IsInjective(terminal'[x].calls)
      BY <2>17, <2>18 DEF TypeOK
    <3> QED  BY <1>2, <1>9, <1>11, <2>2, <2>19, <2>20, <3>1 DEF TypeOK
  <2>24. CallShape'
    <3>1. \A x \in Calls \ unread : x # c /\ invocation'[x] # None =>
             /\ Shape(invocation'[x].text)
             /\ invocation'[x].text.output # <<>> => stream'[x] # <<>>
      BY <2>8, <2>21 DEF CallShape
    <3> QED  BY <1>2, <2>3, <2>5, <2>7, <2>8, <3>1 DEF CallShape, Shape
  <2>25. ShellShape'
    <3>1. \A x \in Shells \ unread : terminal'[x] # None => Shape(terminal'[x].text)
      BY <2>10, <2>13, <2>15, <2>16 DEF ShellShape
    <3> QED  BY <1>2, <3>1 DEF ShellShape, Shape
  <2>26. CallFresh' /\ ShellFresh'
    BY <1>11, <1>13, <2>2, <2>9, <2>17, <2>21, <2>22 DEF CallFresh, ShellFresh, t
  <2>27. Linked'
    <3> SUFFICES ASSUME NEW y \in Calls, NEW x \in Shells
                 PROVE  /\ invocation'[y] # None /\ invocation'[y].shell = x =>
                              terminal'[x] # None /\ Contains(terminal'[x].calls, y)
                        /\ terminal'[x] # None /\ Contains(terminal'[x].calls, y) /\ y \notin over =>
                              invocation'[y] # None /\ invocation'[y].shell = x
      BY <1>2 DEF Linked, Contains
    <3> QED  BY <2>17, <2>18, <2>22 DEF Linked
  <2>28. Fed'
    <3> SUFFICES ASSUME NEW y \in Calls \ over, NEW x \in Shells \ odd, invocation'[y] # None,
                        invocation'[y].shell = x, stream'[y] # <<>>
                 PROVE  stream'[x] # <<>>
      BY <1>2, <2>2 DEF Fed
    <3>1. CASE y = c
      <4>1. x = s /\ s \in Shells
        BY <2>1, <2>7, <2>8, <3>1
      <4>2. stream[c] \in Text /\ stream[s] \in Text
        BY <4>1 DEF TypeOK
      <4>3. CASE text # <<>>
        BY <1>8, <1>9, <4>1, <4>2, <4>3
      <4>4. CASE text = <<>>
        <5>1. stream'[c] = stream[c]
          BY <1>9, <4>2, <4>4, ConcatEmptySeq DEF Text
        <5>2. stream[x] # <<>>
          BY <3>1, <5>1, <2>22 DEF Fed
        <5> QED  BY <1>10, <5>2
      <4> QED  BY <4>3, <4>4
    <3>2. CASE y # c
      <4>1. stream[x] # <<>>
        BY <2>21, <2>22, <3>2 DEF Fed
      <4> QED  BY <1>10, <4>1
    <3> QED  BY <3>1, <3>2
  <2>29. Known'
    <3>1. \A x \in Calls : x # c /\ invocation[x] # None /\ invocation[x].last # None =>
             invocation[x].last.time <= partials'
      <4> TAKE x \in Calls
      <4>1. invocation[x] # None /\ invocation[x].last # None => invocation[x].last.time \in Nat
        BY RecordTypes DEF TypeOK, Delivery
      <4> QED  BY <1>2, <4>1 DEF Known
    <3>2. d.time <= partials'
      BY <1>2, <1>3
    <3>3. c \notin odd => call.dropped = sent[c].dropped
      BY <1>2, <1>13 DEF Known
    <3>4. \A x \in Calls : x # c =>
             /\ x \notin odd /\ invocation'[x] # None => invocation'[x].last = sent'[x].last
             /\ x \notin odd \cup over /\ invocation'[x] # None =>
                   invocation'[x].dropped = sent'[x].dropped
             /\ x \notin over => sent'[x].result = <<>>
             /\ invocation'[x] # None /\ invocation'[x].last # None =>
                   invocation'[x].last.time <= partials'
      BY <1>11, <2>8, <3>1 DEF Known
    <3>5. /\ invocation'[c].last = sent'[c].last /\ invocation'[c].last = d
          /\ c \notin odd => invocation'[c].dropped = sent'[c].dropped
          /\ sent'[c].result = <<>>
      BY <1>2, <1>11, <2>7, <2>8, <3>3 DEF Known
    <3> QED  BY <1>2, <2>2, <3>2, <3>4, <3>5 DEF Known
  <2>30. ShownIsStored'
    <3>1. ASSUME NEW x \in Calls \ (odd \cup unread), invocation'[x] # None
          PROVE  EndOf(stream'[x], invocation'[x].text)
      <4>1. CASE x = c
        BY <1>13, <2>4, <2>7, <2>8, <4>1, Ends DEF ShownIsStored, call
      <4>2. CASE x # c
        BY <2>8, <2>21, <3>1, <4>2, Ends DEF ShownIsStored
      <4> QED  BY <4>1, <4>2
    <3>2. ASSUME NEW x \in Shells \ (odd \cup unread), terminal'[x] # None
          PROVE  EndOf(stream'[x], terminal'[x].text)
      <4>1. CASE x = s
        BY <2>10, <2>13, <2>14, <2>15, <4>1, Ends DEF ShownIsStored, t
      <4>2. CASE x # s
        BY <2>16, <2>21, <3>2, <4>2, Ends DEF ShownIsStored
      <4> QED  BY <4>1, <4>2
    <3> QED  BY <1>2, <2>2, <3>1, <3>2 DEF ShownIsStored, Tail1, EndOf
  <2>31. SentIsStored'
    <3>1. sent[c].result = <<>>
      BY <1>2 DEF Known
    <3>2. c \notin odd => stream[c] = sent[c].text
      BY <3>1 DEF SentIsStored
    <3> QED  BY <1>9, <1>11, <2>2, <2>21, <3>1, <3>2 DEF SentIsStored
  <2>32. Counted'
    <3>1. c \notin odd => shown.count = Len(stream'[c])
      <4>1. stream[c] \in Text /\ Len(stream'[c]) = Len(stream[c]) + Len(text)
        BY <1>8, <1>9, ConcatProperties DEF TypeOK, Text
      <4>2. c \notin odd => call.text.count = Len(stream[c])
        BY <1>2, <1>13 DEF Counted, call
      <4> QED  BY <2>3, <4>1, <4>2
    <3> QED  BY <1>2, <2>2, <2>7, <2>8, <2>21, <3>1 DEF Counted
  <2> QED  BY <1>3, <2>32, <2>23, <2>24, <2>25, <2>26, <2>27, <2>28, <2>29, <2>30, <2>31
<1> QED  BY <1>12, <1>13

\* What a completion changes whatever is shown of the call.
LEMMA Completed ==
    ASSUME ToolInv, NEW c \in Calls, NEW e \in Completion, Complete(c, e)
    PROVE  /\ sent' \in [Calls -> Sent] /\ sent'[c].text = sent[c].text
           /\ sent'[c].last = sent[c].last /\ sent'[c].dropped = sent[c].dropped
           /\ sent'[c].result = IF sent[c].text = <<>> \/ (sent[c].dropped /\ ~e.marked)
                                THEN e.result ELSE <<>>
           /\ \A x \in Calls \ {c} : sent'[x] = sent[x]
           /\ c \notin over /\ over' = over \cup {c} /\ partials' = partials
           /\ ShellOf(invocation[c], e) \in Shells \cup {None}
<1> DEFINE x == sent[c]
           result == IF x.text = <<>> \/ (x.dropped /\ ~e.marked) THEN e.result ELSE <<>>
           new == [x EXCEPT !.result = result]
<1>1. x \in Sent /\ e.result \in Text /\ <<>> \in Text /\ e.exited \in Shells \cup {None}
  BY Told, RecordTypes DEF ToolInv, TypeOK
<1>2. c \notin over /\ over' = over \cup {c} /\ partials' = partials
      /\ sent' = [sent EXCEPT ![c] = new]
  BY DEF Complete
<1>3. result \in Text
  BY <1>1
<1> HIDE DEF result, x
<1>4. new \in Sent /\ new.text = x.text /\ new.last = x.last /\ new.dropped = x.dropped
      /\ new.result = result
  BY <1>1, <1>3 DEF Sent
<1> HIDE DEF new
<1>5. sent \in [Calls -> Sent]
  BY DEF ToolInv, TypeOK
<1>6. /\ sent' \in [Calls -> Sent] /\ sent'[c] = new
      /\ \A y \in Calls \ {c} : sent'[y] = sent[y]
  BY <1>2, <1>4, <1>5
<1>7. ShellOf(invocation[c], e) \in Shells \cup {None}
  <2>1. invocation[c] \in Invocation \cup {None}
    BY DEF ToolInv, TypeOK
  <2> QED  BY <1>1, <2>1, RecordTypes DEF ShellOf
<1> QED  BY <1>2, <1>4, <1>6, <1>7 DEF x, result

\* A call that ends before its start.
LEMMA LateCompleteKeeps ==
    ASSUME ToolInv, NEW c \in Calls, NEW e \in Completion, Complete(c, e), invocation[c] = None
    PROVE  ToolInv'
<1> USE DEF ToolInv
<1> DEFINE s == ShellOf(None, e)
           t == IF s = None THEN None ELSE terminal[s]
           v == IF s = None THEN Nothing ELSE ShellUpdate(c, None, t, e)
<1>1. /\ Store(c, CallUpdate(None, e), s, v) /\ UNCHANGED <<invocation, terminal, unread>>
      /\ odd' = odd \cup {c} \cup (IF s # None /\ Strays(c, None, t, e) THEN {s} ELSE {})
  BY DEF Complete
<1>2. s \in Shells \cup {None} /\ c \notin Shells /\ c # None /\ None \notin Shells
  BY Completed, ToolOutputAssumption
<1>3. CallUpdate(None, e) = Nothing
  BY DEF CallUpdate
<1>4. v = Nothing \/ v = Update(FALSE, e.preview)
  BY <1>3, UpdateFields DEF ShellUpdate
<1>5. odd \subseteq odd' /\ c \in odd' /\ (s \in Shells => s \in odd')
      /\ odd' \subseteq Calls \cup Shells
  BY <1>1, <1>2 DEF Strays, TypeOK
<1> HIDE DEF v, s
<1>6. \A stored \in Text : After(stored, v) \in Text /\ (stored # <<>> => After(stored, v) # <<>>)
  <2> TAKE stored \in Text
  <2>1. CASE v = Nothing
    BY <2>1, NothingAdded
  <2>2. CASE v = Update(FALSE, e.preview)
    <3>1. After(stored, v) = stored \o e.preview
      BY <2>2, UpdateFields DEF After
    <3>2. e.preview \in Text
      BY Told
    <3> QED  BY <3>1, <3>2, ConcatProperties, ConcatEqualIffEmpty DEF Text
  <2> QED  BY <1>4, <2>1, <2>2
<1>7. /\ stream' \in [Calls \cup Shells -> Text]
      /\ stream'[c] = stream[c]
      /\ \A k \in Calls \cup Shells : k # s => stream'[k] = stream[k]
      /\ \A k \in Calls \cup Shells : stream[k] # <<>> => stream'[k] # <<>>
  <2>1. stream \in [Calls \cup Shells -> Text]
    BY DEF TypeOK
  <2>2. stream[c] \in Text /\ (s \in Shells => stream[s] \in Text)
    BY <2>1
  <2>3. After(stream[c], Nothing) = stream[c]
    BY <2>2, NothingAdded
  <2>4. s \in Shells => After(stream[s], v) \in Text /\ (stream[s] # <<>> => After(stream[s], v) # <<>>)
    BY <1>6, <2>2
  <2>5. Store(c, Nothing, s, v) /\ TypeOK
    BY <1>1, <1>3
  <2> DEFINE u == Nothing
  <2> HIDE DEF u
  <2>10. Store(c, u, s, v) /\ After(stream[c], u) = stream[c]
    BY <2>3, <2>5 DEF u
  <2>11. After(stream[c], u) \in Text /\ (s \in Shells => After(stream[s], v) \in Text)
         /\ s \in Shells \cup {None} /\ TypeOK
    BY <1>2, <2>2, <2>4, <2>10
  <2>12. /\ stream' \in [Calls \cup Shells -> Text]
         /\ stream'[c] = After(stream[c], u)
         /\ s \in Shells => stream'[s] = After(stream[s], v)
         /\ \A k \in Calls \cup Shells : k # c /\ k # s => stream'[k] = stream[k]
    BY <2>10, <2>11, StoreIs
  <2>6. /\ stream' \in [Calls \cup Shells -> Text]
        /\ stream'[c] = stream[c]
        /\ s \in Shells => stream'[s] = After(stream[s], v)
        /\ \A k \in Calls \cup Shells : k # c /\ k # s => stream'[k] = stream[k]
    BY <2>10, <2>12
  <2>7. \A k \in Calls \cup Shells : k # s => stream'[k] = stream[k]
    BY <2>6
  <2>8. s \in Shells => (stream[s] # <<>> => stream'[s] # <<>>)
    BY <2>4, <2>6
  <2>9. \A k \in Calls \cup Shells : stream[k] # <<>> => stream'[k] # <<>>
    <3> TAKE k \in Calls \cup Shells
    <3>1. CASE k # s
      BY <2>7, <3>1
    <3>2. CASE k = s
      <4>1. s \in Shells
        BY <1>2, <3>2, ToolOutputAssumption
      <4> QED  BY <2>8, <3>2, <4>1
    <3> QED  BY <3>1, <3>2
  <2> QED  BY <2>6, <2>7, <2>9
<1>8. /\ sent' \in [Calls -> Sent] /\ \A x \in Calls \ {c} : sent'[x] = sent[x]
      /\ c \notin over /\ over' = over \cup {c} /\ partials' = partials
  BY Completed
<1>9. \A k \in (Calls \cup Shells) \ odd' : k \notin odd /\ k # c /\ stream'[k] = stream[k]
  BY <1>2, <1>5, <1>7, ToolOutputAssumption
<1>10. TypeOK'
  BY <1>1, <1>5, <1>7, <1>8 DEF TypeOK
<1>11. CallShape' /\ ShellShape' /\ Counted'
  <2>1. CallShape' /\ ShellShape'
    BY <1>1, <1>7 DEF CallShape, ShellShape, Shape
  <2>2. Counted'
    BY <1>1, <1>5, <1>8, <1>9 DEF Counted
  <2> QED  BY <2>1, <2>2
<1>12. CallFresh' /\ ShellFresh'
  BY <1>1, <1>8, <1>9 DEF CallFresh, ShellFresh
<1>13. Linked'
  BY <1>1, <1>8 DEF Linked, Contains
<1>14. Fed'
  <2> SUFFICES ASSUME NEW y \in Calls \ over', NEW x \in Shells \ odd', invocation[y] # None,
                      invocation[y].shell = x, stream'[y] # <<>>
               PROVE  stream'[x] # <<>>
    BY <1>1 DEF Fed
  <2>1. y \notin over /\ y # c /\ y # s /\ stream'[y] = stream[y]
    BY <1>2, <1>7, <1>8, ToolOutputAssumption
  <2>2. x \notin odd
    BY <1>9
  <2>3. stream[x] # <<>>
    BY <2>1, <2>2 DEF Fed
  <2> QED  BY <1>7, <2>3
<1>15. Known' /\ (partials \in Nat)'
  BY <1>1, <1>5, <1>8 DEF Known
<1>16. ShownIsStored' /\ SentIsStored'
  BY <1>1, <1>8, <1>9 DEF ShownIsStored, SentIsStored, Tail1
<1> QED  BY <1>10, <1>11, <1>12, <1>13, <1>14, <1>15, <1>16

\* The terminal that a completion leaves.
LEMMA LeftIs ==
    ASSUME NEW t \in Terminal, NEW c, NEW call, NEW e, ShellShown(c, call, t, e) \in Shown
    PROVE  /\ Left(t, c, call, e) \in Terminal /\ Left(t, c, call, e).calls = t.calls
           /\ Left(t, c, call, e).text = ShellShown(c, call, t, e)
           /\ Left(t, c, call, e).state = IF e.exited # None THEN "exited" ELSE t.state
<1> DEFINE text == ShellShown(c, call, t, e)
           state == IF e.exited # None THEN "exited" ELSE t.state
<1>1. Left(t, c, call, e) = [t EXCEPT !.text = text, !.state = state]
  BY DEF Left
<1>2. text \in Shown /\ state \in {"running", "exited", "cancelled"}
  BY RecordTypes
<1> HIDE DEF text, state
<1>3. Left(t, c, call, e) \in Terminal /\ Left(t, c, call, e).calls = t.calls
      /\ Left(t, c, call, e).text = text /\ Left(t, c, call, e).state = state
  BY <1>1, <1>2 DEF Terminal
<1> QED  BY <1>3 DEF text, state

\* The call that a completion leaves.
LEMMA EndedIs ==
    ASSUME NEW call \in Invocation, NEW s \in Shells \cup {None}, NEW e \in Completion,
           CallShown(call, e) \in Shown
    PROVE  /\ Ended(call, s, e) \in Invocation /\ Ended(call, s, e).last = call.last
           /\ Ended(call, s, e).text = CallShown(call, e)
           /\ Ended(call, s, e).shell = IF call.shell = None THEN s ELSE call.shell
<1> DEFINE text == CallShown(call, e)
           shell == IF call.shell = None THEN s ELSE call.shell
           dropped == call.dropped /\ ~Replaces(call, e)
<1>1. Ended(call, s, e) = [call EXCEPT !.state = "ended", !.text = text, !.shell = shell,
                                       !.dropped = dropped]
  BY DEF Ended
<1>2. text \in Shown /\ shell \in Shells \cup {None} /\ dropped \in BOOLEAN
  BY RecordTypes
<1> HIDE DEF text, shell, dropped
<1>3. Ended(call, s, e) \in Invocation /\ Ended(call, s, e).last = call.last
      /\ Ended(call, s, e).text = text /\ Ended(call, s, e).shell = shell
  BY <1>1, <1>2 DEF Invocation
<1> QED  BY <1>3 DEF text, shell

LEMMA CompleteKeeps ==
    ASSUME ToolInv, NEW c \in Calls, NEW e \in Completion, Complete(c, e), invocation[c] # None
    PROVE  ToolInv'
<1> USE DEF ToolInv
<1> DEFINE call == invocation[c]
           s == ShellOf(call, e)
           t == IF s = None THEN None ELSE terminal[s]
           u == CallUpdate(call, e)
           v == IF s = None THEN Nothing ELSE ShellUpdate(c, call, t, e)
           J == Joined(s, c)
           new == Ended(call, s, e)
           left == Left(J, c, call, e)
<1>1. /\ Store(c, u, s, v) /\ invocation' = [invocation EXCEPT ![c] = new]
      /\ terminal' = IF s = None THEN terminal ELSE [terminal EXCEPT ![s] = left]
      /\ unread' = unread
      /\ odd' = odd \cup {} \cup (IF s # None /\ Strays(c, call, t, e) THEN {s} ELSE {})
  BY DEF Complete
<1>2. /\ c \notin unread =>
           Shape(call.text) /\ (call.text.output # <<>> => stream[c] # <<>>)
      /\ call \in Invocation
      /\ stream[c] \in Text /\ s \in Shells \cup {None} /\ call # None
      /\ c \notin Shells /\ None \notin Shells /\ TypeOK
  BY Completed, ToolOutputAssumption DEF TypeOK, CallShape
<1>3. /\ odd \subseteq odd' /\ odd' \subseteq Calls \cup Shells
      /\ \A k \in odd' : k \in odd \/ k = s
      /\ s \in Shells /\ s \notin odd' => ~Strays(c, call, t, e)
  BY <1>1, <1>2 DEF TypeOK
<1>4. t \in Terminal \cup {None} /\ (t # None => t.text \in Shown)
      /\ (t # None /\ s \notin unread => Shape(t.text))
      /\ (s \in Shells => t = terminal[s] /\ stream[s] \in Text)
  BY <1>2, RecordTypes DEF TypeOK, ShellShape
<1>5. /\ CallShown(call, e) \in Shown
      /\ After(stream[c], u) \in Text
      /\ stream[c] # <<>> => After(stream[c], u) # <<>>
      /\ c \notin unread =>
           /\ Shape(CallShown(call, e))
           /\ CallShown(call, e).output # <<>> => After(stream[c], u) # <<>>
           /\ EndOf(stream[c], call.text) => EndOf(After(stream[c], u), CallShown(call, e))
      /\ call.text.count = Len(stream[c]) =>
           After(stream[c], u) = IF Replaces(call, e) \/ stream[c] = <<>> THEN e.result
                                 ELSE stream[c]
  <2>1. c \notin unread =>
           /\ Shape(CallShown(call, e))
           /\ CallShown(call, e).output # <<>> => After(stream[c], u) # <<>>
           /\ EndOf(stream[c], call.text) => EndOf(After(stream[c], u), CallShown(call, e))
    BY <1>2, CallAgrees
  <2> QED  BY <1>2, <2>1, CallTyped
<1>6. s \in Shells => /\ J \in Terminal /\ IsInjective(J.calls) /\ J.text \in Shown
                      /\ s \notin unread => Shape(J.text)
                      /\ \A d \in Calls : Contains(J.calls, d) <=>
                            d = c \/ (t # None /\ Contains(t.calls, d))
                      /\ t = None => J.text = Blank /\ J.calls = <<c>>
                      /\ t # None /\ Contains(t.calls, c) => J = t
  <2>1. SUFFICES ASSUME s \in Shells
                 PROVE  /\ J \in Terminal /\ IsInjective(J.calls) /\ J.text \in Shown
                        /\ s \notin unread => Shape(J.text)
                        /\ \A d \in Calls : Contains(J.calls, d) <=>
                              d = c \/ (t # None /\ Contains(t.calls, d))
                        /\ t = None => J.text = Blank /\ J.calls = <<c>>
                        /\ t # None /\ Contains(t.calls, c) => J = t
    OBVIOUS
  <2>2. terminal[s] \in Terminal \cup {None} /\ t = terminal[s]
        /\ (terminal[s] # None => IsInjective(terminal[s].calls))
    BY <1>4, <2>1 DEF TypeOK
  <2> HIDE DEF s, t
  <2>3. /\ J \in Terminal /\ IsInjective(J.calls)
        /\ \A d \in Calls : Contains(J.calls, d) <=> d = c \/ (t # None /\ Contains(t.calls, d))
        /\ t = None => J.text = Blank /\ J.calls = <<c>>
        /\ t # None => J.text = t.text
        /\ t # None /\ Contains(t.calls, c) => J = t
    BY <2>1, <2>2, JoinedIsTerminal
  <2> HIDE DEF J
  <2>4. (s \notin unread => Shape(J.text)) /\ J.text \in Shown
    BY <1>4, <2>3, BlankIsShown, RecordTypes
  <2> QED  BY <2>3, <2>4
<1>7. /\ new \in Invocation /\ new.last = call.last /\ new.text = CallShown(call, e)
      /\ new.shell = (IF call.shell = None THEN s ELSE call.shell) /\ new # None
  BY <1>2, <1>5, EndedIs, NotNone
<1>8. s \in Shells => /\ left \in Terminal /\ left # None /\ left.calls = J.calls
                      /\ left.text = ShellShown(c, call, J, e)
                      /\ s \notin unread => Shape(left.text)
  <2> HIDE DEF s, J, call
  <2>1. s \in Shells => /\ ShellShown(c, call, J, e) \in Shown
                        /\ s \notin unread => Shape(ShellShown(c, call, J, e))
    BY <1>2, <1>6, ShellShownIsShown
  <2> QED  BY <1>6, <2>1, LeftIs, NotNone
<1>9. s \in Shells => v = ShellUpdate(c, call, t, e)
  BY <1>2
<1>10. s \in Shells => After(stream[s], v) \in Text /\ (stream[s] # <<>> => After(stream[s], v) # <<>>)
  <2> HIDE DEF s, t, call, v
  <2> QED  BY <1>2, <1>4, <1>9, ShellUpdateIsText
<1>11. /\ sent' \in [Calls -> Sent] /\ sent'[c].text = sent[c].text
       /\ sent'[c].last = sent[c].last /\ sent'[c].dropped = sent[c].dropped
       /\ sent'[c].result = IF sent[c].text = <<>> \/ (sent[c].dropped /\ ~e.marked)
                            THEN e.result ELSE <<>>
       /\ \A x \in Calls \ {c} : sent'[x] = sent[x]
       /\ c \notin over /\ over' = over \cup {c} /\ partials' = partials
  BY Completed
\* What the text that the shell's terminal now shows agrees with.
<1>12. s \in Shells /\ s \notin odd' \cup unread => EndOf(After(stream[s], v), left.text)
  <2>1. SUFFICES ASSUME s \in Shells, s \notin odd' \cup unread PROVE EndOf(After(stream[s], v), left.text)
    OBVIOUS
  <2>2. c \notin unread /\ ~Strays(c, call, t, e) /\ s \notin odd /\ t = terminal[s] /\ v = ShellUpdate(c, call, t, e)
        /\ left.text = ShellShown(c, call, J, e) /\ stream[s] \in Text
    BY <1>3, <1>4, <1>8, <1>9, <2>1 DEF Strays
  <2> HIDE DEF s, t, call, v, J, left
  <2>3. CASE t = None
    <3>1. stream[s] = <<>>
      BY <2>1, <2>2, <2>3 DEF ShellFresh
    <3>2. J.text = Blank /\ J.calls = <<c>>
      BY <1>6, <2>1, <2>3
    <3>3. EndOf(After(<<>>, ShellUpdate(c, call, None, e)), ShellShown(c, call, J, e))
      BY <1>2, <2>2, <3>2, ShellBegins
    <3> QED  BY <2>2, <2>3, <3>1, <3>3
  <2>4. CASE t # None
    <3>1. Contains(t.calls, c) /\ ~Doubled(c, call, t, e)
      BY <2>2, <2>4 DEF Strays
    <3>2. J = t /\ t \in Terminal /\ Shape(t.text)
      BY <1>4, <1>6, <2>1, <2>4, <3>1
    <3>3. call.shell = s
      BY <1>11, <2>1, <2>2, <2>4, <3>1 DEF Linked, call
    <3>4. call.text.output # <<>> => stream[s] # <<>>
      BY <1>2, <1>11, <2>1, <2>2, <3>3 DEF Fed, call
    <3>5. EndOf(stream[s], t.text)
      BY <2>1, <2>2, <2>4, Ends DEF ShownIsStored
    <3>6. EndOf(After(stream[s], ShellUpdate(c, call, t, e)), ShellShown(c, call, t, e))
      BY <1>2, <2>2, <3>1, <3>2, <3>4, <3>5, ShellAgrees
    <3> QED  BY <2>2, <3>2, <3>6
  <2> QED  BY <2>3, <2>4
<1> HIDE DEF v, u, s, J, new, left
<1>13. /\ stream' \in [Calls \cup Shells -> Text]
       /\ stream'[c] = After(stream[c], u)
       /\ s \in Shells => stream'[s] = After(stream[s], v)
       /\ \A k \in Calls \cup Shells : k # c /\ k # s => stream'[k] = stream[k]
  BY <1>1, <1>2, <1>5, <1>10, StoreIs
<1>14. /\ \A y \in Calls : y # c => stream'[y] = stream[y]
       /\ \A x \in Shells : x # s => stream'[x] = stream[x]
       /\ \A k \in Calls \cup Shells : stream[k] # <<>> => stream'[k] # <<>>
  <2>1. \A y \in Calls : y # s
    BY <1>2, ToolOutputAssumption
  <2>2. /\ \A y \in Calls : y # c => stream'[y] = stream[y]
        /\ \A x \in Shells : x # s => stream'[x] = stream[x]
    BY <1>2, <1>13, <2>1
  <2>3. stream[c] # <<>> => stream'[c] # <<>>
    BY <1>5, <1>13
  <2>4. s \in Shells => (stream[s] # <<>> => stream'[s] # <<>>)
    BY <1>10, <1>13
  <2> QED  BY <2>2, <2>3, <2>4
<1>15. /\ invocation'[c] = new /\ \A y \in Calls \ {c} : invocation'[y] = invocation[y]
       /\ invocation' \in [Calls -> Invocation \cup {None}]
  BY <1>1, <1>7 DEF TypeOK
<1>16. /\ s \in Shells => terminal'[s] = left
       /\ \A x \in Shells \ {s} : terminal'[x] = terminal[x]
       /\ terminal' \in [Shells -> Terminal \cup {None}]
  <2>1. CASE s = None
    BY <1>1, <1>2, <2>1 DEF TypeOK
  <2>2. CASE s \in Shells
    <3>1. terminal' = [terminal EXCEPT ![s] = left]
      BY <1>1, <1>2, <2>2
    <3> QED  BY <1>8, <2>2, <3>1 DEF TypeOK
  <2> QED  BY <1>2, <2>1, <2>2
<1>17. TypeOK'
  <2>1. \A x \in Shells : terminal'[x] # None => IsInjective(terminal'[x].calls)
    BY <1>6, <1>8, <1>16 DEF TypeOK
  <2>2. over' \subseteq Calls
    BY <1>11 DEF TypeOK
  <2> QED  BY <1>1, <1>3, <1>11, <1>13, <1>15, <1>16, <2>1, <2>2 DEF TypeOK
<1>18. CallShape'
  <2>1. \A y \in Calls \ unread : y # c /\ invocation'[y] # None =>
           /\ Shape(invocation'[y].text)
           /\ invocation'[y].text.output # <<>> => stream'[y] # <<>>
    BY <1>14, <1>15 DEF CallShape
  <2>2. c \notin unread =>
           Shape(invocation'[c].text) /\ (invocation'[c].text.output # <<>> => stream'[c] # <<>>)
    BY <1>5, <1>7, <1>13, <1>15
  <2> QED  BY <1>1, <2>1, <2>2 DEF CallShape, Shape
<1>19. ShellShape'
  <2>1. \A x \in Shells \ unread : terminal'[x] # None => Shape(terminal'[x].text)
    BY <1>8, <1>16 DEF ShellShape
  <2> QED  BY <1>1, <2>1 DEF ShellShape, Shape
<1>20. CallFresh'
  BY <1>3, <1>7, <1>11, <1>14, <1>15 DEF CallFresh
<1>21. ShellFresh'
  BY <1>3, <1>8, <1>14, <1>16 DEF ShellFresh
<1>22. Linked'
  <2> SUFFICES ASSUME NEW y \in Calls, NEW x \in Shells
               PROVE  /\ invocation'[y] # None /\ invocation'[y].shell = x =>
                            terminal'[x] # None /\ Contains(terminal'[x].calls, y)
                      /\ terminal'[x] # None /\ Contains(terminal'[x].calls, y) /\ y \notin over' =>
                            invocation'[y] # None /\ invocation'[y].shell = x
    BY DEF Linked, Contains
  <2>1. x = s => terminal'[x] = left /\ left # None /\ t = terminal[x]
                 /\ \A d \in Calls : Contains(left.calls, d) <=>
                       d = c \/ (t # None /\ Contains(t.calls, d))
    BY <1>4, <1>6, <1>8, <1>16
  <2>2. x # s => terminal'[x] = terminal[x]
    BY <1>16
  <2> HIDE DEF t
  <2>3. ASSUME invocation'[y] # None, invocation'[y].shell = x
        PROVE  terminal'[x] # None /\ Contains(terminal'[x].calls, y)
    <3>1. CASE y = c /\ call.shell = None
      BY <1>7, <1>15, <2>1, <2>3, <3>1
    <3>2. CASE y = c /\ call.shell # None
      <4>1. terminal[x] # None /\ Contains(terminal[x].calls, y)
        BY <1>2, <1>7, <1>15, <2>3, <3>2 DEF Linked
      <4> QED  BY <2>1, <2>2, <4>1
    <3>3. CASE y # c
      <4>1. terminal[x] # None /\ Contains(terminal[x].calls, y)
        BY <1>15, <2>3, <3>3 DEF Linked
      <4> QED  BY <2>1, <2>2, <4>1
    <3> QED  BY <3>1, <3>2, <3>3
  <2>4. ASSUME terminal'[x] # None, Contains(terminal'[x].calls, y), y \notin over'
        PROVE  invocation'[y] # None /\ invocation'[y].shell = x
    <3>1. y # c /\ y \notin over
      BY <1>11, <2>4
    <3>2. terminal[x] # None /\ Contains(terminal[x].calls, y)
      BY <2>1, <2>2, <2>4, <3>1
    <3> QED  BY <1>15, <3>1, <3>2 DEF Linked
  <2> QED  BY <2>3, <2>4
<1>23. Fed'
  <2> SUFFICES ASSUME NEW y \in Calls \ over', NEW x \in Shells \ odd', invocation'[y] # None,
                      invocation'[y].shell = x, stream'[y] # <<>>
               PROVE  stream'[x] # <<>>
    BY DEF Fed
  <2>1. y # c /\ y \notin over /\ x \notin odd
    BY <1>3, <1>11
  <2>2. stream[x] # <<>>
    BY <1>14, <1>15, <2>1 DEF Fed
  <2> QED  BY <1>14, <2>2
<1>24. Known' /\ (partials \in Nat)'
  <2>1. \A y \in Calls : y # c =>
             /\ y \notin odd' /\ invocation'[y] # None => invocation'[y].last = sent'[y].last
             /\ y \notin odd' \cup over' /\ invocation'[y] # None =>
                   invocation'[y].dropped = sent'[y].dropped
             /\ y \notin over' => sent'[y].result = <<>>
             /\ invocation'[y] # None /\ invocation'[y].last # None =>
                   invocation'[y].last.time <= partials'
    BY <1>3, <1>11, <1>15 DEF Known
  <2>2. /\ c \notin odd' => new.last = sent'[c].last
        /\ new.last # None => new.last.time <= partials'
    BY <1>2, <1>3, <1>7, <1>11 DEF Known
  <2>3. c \in over'
    BY <1>11
  <2> QED  BY <1>11, <1>15, <2>1, <2>2, <2>3 DEF Known
<1>25. ShownIsStored'
  <2>1. ASSUME NEW y \in Calls \ (odd' \cup unread), invocation'[y] # None
        PROVE  EndOf(stream'[y], invocation'[y].text)
    <3>1. CASE y = c
      <4>1. EndOf(stream[c], call.text)
        BY <1>2, <1>3, <3>1, Ends DEF ShownIsStored
      <4> QED  BY <1>5, <1>7, <1>13, <1>15, <3>1, <4>1
    <3>2. CASE y # c
      BY <1>3, <1>14, <1>15, <2>1, <3>2, Ends DEF ShownIsStored
    <3> QED  BY <3>1, <3>2
  <2>2. ASSUME NEW x \in Shells \ (odd' \cup unread), terminal'[x] # None
        PROVE  EndOf(stream'[x], terminal'[x].text)
    <3>1. CASE x = s
      BY <1>12, <1>13, <1>16, <3>1
    <3>2. CASE x # s
      BY <1>3, <1>14, <1>16, <2>2, <3>2, Ends DEF ShownIsStored
    <3> QED  BY <3>1, <3>2
  <2> QED  BY <1>1, <2>1, <2>2 DEF ShownIsStored, Tail1, EndOf
\* Where the result does not count, what was streamed stays.
<1>26. SentIsStored'
  <2>1. \A y \in Calls \ odd' : y # c =>
           stream'[y] = IF sent'[y].result # <<>> THEN sent'[y].result ELSE sent'[y].text
    BY <1>3, <1>11, <1>14 DEF SentIsStored
  <2>2. ASSUME c \notin odd'
        PROVE  stream'[c] = IF sent'[c].result # <<>> THEN sent'[c].result ELSE sent'[c].text
    <3>1. /\ sent[c].result = <<>> /\ stream[c] = sent[c].text
          /\ call.dropped = sent[c].dropped
      BY <1>2, <1>3, <1>11, <2>2 DEF Known, SentIsStored
    <3>2. call.text.count = Len(stream[c])
      BY <1>2, <1>3, <1>11, <2>2 DEF Counted
    <3>3. stream'[c] = IF Replaces(call, e) \/ stream[c] = <<>> THEN e.result ELSE stream[c]
      BY <1>5, <1>13, <3>2
    <3>4. Replaces(call, e) <=> sent[c].dropped /\ e.result # <<>> /\ ~e.marked
      BY <3>1 DEF Replaces
    <3> HIDE DEF call
    <3> QED  BY <1>11, <3>1, <3>3, <3>4
  <2> QED  BY <2>1, <2>2 DEF SentIsStored
<1>27. Counted'
  BY <1>3, <1>11, <1>14, <1>15 DEF Counted
<1> QED  BY <1>27, <1>17, <1>18, <1>19, <1>20, <1>21, <1>22, <1>23, <1>24, <1>25, <1>26

LEMMA StepKeeps ==
    ASSUME ToolInv, [Next]_vars
    PROVE  ToolInv'
<1>1. ASSUME NEW c \in Calls, NEW e \in Completion, Complete(c, e)
      PROVE  ToolInv'
  BY <1>1, CompleteKeeps, LateCompleteKeeps
<1>2. CASE \E c \in Calls, s \in Shells \cup {None} : Start(c, s)
  BY <1>2, StartKeeps
<1>3. CASE \E c \in Calls : PartialResult(c) \/ Redelivery(c)
  BY <1>3, PartialKeeps, RedeliveryKeeps
<1>4. CASE \E c \in Calls, e \in Completion : Complete(c, e)
  BY <1>1, <1>4
<1>5. CASE Abort \/ \E failed \in SUBSET (Calls \cup Shells) : Restart(failed)
  BY <1>5, AbortKeeps, RestartKeeps
<1>6. CASE \E k \in Calls \cup Shells : \E before \in 1..Len(stream[k]) : LoadOutput(k, before)
  BY <1>6, LoadKeeps
<1>7. CASE UNCHANGED vars
  BY <1>7, StutterKeeps
<1> QED  BY <1>2, <1>3, <1>4, <1>5, <1>6, <1>7 DEF Next

\* What the other theorems rest on: the invariant holds of every behaviour.
THEOREM ToolOutputInvariant == Spec => []ToolInv
<1>1. Init => ToolInv
  BY InvHolds
<1>2. ToolInv /\ [Next]_vars => ToolInv'
  BY StepKeeps
<1> QED  BY <1>1, <1>2, PTL DEF Spec

-----------------------------------------------------------------------------
(* The theorems.                                                           *)

\* Records, texts and counters stay what the code declares them to be; no call is
\* twice among those of a terminal.
THEOREM ToolOutputTypeCorrect == Spec => []TypeOK
<1>1. ToolInv => TypeOK
  BY DEF ToolInv
<1> QED  BY <1>1, ToolOutputInvariant, PTL

\* Projection and storage amount to the same: what is shown of a call or of a shell is
\* the end of what is stored for it, whatever was streamed, left out, replaced, shared,
\* restored and scrolled to.
THEOREM OutputAgrees == Spec => []ShownIsStored
<1>1. ToolInv => ShownIsStored
  BY DEF ToolInv
<1> QED  BY <1>1, ToolOutputInvariant, PTL

\* Nothing that the runtime sent of a call is lost or stored twice, though the partial
\* results are recognised by what is shown and the result by what it leaves out.
THEOREM OutputComplete == Spec => []SentIsStored
<1>1. ToolInv => SentIsStored
  BY DEF ToolInv
<1> QED  BY <1>1, ToolOutputInvariant, PTL

\* A shell that has exited stays so: no call that joins or ends, no partial result, no
\* cancelled turn and no restart makes it run or be cancelled.
THEOREM ExitKept == Spec => ExitIsFinal
<1> DEFINE Kept == \A s \in Shells : terminal[s] # None /\ terminal[s].state = "exited" =>
                       terminal'[s] # None /\ terminal'[s].state = "exited"
<1>1. ASSUME ToolInv, ToolInv', [Next]_vars, NEW s \in Shells,
             terminal[s] # None, terminal[s].state = "exited"
      PROVE  terminal'[s] # None /\ terminal'[s].state = "exited"
  <2> DEFINE t == terminal[s]
  <2>1. /\ t \in Terminal /\ t # None /\ t.state = "exited"
        /\ terminal' \in [Shells -> Terminal \cup {None}]
        /\ terminal \in [Shells -> Terminal \cup {None}]
        /\ IsInjective(t.calls)
    BY <1>1 DEF ToolInv, TypeOK
  <2>2. \A c \in Calls : Joined(s, c) \in Terminal /\ Joined(s, c).state = "exited"
    BY <2>1, JoinedIsTerminal
  <2>3. ASSUME NEW c \in Calls, NEW x \in Shells \cup {None}, Start(c, x)
        PROVE  terminal'[s] # None /\ terminal'[s].state = "exited"
    <3>1. terminal' = IF x = None THEN terminal ELSE [terminal EXCEPT ![x] = Joined(x, c)]
      BY <2>3 DEF Start
    <3>2. CASE x = s
      <4>1. x # None
        BY <3>2, NotNone
      <4>2. terminal'[s] = Joined(s, c)
        BY <2>1, <3>1, <3>2, <4>1
      <4> QED  BY <2>2, <4>2, NotNone
    <3>3. CASE x # s
      BY <2>1, <3>1, <3>3
    <3> QED  BY <3>2, <3>3
  <2>4. ASSUME NEW c \in Calls, NEW d \in Delivery, NEW dropped \in BOOLEAN,
               Partial(c, d, dropped)
        PROVE  terminal'[s] # None /\ terminal'[s].state = "exited"
    <3> DEFINE x == IF invocation[c] = None THEN None ELSE invocation[c].shell
               text == IF d.chunk = None THEN <<>> ELSE <<d.chunk>>
               shown == Append1(t.text, text)
    <3>1. \/ terminal' = terminal
          \/ /\ x # None /\ terminal[x] # None
             /\ terminal' = [terminal EXCEPT ![x].text = Append1(@, text)]
      BY <2>4 DEF Partial
    <3>2. d.chunk \in Chunks \cup {None}
      BY DEF Delivery
    <3>3. text \in Text
      BY <3>2, RecordTypes, OneMore
    <3> HIDE DEF x, text
    <3>4. shown \in Shown
      BY <2>1, <3>3, RecordTypes, AppendedIsShown
    <3>5. CASE x = s /\ terminal' = [terminal EXCEPT ![x].text = Append1(@, text)]
      <4>1. terminal'[s] = [t EXCEPT !.text = shown]
        BY <2>1, <3>5
      <4> HIDE DEF t, shown
      <4>2. [t EXCEPT !.text = shown] \in Terminal /\ [t EXCEPT !.text = shown].state = t.state
        BY <2>1, <3>4 DEF Terminal
      <4> QED  BY <2>1, <4>1, <4>2, NotNone
    <3>6. CASE terminal' = terminal
      BY <2>1, <3>6
    <3>7. CASE x # s /\ terminal' = [terminal EXCEPT ![x].text = Append1(@, text)]
      BY <2>1, <3>7
    <3> QED  BY <3>1, <3>5, <3>6, <3>7
  <2>5. ASSUME NEW c \in Calls, PartialResult(c) \/ Redelivery(c)
        PROVE  terminal'[s] # None /\ terminal'[s].state = "exited"
    <3>1. CASE PartialResult(c)
      <4>1. PICK chunk \in Chunks \cup {None}, dropped \in BOOLEAN :
               Partial(c, [time |-> partials', chunk |-> chunk], dropped)
        BY <3>1 DEF PartialResult
      <4>2. [time |-> partials', chunk |-> chunk] \in Delivery
        BY <1>1 DEF ToolInv, Delivery
      <4> QED  BY <2>4, <4>1, <4>2
    <3>2. CASE Redelivery(c)
      <4>1. sent[c].last # None /\ Partial(c, sent[c].last, FALSE)
        BY <3>2 DEF Redelivery
      <4>2. sent[c].last \in Delivery
        BY <1>1, <4>1, RecordTypes DEF ToolInv, TypeOK
      <4> QED  BY <2>4, <4>1, <4>2
    <3> QED  BY <2>5, <3>1, <3>2
  <2>6. ASSUME NEW c \in Calls, NEW e \in Completion, Complete(c, e)
        PROVE  terminal'[s] # None /\ terminal'[s].state = "exited"
    <3> DEFINE call == invocation[c]
               x == ShellOf(call, e)
               left == Left(Joined(x, c), c, call, e)
    <3>1. \/ terminal' = terminal
          \/ /\ x # None /\ call # None
             /\ terminal' = [terminal EXCEPT ![x] = left]
      BY <2>6 DEF Complete
    <3>2. CASE call # None /\ x = s /\ terminal' = [terminal EXCEPT ![x] = left]
      <4> DEFINE j == Joined(s, c)
      <4>1. call \in Invocation
        BY <1>1, <3>2 DEF ToolInv, TypeOK
      <4>2. terminal'[s] = Left(j, c, call, e)
        BY <2>1, <3>2
      <4>4. j \in Terminal /\ j.state = "exited"
        BY <2>2
      <4> HIDE DEF j, call
      <4>5. ShellShown(c, call, j, e) \in Shown
        BY <4>1, <4>4, RecordTypes, ShellShownIsShown
      <4> QED  BY <4>2, <4>4, <4>5, LeftIs, NotNone
    <3>3. CASE terminal' = terminal
      BY <2>1, <3>3
    <3>4. CASE x # s /\ terminal' = [terminal EXCEPT ![x] = left]
      <4> HIDE DEF x, left
      <4> QED  BY <2>1, <3>4
    <3> QED  BY <3>1, <3>2, <3>3, <3>4
  <2>7. ASSUME Abort
        PROVE  terminal'[s] # None /\ terminal'[s].state = "exited"
    <3>1. terminal'[s] = CancelledShell(t)
      BY <2>7 DEF Abort
    <3> QED  BY <2>1, <3>1 DEF CancelledShell
  <2>8. ASSUME NEW failed \in SUBSET (Calls \cup Shells), Restart(failed)
        PROVE  terminal'[s] # None /\ terminal'[s].state = "exited"
    <3> DEFINE text == Recovered(s, t.text, failed)
    <3>1. CancelledShell(t) = t
      BY <2>1 DEF CancelledShell
    <3>2. terminal'[s] = [t EXCEPT !.text = text]
      BY <2>1, <2>8, <3>1 DEF Restart
    <3> HIDE DEF t
    <3>3. text \in Shown
      BY <1>1, <2>1, RecordTypes, RecoveredIs DEF ToolInv, TypeOK
    <3> HIDE DEF text
    <3>4. [t EXCEPT !.text = text] \in Terminal /\ [t EXCEPT !.text = text].state = t.state
      BY <2>1, <3>3 DEF Terminal
    <3> QED  BY <2>1, <3>2, <3>4, NotNone
  <2>9. ASSUME NEW k \in Calls \cup Shells, NEW before \in 1..Len(stream[k]),
               LoadOutput(k, before)
        PROVE  terminal'[s] # None /\ terminal'[s].state = "exited"
    <3> DEFINE start == IF before > Window THEN before - Window ELSE 0
               shown == Prepended(k, terminal[k].text, start, before)
    <3>1. \/ terminal' = terminal
          \/ k \in Shells /\ terminal[k] # None
             /\ terminal' = [terminal EXCEPT ![k].text = Prepended(k, @, start, before)]
      BY <2>9 DEF LoadOutput
    <3>2. start \in Nat
      BY ToolOutputAssumption, LenProperties
    <3> HIDE DEF start
    <3>3. CASE k = s /\ terminal' = [terminal EXCEPT ![k].text = Prepended(k, @, start, before)]
      <4>1. t.text \in Shown /\ stream[k] \in Text
        BY <1>1, <2>1, RecordTypes DEF ToolInv, TypeOK
      <4>2. Prepended(k, t.text, start, before) \in Shown
        BY <3>2, <4>1, PrependedIsEnd
      <4>3. terminal'[s] = [t EXCEPT !.text = Prepended(k, t.text, start, before)]
        BY <2>1, <3>3
      <4> HIDE DEF t
      <4> DEFINE text == Prepended(k, t.text, start, before)
      <4> HIDE DEF text
      <4>4. [t EXCEPT !.text = text] \in Terminal /\ [t EXCEPT !.text = text].state = t.state
        BY <2>1, <4>2 DEF Terminal, text
      <4> QED  BY <2>1, <4>3, <4>4, NotNone DEF text
    <3>4. CASE terminal' = terminal
      BY <2>1, <3>4
    <3>5. CASE k # s /\ terminal' = [terminal EXCEPT ![k].text = Prepended(k, @, start, before)]
      BY <2>1, <3>5
    <3> QED  BY <3>1, <3>3, <3>4, <3>5
  <2>10. CASE UNCHANGED vars
    BY <2>1, <2>10 DEF vars
  <2> QED  BY <1>1, <2>3, <2>5, <2>6, <2>7, <2>8, <2>9, <2>10 DEF Next
<1>2. ToolInv /\ ToolInv' /\ [Next]_vars => [Kept]_vars
  BY <1>1
<1> HIDE DEF Kept
<1>3. Spec => [][Kept]_vars
  BY <1>2, ToolOutputInvariant, PTL DEF Spec
<1> QED  BY <1>3 DEF ExitIsFinal, Kept
=============================================================================
