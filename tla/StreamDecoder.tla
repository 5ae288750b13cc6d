--------------------------- MODULE StreamDecoder ---------------------------
(***************************************************************************)
(* Dsv4StreamDecoder and its two Utf8Chunkers: token ids in, text deltas   *)
(* out.  A token decodes to bytes that may end inside a code point; the    *)
(* chunker of the current channel holds such a tail back.  The thinking    *)
(* marker moves from the reasoning to the content channel.                 *)
(*                                                                         *)
(* A delta's text is kept as the sequence of code points it was made of.   *)
(***************************************************************************)
EXTENDS Integers, Sequences, SequencesExt

CONSTANTS
    TextTokens,     \* what the text tokens decode to: byte sequences
    MaxTokens       \* bound: tokens of one reply

ThinkEnd == <<-1>>
End == <<-2>>

VARIABLES
    channel,        \* channel_
    held,           \* held_ of the reasoning and of the content chunker
    deltas,         \* every TextDelta emitted
    reply,          \* the tokens so far
    done            \* finish was called

vars == <<channel, held, deltas, reply, done>>

Channels == {"reasoning", "content"}
Replacement == <<239, 191, 189>>

-----------------------------------------------------------------------------
SequenceLength(lead) ==
    CASE lead \in 194 .. 223 -> 2
      [] lead \in 224 .. 239 -> 3
      [] lead \in 240 .. 244 -> 4
      [] OTHER -> 0

ContinuationOk(lead, k, byte) ==
    byte \in CASE k = 1 /\ lead = 224 -> 160 .. 191
               [] k = 1 /\ lead = 237 -> 128 .. 159
               [] k = 1 /\ lead = 240 -> 144 .. 191
               [] k = 1 /\ lead = 244 -> 128 .. 143
               [] OTHER -> 128 .. 191

\* Utf8Chunker::push on the held bytes and the new ones: the complete code
\* points, each bad byte replaced on its own, and the incomplete tail.
Scan(buffer) ==
    LET n == Len(buffer)
        Before(item, rest) == [rest EXCEPT !.out = <<item>> \o @]
        from[i \in 1 .. n + 1] ==
            IF i > n THEN [out |-> <<>>, held |-> <<>>]
            ELSE LET lead == buffer[i]
                     length == SequenceLength(lead)
                     last == IF i + length - 1 < n THEN i + length - 1 ELSE n
                     valid == \A j \in i + 1 .. last : ContinuationOk(lead, j - i, buffer[j])
                 IN IF lead < 128 THEN Before(<<lead>>, from[i + 1])
                    ELSE IF length = 0 \/ ~valid THEN Before(Replacement, from[i + 1])
                    ELSE IF last < i + length - 1
                         THEN [out |-> <<>>, held |-> SubSeq(buffer, i, n)]
                    ELSE Before(SubSeq(buffer, i, last), from[last + 1])
    IN from[1]

\* Utf8Chunker::flush.
Flushed(tail) == IF tail = <<>> THEN <<>> ELSE <<Replacement>>

Emit(text) ==
    deltas' = IF text = <<>> THEN deltas ELSE Append(deltas, [channel |-> channel, text |-> text])

-----------------------------------------------------------------------------
Init ==
    /\ channel \in Channels
    /\ held = [c \in Channels |-> <<>>]
    /\ deltas = <<>> /\ reply = <<>> /\ done = FALSE

Receive(token) ==
    /\ ~done /\ Len(reply) < MaxTokens
    /\ ~Contains(reply, End)
    /\ reply' = Append(reply, token)

(* Mutant: the tail of the last token is dropped. *)
ForgetsTail(token) ==
    /\ Receive(token)
    /\ held' = [held EXCEPT ![channel] = Scan(token).held]
    /\ Emit(Scan(token).out)
    /\ UNCHANGED <<channel, done>>

\* push of a text token.
PushText(token) ==
    /\ Receive(token)
    /\ LET scan == Scan(held[channel] \o token)
       IN /\ held' = [held EXCEPT ![channel] = scan.held]
          /\ Emit(scan.out)
    /\ UNCHANGED <<channel, done>>

\* push of the thinking-end token: the marker itself is emitted nowhere.
PushThinkEnd ==
    /\ Receive(ThinkEnd)
    /\ Emit(Flushed(held[channel]))
    /\ held' = [held EXCEPT ![channel] = <<>>]
    /\ channel' = "content"
    /\ UNCHANGED done

PushEos ==
    /\ Receive(End)
    /\ UNCHANGED <<channel, held, deltas, done>>

\* The reply ended, on EOS or on its length.
Finish ==
    /\ ~done /\ done' = TRUE
    /\ Emit(Flushed(held[channel]))
    /\ held' = [held EXCEPT ![channel] = <<>>]
    /\ UNCHANGED <<channel, reply>>

Next == (\E token \in TextTokens : PushText(token)) \/ PushThinkEnd \/ PushEos \/ Finish

Spec == Init /\ [][Next]_vars

-----------------------------------------------------------------------------
(* The reference: the well-formed code points of the Unicode standard. *)
Tail80 == 128 .. 191
WellFormedRows ==
    {<<0 .. 127>>, <<194 .. 223, Tail80>>,
     <<{224}, 160 .. 191, Tail80>>, <<225 .. 236, Tail80, Tail80>>,
     <<{237}, 128 .. 159, Tail80>>, <<238 .. 239, Tail80, Tail80>>,
     <<{240}, 144 .. 191, Tail80, Tail80>>, <<241 .. 243, Tail80, Tail80, Tail80>>,
     <<{244}, 128 .. 143, Tail80, Tail80>>}

Fits(s, row) == Len(s) <= Len(row) /\ \A i \in DOMAIN s : s[i] \in row[i]
WellFormed(s) == \E row \in WellFormedRows : Len(s) = Len(row) /\ Fits(s, row)
Truncated(s) == s # <<>> /\ \E row \in WellFormedRows : Len(s) < Len(row) /\ Fits(s, row)

\* What a whole text decodes to; its truncated end, if any, is one replacement
\* when the text is over and nothing while it may still go on.
Decoded(text, over) ==
    LET n == Len(text)
        from[i \in 1 .. n + 1] ==
            IF i > n THEN <<>>
            ELSE IF Truncated(SubSeq(text, i, n))
                 THEN IF over THEN <<Replacement>> ELSE <<>>
            ELSE IF \E j \in i .. n : WellFormed(SubSeq(text, i, j))
                 THEN LET j == CHOOSE j \in i .. n : WellFormed(SubSeq(text, i, j))
                      IN <<SubSeq(text, i, j)>> \o from[j + 1]
            ELSE <<Replacement>> \o from[i + 1]
    IN from[1]

Bytes(tokens) == FlattenSeq(SelectSeq(tokens, LAMBDA t : t \notin {ThinkEnd, End}))

Marks == {i \in DOMAIN reply : reply[i] = ThinkEnd}

\* The texts between the markers: each is decoded on its own.
Parts ==
    LET cuts == SetToSortSeq(Marks \union {0, Len(reply) + 1}, <)
    IN [k \in 1 .. Len(cuts) - 1 |->
          Decoded(Bytes(SubSeq(reply, cuts[k] + 1, cuts[k + 1] - 1)), done \/ k < Len(cuts) - 1)]

Streamed(c) ==
    FlattenSeq([i \in DOMAIN deltas |-> IF deltas[i].channel = c THEN deltas[i].text ELSE <<>>])

-----------------------------------------------------------------------------
\* Types: an unfinished chunker holds at most three bytes.
TypeOK ==
    /\ channel \in Channels
    /\ \A c \in Channels : Len(held[c]) <= 3
    /\ \A i \in DOMAIN deltas : deltas[i].text # <<>>

\* "Only a valid but truncated prefix is ever held, so one replacement is the
\* whole of it" (flush), and only by the channel being written.
HeldIsTruncated ==
    \A c \in Channels : held[c] # <<>> => c = channel /\ Truncated(held[c])

\* However the bytes were split into tokens, what was streamed is what the whole
\* text decodes to: nothing is lost, doubled or replaced at a token boundary.
ReassemblesText == Streamed("reasoning") \o Streamed("content") = FlattenSeq(Parts)

\* No delta returns to the reasoning channel.
ContentLast ==
    \A i, j \in DOMAIN deltas :
        i < j /\ deltas[i].channel = "content" => deltas[j].channel = "content"
============================================================================
