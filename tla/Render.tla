------------------------------- MODULE Render -------------------------------
(***************************************************************************)
(* Processor::process and render of src/lib.rs.  A parser pushes tokens    *)
(* (byte ranges of the line with a kind) in any order and possibly         *)
(* overlapping; they are sorted by where they start and the line is copied *)
(* with each token that fits between two escape sequences.  The Processor  *)
(* and its token buffer, and the output buffer, are used again for every   *)
(* line.                                                                   *)
(*                                                                         *)
(* The output is a sequence of fragments: bytes from .. to - 1 of the      *)
(* line, plain or inside the escapes of a token kind.                      *)
(***************************************************************************)
EXTENDS Naturals, Sequences

CONSTANTS
    Kinds,          \* TokenKind
    Plain,          \* no escape sequences
    LineLengths,    \* the lengths of lines
    TokenLists      \* what a parser may push for a line

Tokens == {t \in [start : Nat, end : Nat, kind : Kinds] : t.start <= t.end}

ASSUME RenderAssumption ==
    /\ Plain \notin Kinds
    /\ LineLengths \subseteq Nat
    /\ TokenLists \subseteq Seq(Tokens)

VARIABLES
    length,         \* the length of the line
    color,          \* whether escapes are wanted
    tokens,         \* Processor.tokens
    next,           \* the next token of render's loop
    cursor,         \* how much of the line has been copied
    output,         \* the fragments in the output buffer
    stage           \* "idle" between lines, "rendering" in the loop

renderVars == <<length, color, tokens, next, cursor, output, stage>>

Fragment(from, to, kind) == [from |-> from, to |-> to, kind |-> kind]

RenderInit ==
    /\ length = 0
    /\ color \in BOOLEAN
    /\ tokens = << >>
    /\ next = 1
    /\ cursor = 0
    /\ output = << >>
    /\ stage = "idle"

ByStart(list) ==
    \A i \in 1 .. Len(list) - 1 : list[i].start <= list[i + 1].start

(* The orders sort_unstable_by_key may leave the tokens in.                *)
SortedOrders(list) ==
    {sorted \in {[i \in DOMAIN list |-> list[order[i]]] :
                     order \in {f \in [DOMAIN list -> DOMAIN list] :
                                    \A i, j \in DOMAIN list :
                                        f[i] = f[j] => i = j}} :
        ByStart(sorted)}

(* Bugs for the runs to find: the tokens are not sorted, or the output of  *)
(* the line before is not cleared.                                         *)
ProcessUnsorted ==
    /\ stage = "idle"
    /\ length' \in LineLengths
    /\ tokens' \in TokenLists
    /\ next' = 1
    /\ cursor' = 0
    /\ output' = << >>
    /\ stage' = "rendering"
    /\ UNCHANGED color
ProcessUncleared ==
    /\ stage = "idle"
    /\ Len(output) < 4
    /\ length' \in LineLengths
    /\ \E list \in TokenLists : tokens' \in SortedOrders(list)
    /\ next' = 1
    /\ cursor' = 0
    /\ stage' = "rendering"
    /\ UNCHANGED <<color, output>>

(* process: clear the tokens, parse the line, sort, and enter render,      *)
(* which clears the output.                                                *)
Process ==
    /\ stage = "idle"
    /\ length' \in LineLengths
    /\ \E list \in TokenLists : tokens' \in SortedOrders(list)
    /\ next' = 1
    /\ cursor' = 0
    /\ output' = << >>
    /\ stage' = "rendering"
    /\ UNCHANGED color

(* Without color the line is copied as it is.                              *)
RenderPlain ==
    /\ stage = "rendering"
    /\ ~color
    /\ output' = Append(output, Fragment(0, length, Plain))
    /\ cursor' = length
    /\ stage' = "idle"
    /\ UNCHANGED <<length, color, tokens, next>>

(* A bug for the runs to find: a token that overlaps the one before is     *)
(* shown.                                                                  *)
FitsOverlapping(t) == ~(t.end > length \/ t.start = t.end)

(* Tokens that begin in what is copied already, reach beyond the line or   *)
(* are empty are passed over.                                              *)
Fits(t) == ~(t.start < cursor \/ t.end > length \/ t.start = t.end)

RenderToken ==
    /\ stage = "rendering"
    /\ color
    /\ next <= Len(tokens)
    /\ LET t == tokens[next]
       IN  IF Fits(t)
           THEN /\ output' = output \o << Fragment(cursor, t.start, Plain),
                                          Fragment(t.start, t.end, t.kind) >>
                /\ cursor' = t.end
           ELSE UNCHANGED <<output, cursor>>
    /\ next' = next + 1
    /\ UNCHANGED <<length, color, tokens, stage>>

(* The rest of the line after the last token.                              *)
RenderTail ==
    /\ stage = "rendering"
    /\ color
    /\ next > Len(tokens)
    /\ output' = Append(output, Fragment(cursor, length, Plain))
    /\ cursor' = length
    /\ stage' = "idle"
    /\ UNCHANGED <<length, color, tokens, next>>

RenderNext ==
    \/ Process
    \/ RenderPlain
    \/ RenderToken
    \/ RenderTail

RenderSpec == RenderInit /\ [][RenderNext]_renderVars

-----------------------------------------------------------------------------

Fragments == [from : Nat, to : Nat, kind : Kinds \cup {Plain}]

(* Type correctness.                                                       *)
RenderTypeOK ==
    /\ length \in Nat
    /\ color \in BOOLEAN
    /\ tokens \in Seq(Tokens)
    /\ next \in Nat \ {0}
    /\ cursor \in 0 .. length
    /\ output \in Seq(Fragments)
    /\ stage \in {"idle", "rendering"}

(* The fragments are adjacent stretches that cover the line up to the      *)
(* cursor, and all of it when it is done: without the escapes the output   *)
(* is the line, byte for byte, whatever tokens the parser pushed.          *)
TextPreserved ==
    /\ \A i \in DOMAIN output : output[i].from <= output[i].to
    /\ \A i \in 1 .. Len(output) - 1 : output[i].to = output[i + 1].from
    /\ IF output = << >> THEN cursor = 0
       ELSE output[1].from = 0 /\ output[Len(output)].to = cursor
    /\ (stage = "idle" => cursor = length)

(* Color is only ever put on tokens of this line, and only when asked for. *)
ColorsAreTokens ==
    \A i \in DOMAIN output :
        output[i].kind # Plain =>
            /\ color
            /\ \E j \in DOMAIN tokens :
                /\ tokens[j] = [start |-> output[i].from, end |-> output[i].to,
                                kind |-> output[i].kind]
                /\ j < next

Shown(t) ==
    \E i \in DOMAIN output :
        output[i] = Fragment(t.start, t.end, t.kind)

(* A token inside the line loses its color only to a shown one that begins *)
(* no later and overlaps it.                                               *)
LosesOnlyToOverlap ==
    color =>
        \A j \in 1 .. next - 1 :
            LET t == tokens[j]
            IN  (t.start < t.end /\ t.end <= length) =>
                    \/ Shown(t)
                    \/ \E k \in 1 .. j - 1 :
                        /\ Shown(tokens[k])
                        /\ tokens[k].start <= t.start
                        /\ t.start < tokens[k].end

=============================================================================
