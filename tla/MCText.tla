------------------------------- MODULE MCText -------------------------------
(***************************************************************************)
(* The text functions (JsonText, Codecs) for TLC: JSON texts are put       *)
(* together from tokens, and strings for the encodings from bytes.         *)
(***************************************************************************)
EXTENDS JsonText, CodecText, TLC

CONSTANTS
  MaxTokens  \* bound on the tokens of a text

VARIABLES
  tokens  \* the JSON text

vars == <<tokens, bytes>>

-----------------------------------------------------------------------------
Text(ts) == FlattenSeq(ts)

Letter == <<Quote, 97, Quote>>
(* A zero in front, and no digit at all: cJSON takes both for numbers. *)
Number == <<Minus, 48, 49, 50, Space>>
Dash == <<Minus, Space>>
(* "\u00e9\n\"\u0001\r" *)
Escapes == <<Quote, Backslash, 117, 48, 48, 101, 57, Backslash, 110, Backslash, Quote,
             Backslash, 117, 48, 48, 48, 49, Backslash, 114, Quote>>
(* "// \u0800\uD83D\uDE00\uDE00\uD83D\u0041\u12G4\q\uD800" *)
Pairs == <<Quote, Slash, Slash, Space, Backslash, 117, 48, 56, 48, 48, Backslash, 117, 68, 56, 51,
           68, Backslash, 117, 68, 69, 48, 48, Backslash, 117, 68, 69, 48, 48, Backslash, 117, 68,
           56, 51, 68, Backslash, 117, 48, 48, 52, 49, Backslash, 117, 49, 50, 71, 52, Backslash,
           113, Backslash, 117, 68, 56, 48, 48, Quote>>
(* "\u1", whose four characters go on behind the quote. *)
Short == <<Quote, Backslash, 117, 49, Quote>>
(* What does not end: a string, one with a backslash last, and a comment.  *)
Open == <<Quote, 97>>
Unclosed == {Open, <<Quote, Backslash>>, <<Slash, Star, 49>>}

String(s) == [Item("String") EXCEPT !.valuestring = s]

Meaning ==
  Null :> Item("NULL")
  @@ Number :> [Item("Number") EXCEPT !.valueint = -12]
  @@ Dash :> [Item("Number") EXCEPT !.valueint = 0]
  @@ Letter :> String(<<97>>)
  @@ Open :> String(<<97>>)
  @@ Escapes :> String(<<195, 169, 10, 34, 1, 13>>)
  @@ Pairs :> String(<<47, 47, 32, 224, 160, 128, 240, 159, 152, 128, 113>>)

Scalars == DOMAIN Meaning \ {Letter, Open}
Names == {Letter, Escapes, Pairs}
Brackets == {<<OpenArray>>, <<CloseArray>>, <<OpenObject>>, <<CloseObject>>, <<Comma>>, <<Colon>>}
Blank == <<Tab, Newline, Space>>
(* A comment up to the end of the line, and behind it one that has a quote in it. *)
Comment == <<Slash, Slash, 49, Newline, Slash, Star, Quote, Star, Slash>>

(* Texts of many tokens, with lists in lists. *)
ArrayOf(ts) == <<<<OpenArray>>>> \o ts \o <<<<CloseArray>>>>
ObjectOf(n, ts) == <<<<OpenObject>>, n, <<Colon>>>> \o ts \o <<<<CloseObject>>>>
Two(ts) == ts \o <<<<Comma>>>> \o ts
TwoMembers(n, ts) == ObjectOf(n, ts \o <<<<Comma>>, n, <<Colon>>>> \o ts)
Documents ==
  UNION {{ArrayOf(Two(ts)), TwoMembers(Letter, ArrayOf(Two(ts))),
          TwoMembers(Escapes, TwoMembers(Pairs, TwoMembers(Letter, ts))),
          ArrayOf(TwoMembers(Pairs, ArrayOf(ObjectOf(Letter, Two(ts)))))} :
         ts \in {<<Number>>, <<Null>>, <<Escapes>>, ArrayOf(<<>>),
                 <<<<OpenObject>>, <<CloseObject>>>>}}

SomeBytes == {0, 1, Space, Percent, Plus, 51, 65, 122, 127, 195, 255}

Init ==
  /\ tokens \in {<<>>} \cup Documents
  /\ InitBytes

Closed == ToSet(tokens) \cap Unclosed = {}

(* A token that does not end is the last one. *)
AddToken ==
  /\ bytes = <<>> /\ Len(tokens) < MaxTokens /\ Closed
  /\ \E t \in Scalars \cup Brackets \cup {Blank, Comment, Short} \cup Unclosed :
       tokens' = Append(tokens, t)
  /\ UNCHANGED bytes

AddStringByte ==
  /\ tokens = <<>> /\ AddByte
  /\ UNCHANGED tokens

Next == AddToken \/ AddStringByte

Spec == Init /\ [][Next]_vars

-----------------------------------------------------------------------------
(* The grammar of JSON, as the set of the items that tokens denote.  The   *)
(* scalars are what cJSON takes for one, with its meaning: also a number   *)
(* with no digit or a zero in front, \u without four digits, half a        *)
(* surrogate pair, any other escape, and a text that is a string without   *)
(* its closing quote.                                                      *)

RECURSIVE Denoted(_), Elements(_), Members(_)

Cut(ts, k) == SubSeq(ts, k + 1, Len(ts))

Elements(ts) ==
  {<<v>> : v \in Denoted(ts)}
    \cup UNION {{<<v>> \o rest :
                   v \in Denoted(SubSeq(ts, 1, k - 1)), rest \in Elements(Cut(ts, k))} :
                k \in {k \in DOMAIN ts : ts[k] = <<Comma>>}}

NamedBy(n, values) == {[v EXCEPT !.string = Meaning[n].valuestring] : v \in values}

Members(ts) ==
  IF Len(ts) < 3 \/ ts[1] \notin Names \/ ts[2] # <<Colon>> THEN {}
  ELSE {<<v>> : v \in NamedBy(ts[1], Denoted(Cut(ts, 2)))}
         \cup UNION {{<<v>> \o rest : v \in NamedBy(ts[1], Denoted(SubSeq(ts, 3, k - 1))),
                                      rest \in Members(Cut(ts, k))} :
                     k \in {k \in 4..Len(ts) : ts[k] = <<Comma>>}}

Inside(ts) == SubSeq(ts, 2, Len(ts) - 1)

Lists(type, contents) == {[Item(type) EXCEPT !.child = c] : c \in contents}

Denoted(ts) ==
  IF Len(ts) = 0 THEN {}
  ELSE IF Len(ts) = 1 THEN {Meaning[t] : t \in {ts[1]} \cap DOMAIN Meaning}
  ELSE LET first == ts[1]  last == ts[Len(ts)] IN
       CASE first = <<OpenArray>> /\ last = <<CloseArray>> ->
              IF Len(ts) = 2 THEN {Item("Array")} ELSE Lists("Array", Elements(Inside(ts)))
         [] first = <<OpenObject>> /\ last = <<CloseObject>> ->
              IF Len(ts) = 2 THEN {Item("Object")} ELSE Lists("Object", Members(Inside(ts)))
         [] OTHER -> {}

Uncommented == SelectSeq(tokens, LAMBDA t : t \notin {Blank, Comment})

-----------------------------------------------------------------------------
(* Properties.                                                             *)

Parse(text) == cJSON_ParseWithOpts(text, TRUE)

(* Of the texts made of tokens, cJSON_ParseWithOpts, asked for the         *)
(* terminating zero, accepts those that the grammar has with the scalars   *)
(* above, refuses the others, and returns the item the text denotes.       *)
ParsesJson ==
  (\A k \in DOMAIN tokens : tokens[k] \notin {Comment, Short} \cup (Unclosed \ {Open})) =>
    \A value \in {Parse(Text(tokens))} :
      IF Denoted(Uncommented) = {} THEN value.end = 0
      ELSE value.end # 0 /\ Denoted(Uncommented) = {value.item}

(* What cJSON_Print and cJSON_PrintUnformatted write for an item that was  *)
(* parsed is a text of the same item, to its last byte.                    *)
RoundTrip ==
  \A item \in {Parse(Text(tokens)).item} :
    item.type # "none" =>
      \A printed \in {cJSON_Print(item), cJSON_PrintUnformatted(item)} :
        \A again \in {Parse(printed.out)} :
          again.item = item /\ again.end = Len(printed.out) + 1

(* The sizes that the printers compute beforehand are enough for what they *)
(* write, in lists of any depth too.  So is the size of parse_string, and  *)
(* the parser stays inside the text, when no quote is among the four       *)
(* characters of a \u and no backslash is the last byte: parse_string      *)
(* computes the size up to the first quote that no backslash is before,    *)
(* and then takes the four characters without looking at them.             *)
BuffersFit ==
  \A value \in {Parse(Text(tokens))} :
    /\ Short \notin ToSet(tokens) =>
         (ToSet(tokens) \cap Unclosed \subseteq {Open} => value.inside) /\ value.fits
    /\ value.end # 0 => cJSON_Print(value.item).fits /\ cJSON_PrintUnformatted(value.item).fits

(* What a token is without space.                                          *)
Compact(t) == IF t[1] = Quote THEN t ELSE SelectSeq(t, LAMBDA c : c # Space)

(* cJSON_Minify takes all comments and all space between and in the tokens *)
(* out of a text, nothing else, and keeps what it denotes, whatever the    *)
(* strings in it look like; and it stays inside a text whose strings and   *)
(* comments are closed.                                                    *)
MinifyKeepsItem ==
  Closed =>
    \A minified \in {cJSON_Minify(Text(tokens))} :
      /\ minified = Text([k \in DOMAIN Uncommented |-> Compact(Uncommented[k])])
      /\ Denoted(Uncommented) # {} => Denoted(Uncommented) = {Parse(minified).item}
=============================================================================
