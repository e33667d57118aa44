------------------------------ MODULE JsonText ------------------------------
(***************************************************************************)
(* The text of the JSON library (OzCommon/json/cJSON.c): cJSON_Parse,      *)
(* cJSON_Print and cJSON_Minify, for memory that does not run out.         *)
(*                                                                         *)
(* A text is the sequence of its bytes, without the terminating zero; an   *)
(* item is a record with the sequence of its children.  A number is an     *)
(* integer: fractions, exponents and what does not fit an int are left     *)
(* out.  Every member of an object has a name, perhaps an empty one.       *)
(***************************************************************************)
EXTENDS Codecs

Quote == 34
Comma == 44
Minus == 45
Slash == 47
Star == 42
Colon == 58
OpenArray == 91
Backslash == 92
CloseArray == 93
OpenObject == 123
CloseObject == 125
Newline == 10
Tab == 9

Null == <<110, 117, 108, 108>>
False == <<102, 97, 108, 115, 101>>
True == <<116, 114, 117, 101>>

(* The letter behind the backslash of a control character. *)
Letters == {<<8, 98>>, <<12, 102>>, <<10, 110>>, <<13, 114>>, <<9, 116>>}

Item(type) ==
  [type |-> type, valueint |-> 0, valuestring |-> <<>>, string |-> <<>>, child |-> <<>>]

(* The member of a set that has one.  The({F(x) : x \in {e}}) is F(e), with *)
(* e evaluated, and counted by TLC's coverage, once.                        *)
The(S) == CHOOSE x \in S : TRUE

-----------------------------------------------------------------------------
(* Parsing.  A parser returns where its text ends and the item, or, when   *)
(* it refuses, end 0 and the place of the error, ep; fits tells if what it *)
(* allocated for strings was enough.                                       *)

Parsed(end, item, fits) ==
  [end |-> end, item |-> item, ep |-> 0, fits |-> fits, inside |-> TRUE]

Refused(ep) == [Parsed(0, Item("none"), TRUE) EXCEPT !.ep = ep]

(* It went past the terminating zero: what it does then depends on what is *)
(* in the memory behind the text.                                          *)
Outside == [Refused(0) EXCEPT !.inside = FALSE]

(* Mutation: a space and a newline only. *)
SkipTwo(s, i) ==
  CHOOSE j \in i..(Len(s) + 1) :
    /\ \A k \in i..(j - 1) : s[k] \in {Space, Newline}
    /\ At(s, j) \notin {Space, Newline}

skip(s, i) ==
  CHOOSE j \in i..(Len(s) + 1) :
    /\ \A k \in i..(j - 1) : s[k] <= 32
    /\ At(s, j) > 32 \/ j = Len(s) + 1

StartsWith(s, i, word) == \A k \in DOMAIN word : At(s, i + k - 1) = word[k]

(* parse_number, for an integer. *)
parse_number(s, i) ==
  LET first == IF s[i] = Minus THEN i + 1 ELSE i
      zero == IF At(s, first) = 48 THEN first + 1 ELSE first
      end == IF At(s, zero) \notin 49..57 THEN zero
             ELSE CHOOSE j \in zero..(Len(s) + 1) :
                    (\A k \in zero..(j - 1) : s[k] \in Digits) /\ At(s, j) \notin Digits
      n == FoldLeft(LAMBDA v, c : v * 10 + (c - 48), 0, SubSeq(s, zero, end - 1))
  IN Parsed(end, [Item("Number") EXCEPT !.valueint = IF s[i] = Minus THEN -n ELSE n], TRUE)

(* parse_hex4: 0 unless there are four digits. *)
parse_hex4(s, i) ==
  IF \A k \in i..(i + 3) : At(s, k) \in Digits \cup 65..70 \cup 97..102
  THEN FoldLeft(LAMBDA v, c : v * 16 + FromHex(c), 0, SubSeq(s, i, i + 3))
  ELSE 0

(* The n-th byte from the last of a code point, six bits in each. *)
Continuation(uc, n) == 128 + ((uc \div 64^(n - 1)) % 64)

(* Mutation: the limit of the two-byte form is off by one. *)
Utf8Late(uc) ==
  CASE uc < 128 -> <<uc>>
    [] uc \in 128..2048 -> <<192 + uc \div 64, Continuation(uc, 1)>>
    [] uc \in 2049..65535 -> <<224 + uc \div 4096, Continuation(uc, 2), Continuation(uc, 1)>>
    [] uc > 65535 -> <<240 + uc \div 262144, Continuation(uc, 3), Continuation(uc, 2),
                       Continuation(uc, 1)>>

Utf8(uc) ==
  CASE uc < 128 -> <<uc>>
    [] uc \in 128..2047 -> <<192 + uc \div 64, Continuation(uc, 1)>>
    [] uc \in 2048..65535 -> <<224 + uc \div 4096, Continuation(uc, 2), Continuation(uc, 1)>>
    [] uc > 65535 -> <<240 + uc \div 262144, Continuation(uc, 3), Continuation(uc, 2),
                       Continuation(uc, 1)>>

(* \u at the backslash i: the bytes it stands for, and where it ends.  Zero *)
(* and a half of a surrogate pair stand for nothing.                       *)
Unicode(s, i) ==
  LET uc == parse_hex4(s, i + 2)
      uc2 == parse_hex4(s, i + 8)
      High == uc \in 55296..56319
      Pair == At(s, i + 6) = Backslash /\ At(s, i + 7) = 117
  IN CASE uc = 0 \/ uc \in 56320..57343 -> [out |-> <<>>, end |-> i + 6]
       [] High /\ ~Pair -> [out |-> <<>>, end |-> i + 6]
       [] High /\ Pair /\ uc2 \notin 56320..57343 -> [out |-> <<>>, end |-> i + 12]
       [] High /\ Pair /\ uc2 \in 56320..57343 ->
            [out |-> Utf8(65536 + (uc - 55296) * 1024 + (uc2 - 56320)), end |-> i + 12]
       [] OTHER -> [out |-> Utf8(uc), end |-> i + 6]

(* The character at i, or the escape there. *)
Character(s, i) ==
  LET c == At(s, i + 1) IN
  CASE s[i] # Backslash -> [out |-> <<s[i]>>, end |-> i + 1]
    [] s[i] = Backslash /\ c = 117 -> Unicode(s, i)
    [] s[i] = Backslash /\ \E l \in Letters : l[2] = c ->
         [out |-> <<(CHOOSE l \in Letters : l[2] = c)[1]>>, end |-> i + 2]
    [] OTHER -> [out |-> <<c>>, end |-> i + 2]

RECURSIVE Unescaped(_, _, _), Counted(_, _, _)

(* What the second loop of parse_string writes, and where it ends: at the  *)
(* closing quote, at the end of the text, or behind it.                    *)
Unescaped(s, i, out) ==
  IF At(s, i) \in {Quote, 0} THEN [out |-> out, end |-> i]
  ELSE LET c == Character(s, i) IN Unescaped(s, c.end, out \o c.out)

(* What its first loop counts, and where it ends: an escape, \u as well,   *)
(* is a backslash with one byte behind it there.                           *)
Counted(s, i, len) ==
  IF At(s, i) \in {Quote, 0} THEN [len |-> len, end |-> i]
  ELSE Counted(s, IF s[i] = Backslash THEN i + 2 ELSE i + 1, len + 1)

StringRead(s, c, n) ==
  IF c.end > Len(s) + 1 \/ n.end > Len(s) + 1 THEN Outside
  ELSE Parsed(IF At(s, c.end) = Quote THEN c.end + 1 ELSE c.end,
              [Item("String") EXCEPT !.valuestring = c.out],
              Len(c.out) <= n.len)

parse_string(s, i) ==
  IF At(s, i) # Quote THEN Refused(i)
  ELSE The({StringRead(s, c, Counted(s, i + 1, 0)) : c \in {Unescaped(s, i + 1, <<>>)}})

RECURSIVE parse_value(_, _), parse_members(_, _, _)

MemberRead(name, value) ==
  IF value.end = 0 THEN value
  ELSE Parsed(value.end, [value.item EXCEPT !.string = name.item.valuestring],
              name.fits /\ value.fits)

AfterName(s, name, colon) ==
  CASE name.end = 0 -> name
    [] name.end # 0 /\ At(s, colon) # Colon -> Refused(colon)
    [] OTHER -> The({MemberRead(name, value) : value \in {parse_value(s, skip(s, colon + 1))}})

(* A member of an object at i: its name, a colon and its value. *)
Member(s, i) ==
  The({AfterName(s, name, skip(s, name.end)) : name \in {parse_string(s, skip(s, i))}})

Closing(list) == IF list.item.type = "Array" THEN CloseArray ELSE CloseObject

Longer(list, next, end) ==
  Parsed(end, [list.item EXCEPT !.child = Append(@, next.item)], list.fits /\ next.fits)

(* What they do behind the item next, which text follows. *)
AfterItem(s, list, next, after) ==
  CASE next.end = 0 -> next
    [] next.end # 0 /\ At(s, after) = Comma ->
         parse_members(s, after + 1, Longer(list, next, after + 1))
    [] next.end # 0 /\ At(s, after) = Closing(list) -> Longer(list, next, after + 1)
    [] OTHER -> Refused(after)

(* The loops of parse_array and parse_object, from i on, for the list that *)
(* was read so far.                                                        *)
parse_members(s, i, list) ==
  The({AfterItem(s, list, next, skip(s, next.end)) :
         next \in {IF list.item.type = "Array" THEN parse_value(s, skip(s, i))
                  ELSE Member(s, i)}})

(* parse_array, parse_object: a list that closes at once is empty. *)
parse_list(s, i, type) ==
  LET first == skip(s, i + 1)
      empty == Parsed(first + 1, Item(type), TRUE)
  IN IF At(s, first) = Closing(empty) THEN empty ELSE parse_members(s, first, empty)

parse_value(s, i) ==
  CASE StartsWith(s, i, Null) -> Parsed(i + 4, Item("NULL"), TRUE)
    [] StartsWith(s, i, False) -> Parsed(i + 5, Item("False"), TRUE)
    [] StartsWith(s, i, True) -> Parsed(i + 4, [Item("True") EXCEPT !.valueint = 1], TRUE)
    [] At(s, i) = Quote -> parse_string(s, i)
    [] At(s, i) \in {Minus} \cup Digits -> parse_number(s, i)
    [] At(s, i) = OpenArray -> parse_list(s, i, "Array")
    [] At(s, i) = OpenObject -> parse_list(s, i, "Object")
    [] OTHER -> Refused(i)

ToTheEnd(s, value, end) ==
  CASE value.end = 0 -> value
    [] value.end # 0 /\ end = Len(s) + 1 -> [value EXCEPT !.end = end]
    [] OTHER -> Refused(end)

(* With require_null_terminated nothing but space may follow the value. *)
cJSON_ParseWithOpts(s, require_null_terminated) ==
  The({IF require_null_terminated THEN ToTheEnd(s, value, skip(s, value.end)) ELSE value :
       value \in {parse_value(s, skip(s, 1))}})

-----------------------------------------------------------------------------
(* Printing.  A printer returns the text, and if what was allocated for it *)
(* and for its parts was enough, the terminating zero included.            *)

Printed(out, allocated) == [out |-> out, fits |-> Len(out) + 1 <= allocated]

Hex(d) == IF d < 10 THEN 48 + d ELSE 87 + d

Escaped(c) ==
  CASE \E l \in Letters : l[1] = c -> <<Backslash, (CHOOSE l \in Letters : l[1] = c)[2]>>
    [] c \in {Quote, Backslash} -> <<Backslash, c>>
    [] c < 32 /\ ~\E l \in Letters : l[1] = c ->
         <<Backslash, 117, 48, 48, Hex(c \div 16), Hex(c % 16)>>
    [] OTHER -> <<c>>

(* What the first loop of print_string_ptr counts for a character. *)
Counts(c) ==
  CASE c \in {Quote, Backslash, 8, 9, 10, 12, 13} -> 2
    [] c < 32 /\ c \notin {8, 9, 10, 12, 13} -> 6
    [] OTHER -> 1

Total(numbers) == FoldLeft(LAMBDA a, b : a + b, 0, numbers)

print_string_ptr(str) ==
  Printed(<<Quote>> \o FlattenSeq([i \in DOMAIN str |-> Escaped(str[i])]) \o <<Quote>>,
          Total([i \in DOMAIN str |-> Counts(str[i])]) + 3)

(* print_number, for an integer. *)
print_number(n) ==
  LET abs == IF n < 0 THEN -n ELSE n
      digits[k \in Nat] == IF k < 10 THEN <<48 + k>> ELSE Append(digits[k \div 10], 48 + (k % 10))
  IN Printed((IF n < 0 THEN <<Minus>> ELSE <<>>) \o digits[abs], 21)

Tabs(n) == [k \in 1..n |-> Tab]

If(fmt, n) == IF fmt THEN n ELSE 0

(* The parts, with a separator between two of them. *)
Separated(parts, separator) ==
  FlattenSeq([k \in DOMAIN parts |->
                IF k = Len(parts) THEN parts[k] ELSE parts[k] \o separator])

RECURSIVE print_value(_, _, _)

print_array(item, depth, fmt) ==
  LET entries == [k \in DOMAIN item.child |-> print_value(item.child[k], depth + 1, fmt)]
      len == 5 + Total([k \in DOMAIN entries |-> Len(entries[k].out) + 2 + If(fmt, 1)])
      array == Printed(<<OpenArray>>
                         \o Separated([k \in DOMAIN entries |-> entries[k].out],
                                      IF fmt THEN <<Comma, Space>> ELSE <<Comma>>)
                         \o <<CloseArray>>,
                       IF entries = <<>> THEN 3 ELSE len)
  IN [array EXCEPT !.fits = @ /\ \A k \in DOMAIN entries : entries[k].fits]

(* Mutation: the tabs before a member are not counted. *)
UncountedTabs(names, entries, depth, fmt) ==
  7 + If(fmt, depth)
    + Total([k \in DOMAIN names |-> Len(entries[k].out) + Len(names[k].out) + 2 + If(fmt, 2)])

(* What print_object allocates; depth is that of the members. *)
ObjectSize(names, entries, depth, fmt) ==
  7 + If(fmt, depth)
    + Total([k \in DOMAIN names |->
               Len(entries[k].out) + Len(names[k].out) + 2 + If(fmt, 2 + depth)])

print_object(item, depth, fmt) ==
  LET names == [k \in DOMAIN item.child |-> print_string_ptr(item.child[k].string)]
      entries == [k \in DOMAIN item.child |-> print_value(item.child[k], depth + 1, fmt)]
      line(k) == (IF fmt THEN Tabs(depth + 1) ELSE <<>>) \o names[k].out
                   \o (IF fmt THEN <<Colon, Tab>> ELSE <<Colon>>) \o entries[k].out
      lines == Separated([k \in DOMAIN names |-> line(k)],
                         IF fmt THEN <<Comma, Newline>> ELSE <<Comma>>)
      object == Printed(<<OpenObject>>
                          \o (IF fmt THEN <<Newline>> ELSE <<>>)
                          \o lines
                          \o (IF fmt /\ names # <<>> THEN <<Newline>> ELSE <<>>)
                          \o (IF fmt THEN Tabs(IF names = <<>> THEN depth - 1 ELSE depth) ELSE <<>>)
                          \o <<CloseObject>>,
                        IF names = <<>> THEN 3 + If(fmt, depth + 1)
                        ELSE ObjectSize(names, entries, depth + 1, fmt))
  IN [object EXCEPT !.fits = @ /\ \A k \in DOMAIN names : names[k].fits /\ entries[k].fits]

print_value(item, depth, fmt) ==
  CASE item.type = "NULL" -> Printed(Null, 5)
    [] item.type = "False" -> Printed(False, 6)
    [] item.type = "True" -> Printed(True, 5)
    [] item.type = "Number" -> print_number(item.valueint)
    [] item.type = "String" -> print_string_ptr(item.valuestring)
    [] item.type = "Array" -> print_array(item, depth, fmt)
    [] item.type = "Object" -> print_object(item, depth, fmt)

(* cJSON_Print, cJSON_PrintUnformatted. *)
cJSON_Print(item) == print_value(item, 0, TRUE)

cJSON_PrintUnformatted(item) == print_value(item, 0, FALSE)

-----------------------------------------------------------------------------
(* cJSON_Minify.                                                           *)

(* Where the comment or the string that starts at i ends. *)
LineEnd(s, i) ==
  CHOOSE j \in i..(Len(s) + 1) :
    At(s, j) \in {Newline, 0} /\ \A k \in i..(j - 1) : s[k] # Newline

CommentEnd(s, i) ==
  CHOOSE j \in i..(Len(s) + 1) :
    /\ (At(s, j) = Star /\ At(s, j + 1) = Slash) \/ j = Len(s) + 1
    /\ \A k \in i..(j - 1) : ~(s[k] = Star /\ At(s, k + 1) = Slash)

RECURSIVE StringEnd(_, _), Minified(_, _)

(* Mutation: a backslash does not hide the quote behind it. *)
FirstQuote(s, i) ==
  CHOOSE j \in i..(Len(s) + 1) :
    At(s, j) \in {Quote, 0} /\ \A k \in i..(j - 1) : s[k] # Quote

StringEnd(s, i) ==
  IF At(s, i) \in {Quote, 0} THEN i
  ELSE StringEnd(s, IF s[i] = Backslash THEN i + 2 ELSE i + 1)

(* In place of what it takes from the memory behind the text, once it went *)
(* past the terminating zero.                                              *)
Unknown == -1

(* What is left of the text from i on.  A comment and a string that do not *)
(* end take the function past the zero; it copies that of a string.        *)
Minified(s, i) ==
  CASE i > Len(s) -> <<>>
    [] At(s, i) \in {Space, Tab, 13, Newline} -> Minified(s, i + 1)
    [] At(s, i) = Slash /\ At(s, i + 1) = Slash -> Minified(s, LineEnd(s, i))
    [] At(s, i) = Slash /\ At(s, i + 1) = Star ->
         LET end == CommentEnd(s, i)
         IN IF end > Len(s) THEN <<Unknown>> ELSE Minified(s, end + 2)
    [] At(s, i) = Quote ->
         LET end == StringEnd(s, i + 1)
         IN IF end > Len(s) THEN SubSeq(s, i, Len(s)) \o <<0, Unknown>>
            ELSE SubSeq(s, i, end) \o Minified(s, end + 1)
    [] OTHER -> <<s[i]>> \o Minified(s, i + 1)

cJSON_Minify(json) == Minified(json, 1)
=============================================================================
