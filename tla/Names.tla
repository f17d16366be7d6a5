------------------------------- MODULE Names -------------------------------
(***************************************************************************)
(* Names and texts between a plugin, which has UTF-8, and a host, which    *)
(* has UTF-16 in some structures and UTF-8 in others: utf_traits (utf.hpp),*)
(* UTF_copy and UTF_convert (unicode_helpers.hpp), URL_decode and the      *)
(* calls of the factory, the controller and ct_host that use them.         *)
(*                                                                         *)
(* A text is built of pieces: characters, and strays, which are code units *)
(* that spell nothing.  The pieces are what the text says; the code has    *)
(* only its units, and reads one code point of them in each step.          *)
(***************************************************************************)
EXTENDS Integers, Sequences, FiniteSetsExt, SequencesExt

CONSTANTS
    Characters,   \* [code, utf8, utf16]: a code point and its units
    Strays,       \* [utf8, utf16, cut]: units of no character; cut off when
                  \* they begin one
    MaxPieces,    \* bound on the pieces of a text
    Rooms,        \* the sizes of the arrays that are copied to
    Leftovers     \* what is in such an array before, where it is not cleared

Forms == {"utf8", "utf16"}
Unit8 == {u \in Nat : u <= 255}
Unit16 == {u \in Nat : u <= 65535}

ASSUME RoomsAssumption == Rooms \subseteq Nat \ {0} /\ MaxPieces \in Nat

VARIABLES
    pieces,     \* what the text says
    spelling,   \* how an address is written: "literal", "upper" or "lower" escapes
    mail,       \* the support URL begins with mailto:
    typed,      \* a parameter's text is of the host's user, not of the plugin
    room,       \* the size of the arrays of the host's structures
    stage,      \* the call that converts
    text,       \* strX: the units that are read
    pos,        \* itX
    buf,        \* strY
    at,         \* itY
    size        \* sizeY

inputs == <<pieces, spelling, mail, typed, room>>
vars == <<inputs, stage, text, pos, buf, at, size>>

(***************************************************************************)
(* Code points.                                                            *)
(***************************************************************************)

illegal == -1
incomplete == -2

\* No surrogates, nothing past the last plane.
is_valid_codepoint(c) == c <= 1114111 /\ ~(55296 <= c /\ c <= 57343)

\* The number of units that follow a lead unit; -1 when it leads nothing.
trail_length(c) ==
    CASE c < 128 -> 0
      [] 128 <= c /\ c < 194 -> -1
      [] 194 <= c /\ c < 224 -> 1
      [] 224 <= c /\ c < 240 -> 2
      [] 240 <= c /\ c <= 244 -> 3
      [] c > 244 -> -1

is_trail(c) == 128 <= c /\ c < 192

width8(c) == CASE c <= 127 -> 1
               [] 127 < c /\ c <= 2047 -> 2
               [] 2047 < c /\ c <= 65535 -> 3
               [] c > 65535 -> 4
width16(c) == IF c >= 65536 THEN 2 ELSE 1
width(form, c) == IF form = "utf8" THEN width8(c) ELSE width16(c)

\* What decode returns, and where it leaves the iterator.
Read(c, next) == [cp |-> c, next |-> next]

\* Bits of the lead unit, then six of each trail unit.
CodePoint8(s, p, t) ==
    LET low(i) == s[p + i] % 64
    IN  CASE t = 0 -> s[p]
          [] t = 1 -> (s[p] % 32) * 64 + low(1)
          [] t = 2 -> (s[p] % 16) * 4096 + low(1) * 64 + low(2)
          [] t = 3 -> (s[p] % 8) * 262144 + low(1) * 4096 + low(2) * 64 + low(3)

\* An offending unit is consumed with the units before it.
decode8(s, p) ==
    LET t == trail_length(s[p])
        offending == {i \in 1 .. t : p + i <= Len(s) /\ ~is_trail(s[p + i])}
        c == CodePoint8(s, p, t)
    IN  CASE t < 0 -> Read(illegal, p + 1)
          [] t >= 0 /\ offending # {} -> Read(illegal, p + Min(offending) + 1)
          [] t >= 0 /\ offending = {} /\ p + t > Len(s) -> Read(incomplete, Len(s) + 1)
          [] OTHER -> Read(IF is_valid_codepoint(c) /\ width8(c) = t + 1 THEN c ELSE illegal,
                           p + t + 1)

is_first_surrogate(w) == 55296 <= w /\ w <= 56319
is_second_surrogate(w) == 56320 <= w /\ w <= 57343
combine_surrogate(w1, w2) == (w1 % 1024) * 1024 + (w2 % 1024) + 65536

decode16(s, p) ==
    CASE is_second_surrogate(s[p]) -> Read(illegal, p + 1)
      [] is_first_surrogate(s[p]) ->
            IF p = Len(s) THEN Read(incomplete, p + 1)
            ELSE Read(IF is_second_surrogate(s[p + 1])
                      THEN combine_surrogate(s[p], s[p + 1]) ELSE illegal, p + 2)
      [] OTHER -> Read(s[p], p + 1)

decode(form, s, p) ==
    CASE p > Len(s) -> Read(incomplete, p)
      [] p <= Len(s) /\ form = "utf8" -> decode8(s, p)
      [] p <= Len(s) /\ form = "utf16" -> decode16(s, p)

encode8(c) ==
    CASE width8(c) = 1 -> <<c>>
      [] width8(c) = 2 -> <<192 + (c \div 64), 128 + (c % 64)>>
      [] width8(c) = 3 -> <<224 + (c \div 4096), 128 + ((c \div 64) % 64), 128 + (c % 64)>>
      [] width8(c) = 4 -> <<240 + (c \div 262144), 128 + ((c \div 4096) % 64),
                            128 + ((c \div 64) % 64), 128 + (c % 64)>>

encode16(c) ==
    IF c <= 65535 THEN <<c>>
    ELSE <<55296 + ((c - 65536) \div 1024), 56320 + ((c - 65536) % 1024)>>

encode(form, c) == IF form = "utf8" THEN encode8(c) ELSE encode16(c)

\* What texts are made of.  A unit that is not the first of its piece leads
\* nothing; a stray by itself is illegal, or breaks off where units should
\* follow.
IsLoose(form, u) == IF form = "utf8" THEN is_trail(u) ELSE is_second_surrogate(u)

ASSUME CharactersAssumption ==
    \A c \in Characters :
        /\ c.code \in Nat \ {0} /\ is_valid_codepoint(c.code)
        /\ \A form \in Forms : c[form] = encode(form, c.code)
ASSUME StraysAssumption ==
    /\ Strays \cap Characters = {}
    /\ \A s \in Strays :
        /\ s.utf8 \in Seq(Unit8 \ {0}) /\ s.utf16 \in Seq(Unit16 \ {0})
        /\ \A form \in Forms :
            /\ decode(form, s[form], 1).cp = IF s.cut THEN incomplete ELSE illegal
            /\ s[form] # << >> /\ \A i \in 2 .. Len(s[form]) : IsLoose(form, s[form][i])

(***************************************************************************)
(* The calls.  A class name goes from the plugin's descriptor to           *)
(* get_class_info_utf16, from there to get_class_info_2 and from there to  *)
(* get_class_info, each an array with what it held before; the support     *)
(* address is decoded, then copied by get_factory_info.  The text of a     *)
(* parameter's value is copied to the host's array, and a text the host    *)
(* has, this one or another, to an array the plugin reads it from.  The    *)
(* host's own name is measured and converted by ct_host's constructor.     *)
(***************************************************************************)

Copies == {"class_info_utf16", "class_info_2", "class_info", "factory_info",
           "string_for_value", "value_for_string"}

From == IF stage \in {"class_info_2", "value_for_string", "valued", "measure", "fill", "named"}
        THEN "utf16" ELSE "utf8"
Into == IF stage \in {"class_info_utf16", "string_for_value"} THEN "utf16" ELSE "utf8"

\* char display[256], where the host's array is a v3_str_128.
Display == 2 * room

\* Mutant: display is no larger than what it answers.
Room_Host == room

\* The size of the array that is copied to.
Room == IF stage = "value_for_string" THEN Display ELSE room

\* A string in an array ends before its first zero.
UpToNul(units) ==
    SubSeq(units, 1, Min({i \in 1 .. Len(units) : units[i] = 0} \cup {Len(units) + 1}) - 1)

Written(units) == [i \in DOMAIN buf |->
    IF i \in at .. at + Len(units) - 1 THEN units[i - at + 1] ELSE buf[i]]

\* An array that holds the same unit everywhere.
ArrayOf(r, unit) == [i \in 1 .. r |-> unit]

\* A call that copies begins.
Enter(s, units, array) ==
    /\ stage' = s
    /\ text' = units
    /\ buf' = array
    /\ pos' = 1 /\ at' = 1
    /\ UNCHANGED <<inputs, size>>

\* The characters of an escape.
Digit(d, letters) == IF d < 10 THEN 48 + d ELSE letters + d - 10
Escape(u, letters) == <<37, Digit(u \div 16, letters), Digit(u % 16, letters)>>
Escaped(units, letters) == FlattenSeq([i \in DOMAIN units |-> Escape(units[i], letters)])

Spelled(ps, form) == FlattenSeq([i \in DOMAIN ps |-> ps[i][form]])

Address ==
    LET units == Spelled(pieces, "utf8")
    IN  CASE spelling = "literal" -> units
          [] spelling = "upper" -> Escaped(units, 65)
          [] spelling = "lower" -> Escaped(units, 97)

hexdigit(c) ==
    CASE 48 <= c /\ c <= 57 -> c - 48
      [] 65 <= c /\ c <= 70 -> c - 55
      [] 97 <= c /\ c <= 102 -> c - 87
      [] OTHER -> -1

\* Mutant: an escape must not be the last.
IsEscape_NotLast(s, p) ==
    /\ s[p] = 37
    /\ p + 2 < Len(s)
    /\ hexdigit(s[p + 1]) # -1 /\ hexdigit(s[p + 2]) # -1

IsEscape(s, p) ==
    /\ s[p] = 37
    /\ p + 2 <= Len(s)
    /\ hexdigit(s[p + 1]) # -1 /\ hexdigit(s[p + 2]) # -1

(***************************************************************************)
(* Texts that are what their pieces say: units that only follow do not     *)
(* come after units that lead, and a percent sign that is one is not       *)
(* followed by two digits.                                                 *)
(***************************************************************************)

IsStray(piece) == piece \in Strays
IsCut(piece) == IsStray(piece) /\ piece.cut
Follows(piece, form) == IsLoose(form, piece[form][1])

Texts(form) ==
    {ps \in UNION {[1 .. n -> Characters \cup Strays] : n \in 0 .. MaxPieces} :
        \A i \in 1 .. Len(ps) - 1 : IsCut(ps[i]) => ~Follows(ps[i + 1], form)}

Init ==
    /\ stage \in {"class_info_utf16", "string_for_value", "value_for_string", "measure", "url"}
    /\ typed = (stage = "value_for_string")
    /\ pieces \in Texts(From)
    /\ room \in Rooms
    /\ pos = 1 /\ at = 1 /\ size = 0
    /\ mail \in (IF stage = "url" THEN BOOLEAN ELSE {FALSE})
    /\ spelling \in (IF stage = "url" THEN {"literal", "upper", "lower"} ELSE {"literal"})
    /\ text = IF stage = "url" THEN Address ELSE Spelled(pieces, From)
    /\ stage = "url" /\ spelling = "literal" => \A p \in DOMAIN text : ~IsEscape(text, p)
    /\ stage = "string_for_value" => Len(text) < Display   \* value_to_text's array
    /\ \E left \in Leftovers :
           buf = CASE stage \in {"class_info_utf16", "string_for_value"} -> ArrayOf(room, left)
                   [] stage = "value_for_string" -> ArrayOf(Display, 0)
                   [] stage \in {"measure", "url"} -> <<>>

(***************************************************************************)
(* UTF_copy, one code point in each step.                                  *)
(***************************************************************************)

\* Nothing is left to read, or too little: both end a loop.
Decoded == decode(From, text, pos)

\* Mutant: the whole array is used.
Fits_All(c) == at + width(Into, c) - 1 <= Room

\* endY: one unit of the array is kept for the zero.
Fits(c) == at + width(Into, c) - 1 <= Room - 1

UTF_copy_illegal ==
    /\ stage \in Copies
    /\ Decoded.cp = illegal
    /\ pos' = Decoded.next
    /\ UNCHANGED <<inputs, stage, text, buf, at, size>>

UTF_copy ==
    /\ stage \in Copies
    /\ Decoded.cp >= 0
    /\ Fits(Decoded.cp)
    /\ buf' = Written(encode(Into, Decoded.cp))
    /\ at' = at + Len(encode(Into, Decoded.cp))
    /\ pos' = Decoded.next
    /\ UNCHANGED <<inputs, stage, text, size>>

CopyEnds ==
    \/ Decoded.cp = incomplete
    \/ Decoded.cp >= 0 /\ ~Fits(Decoded.cp)

\* The array with its zero.
Terminated == Written(<<0>>)

\* The next structure is made of this one, or the host has what it asked for.
UTF_copy_done ==
    /\ stage \in {"class_info_utf16", "class_info_2", "class_info", "factory_info"}
    /\ CopyEnds
    /\ IF stage \in {"class_info", "factory_info"}
       THEN /\ stage' = IF stage = "class_info" THEN "told" ELSE "mailed"
            /\ buf' = Terminated
            /\ UNCHANGED <<inputs, text, pos, at, size>>
       ELSE \E left \in Leftovers :
                Enter(IF stage = "class_info_utf16" THEN "class_info_2" ELSE "class_info",
                      UpToNul(Terminated), ArrayOf(room, left))

\* The host shows the text; its user may give it back as it is.
get_parameter_string_for_value ==
    /\ stage = "string_for_value"
    /\ CopyEnds
    /\ Enter("value_for_string", UpToNul(Terminated), ArrayOf(Display, 0))

\* The plugin reads display.
get_parameter_value_for_string ==
    /\ stage = "value_for_string"
    /\ CopyEnds
    /\ stage' = "valued"
    /\ buf' = Terminated
    /\ UNCHANGED <<inputs, text, pos, at, size>>

(***************************************************************************)
(* UTF_convert: a pass that measures, a pass that fills.                   *)
(***************************************************************************)

Stops == Decoded.cp = incomplete

UTF_convert_measure ==
    /\ stage = "measure"
    /\ ~Stops
    /\ size' = IF Decoded.cp = illegal THEN size ELSE size + width(Into, Decoded.cp)
    /\ pos' = Decoded.next
    /\ UNCHANGED <<inputs, stage, text, buf, at>>

UTF_convert_resize ==
    /\ stage = "measure"
    /\ Stops
    /\ stage' = "fill"
    /\ buf' = ArrayOf(size, 0)
    /\ pos' = 1
    /\ UNCHANGED <<inputs, text, at, size>>

UTF_convert_fill ==
    /\ stage = "fill"
    /\ ~Stops
    /\ pos' = Decoded.next
    /\ IF Decoded.cp = illegal THEN UNCHANGED <<buf, at>>
       ELSE /\ buf' = Written(encode(Into, Decoded.cp))
            /\ at' = at + Len(encode(Into, Decoded.cp))
    /\ UNCHANGED <<inputs, stage, text, size>>

UTF_convert_done ==
    /\ stage = "fill"
    /\ Stops
    /\ stage' = "named"
    /\ UNCHANGED <<inputs, text, pos, buf, at, size>>

(***************************************************************************)
(* get_factory_info: no address unless the URL is one, and of an address   *)
(* what is before its question mark.                                       *)
(***************************************************************************)

\* The part before the first question mark.
BeforeQuery(units) ==
    SubSeq(units, 1, Min({i \in DOMAIN units : units[i] = 63} \cup {Len(units) + 1}) - 1)

get_factory_info_none ==
    /\ stage = "url"
    /\ ~mail
    /\ stage' = "mailed"
    /\ \E left \in Leftovers : buf' = [i \in 1 .. room |-> IF i = 1 THEN 0 ELSE left]
    /\ UNCHANGED <<inputs, text, pos, at, size>>

get_factory_info ==
    /\ stage = "url"
    /\ mail
    /\ stage' = "decode"
    /\ text' = BeforeQuery(text)
    /\ UNCHANGED <<inputs, pos, buf, at, size>>

URL_decode ==
    /\ stage = "decode"
    /\ pos <= Len(text)
    /\ IF IsEscape(text, pos)
       THEN /\ buf' = Append(buf, hexdigit(text[pos + 1]) * 16 + hexdigit(text[pos + 2]))
            /\ pos' = pos + 3
       ELSE buf' = Append(buf, text[pos]) /\ pos' = pos + 1
    /\ UNCHANGED <<inputs, stage, text, at, size>>

URL_decode_done ==
    /\ stage = "decode"
    /\ pos > Len(text)
    /\ \E left \in Leftovers : Enter("factory_info", UpToNul(buf), ArrayOf(room, left))

Next ==
    \/ UTF_copy_illegal \/ UTF_copy \/ UTF_copy_done
    \/ get_parameter_string_for_value \/ get_parameter_value_for_string
    \/ UTF_convert_measure \/ UTF_convert_resize \/ UTF_convert_fill \/ UTF_convert_done
    \/ get_factory_info_none \/ get_factory_info
    \/ URL_decode \/ URL_decode_done

Spec == Init /\ [][Next]_vars

(***************************************************************************)
(* What is said of them.                                                   *)
(***************************************************************************)

\* The text has units of the form it is read in, and the iterators are in it.
TypeOK ==
    /\ stage \in Copies \cup
                 {"measure", "fill", "url", "decode", "told", "mailed", "valued", "named"}
    /\ text \in Seq(IF From = "utf8" THEN Unit8 ELSE Unit16)
    /\ buf \in Seq(IF Into = "utf8" THEN Unit8 ELSE Unit16)
    /\ pos \in 1 .. Len(text) + 1 /\ at \in 1 .. Len(buf) + 1 /\ size \in Nat

\* Which pieces take the next one along: the first unit of a piece completes
\* a piece that is cut off, and both are dropped.
Taking(ps) ==
    LET taking[i \in 0 .. Len(ps)] == i > 0 /\ IsCut(ps[i]) /\ ~taking[i - 1]
    IN  taking

\* The characters that are heard among the first pieces, and among all.
HeardIn(ps) ==
    LET heard[i \in 0 .. Len(ps)] ==
            CASE i = 0 -> << >>
              [] i > 0 /\ (IsStray(ps[i]) \/ Taking(ps)[i - 1]) -> heard[i - 1]
              [] OTHER -> Append(heard[i - 1], ps[i])
    IN  heard
Heard(ps) == HeardIn(ps)[Len(ps)]

\* As many whole characters as an array of r units has room for, its zero aside.
Fitting(cs, form, r) ==
    SubSeq(cs, 1, Max({n \in 0 .. Len(cs) :
                         Len(Spelled(SubSeq(cs, 1, n), form)) < r}))

Wide == Fitting(Heard(pieces), "utf16", room)
Narrow == Spelled(Fitting(Wide, "utf8", room), "utf8")

\* Each of the structures made of one another has the whole characters of the
\* plugin's name that it has room for, and nothing of what was there before:
\* a stray takes the character after it along at most, and none is invented
\* or cut in two.  Nothing is written past the end of an array.
NamesTrue ==
    /\ stage \in Copies => at <= Room
    /\ stage = "class_info_2" => text = Spelled(Wide, "utf16")
    /\ stage = "class_info" => text = Narrow
    /\ stage = "told" => UpToNul(buf) = Narrow

\* The pieces of the address proper.
Addressed ==
    IF spelling = "literal"
    THEN SubSeq(pieces, 1,
                Min({i \in DOMAIN pieces : pieces[i].utf8 = <<63>>} \cup {Len(pieces) + 1}) - 1)
    ELSE pieces

\* The host is told the address behind mailto:, whichever of its characters
\* were escaped, without the query, or none.
AddressTrue ==
    stage = "mailed" =>
        UpToNul(buf) = IF mail THEN Spelled(Fitting(Heard(Addressed), "utf8", room), "utf8")
                       ELSE <<>>

\* A parameter's text is shown in as many whole characters as the host has
\* room for; given back, all that was shown arrives at the plugin, and of a
\* text that was typed the characters display has room for.
ValueTextTrue ==
    /\ stage = "value_for_string" /\ ~typed => text = Spelled(Wide, "utf16")
    /\ stage = "valued" =>
           UpToNul(buf) = Spelled(IF typed THEN Fitting(Heard(pieces), "utf8", Display) ELSE Wide,
                                  "utf8")

\* The two passes of UTF_convert agree, and the host's name has the
\* characters the host gave.
HostNameTrue ==
    stage = "named" => buf = Spelled(Heard(pieces), "utf8") /\ at = size + 1

\* The texts of the controller and of ct_host: a value's text is not lost on
\* its way to the host and back, a typed one is cut between characters, and
\* the host's name is whole.
TextTrue == ValueTextTrue /\ HostNameTrue

=============================================================================
