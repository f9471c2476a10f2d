-------------------------------- MODULE Lex --------------------------------
(***************************************************************************)
(* The scanner of src/src/Lex.cpp: next_token over one source text.        *)
(*                                                                         *)
(* A source is a sequence of one-character strings, followed by the null   *)
(* byte that ends every C string.  The pointers Global::stream,            *)
(* token.start and token.end are positions in it.  A name is modelled by   *)
(* its text: Keywords shows that the interned pointers, and the keyword    *)
(* test on them, tell the same texts apart.                                *)
(***************************************************************************)
EXTENDS Integers, SequencesExt

CONSTANTS
  Sources,      \* the texts init_stream may be given
  KEYWORDS,     \* the texts of the keywords
  UINT64_MAX    \* largest u64

(* The null byte that ends the text, the quote that ends a string, and the *)
(* brackets and separators of blocks.                                      *)
NUL       == "NUL"
DQUOTE    == "\""
LBRACE    == "{"
RBRACE    == "}"
COMMA     == ","
SEMICOLON == ";"

ASSUME LexAssumption ==
  /\ UINT64_MAX \in Nat /\ UINT64_MAX >= 15
  /\ \A text \in Sources : text \in Seq(STRING \ {NUL})

VARIABLES
  source,  \* the text under scan
  stream,  \* Global::stream, a position in source
  token,   \* Global::token; val is the member of the union last written
  errors,  \* what the last next_token reported through syntax_error
  status   \* "run", "abort" (an assert failed) or "overrun" (it has read
           \* past the null byte, after which C++ promises nothing)

lexVars == <<source, stream, token, errors, status>>

Digits == {"0", "1", "2", "3", "4", "5", "6", "7", "8", "9"}
Lower  == {"a", "b", "c", "d", "e", "f", "g", "h", "i", "j", "k", "l", "m", "n", "o", "p", "q",
           "r", "s", "t", "u", "v", "w", "x", "y", "z"}
Upper  == {"A", "B", "C", "D", "E", "F", "G", "H", "I", "J", "K", "L", "M", "N", "O", "P", "Q",
           "R", "S", "T", "U", "V", "W", "X", "Y", "Z"}
Letters == Lower \union Upper \union {"_"}
Space   == {" ", "\t", "\n", "\r", "\f", "VT"}

(* The operators: a first character, the kind it has alone, and the kinds  *)
(* it has with the characters that may follow it.                          *)
Operators == {
  <<"(", "LPAREN", {}>>, <<")", "RPAREN", {}>>, <<LBRACE, "LBRACE", {}>>, <<RBRACE, "RBRACE", {}>>,
  <<"[", "LBRACKET", {}>>, <<"]", "RBRACKET", {}>>, <<COMMA, "COMMA", {}>>,
  <<"?", "QUESTION", {}>>, <<SEMICOLON, "SEMICOLON", {}>>, <<NUL, "END_OF_FILE", {}>>,
  <<":", "COLON",  {<<"=", "COLON_ASSIGN">>}>>,
  <<"=", "ASSIGN", {<<"=", "EQ">>}>>,
  <<"^", "XOR",    {<<"=", "XOR_ASSIGN">>}>>,
  <<"*", "MUL",    {<<"=", "MUL_ASSIGN">>}>>,
  <<"/", "DIV",    {<<"=", "DIV_ASSIGN">>}>>,
  <<"%", "MOD",    {<<"=", "MOD_ASSIGN">>}>>,
  <<"+", "ADD",    {<<"=", "ADD_ASSIGN">>, <<"+", "INC">>}>>,
  <<"-", "SUB",    {<<"=", "SUB_ASSIGN">>, <<"-", "DEC">>}>>,
  <<"&", "AND",    {<<"=", "AND_ASSIGN">>, <<"&", "AND_AND">>}>>,
  <<"|", "OR",     {<<"=", "OR_ASSIGN">>, <<"&", "OR_OR">>}>>,
  <<"<", "LT",     {<<"=", "LTEQ">>, <<"<", "LSHIFT">>}>>,
  <<">", "GT",     {<<"=", "GTEQ">>, <<">", "RSHIFT">>}>> }

At(i) == IF i = Len(source) + 1 THEN NUL ELSE source[i]

(* Where a loop that steps over the characters of C, from i on, stops. *)
SpanEnd(i, C) ==
  CHOOSE j \in i .. Len(source) + 1 : At(j) \notin C /\ \A k \in i .. j - 1 : At(k) \in C

(* The characters the switch of next_token has a case for; those it has no *)
(* case for are invalid.                                                   *)
Cased ==
  Digits \union Letters \union Space \union {"'", DQUOTE, "."} \union {row[1] : row \in Operators}

Invalid(c) == c \notin Cased

(* Where the next token starts: white space is stepped over, and so is an  *)
(* invalid character, after which next_token repeats.                      *)
TokenStart ==
  CHOOSE i \in stream .. Len(source) + 1 :
    /\ At(i) \notin Space /\ ~ Invalid(At(i))
    /\ \A k \in stream .. i - 1 : At(k) \in Space \/ Invalid(At(k))

Skipped(i) == {<<"invalid character", k>> : k \in {k \in stream .. i - 1 : Invalid(At(k))}}

(* The scanner's pointers stay in the text, its null byte and the byte     *)
(* after that, and the value of a number in its word.                      *)
LexTypeOK ==
  /\ stream \in 1 .. Len(source) + 2
  /\ token.mod \in {"NONE", "HEX", "BIN", "OCT", "CHAR"}
  /\ token.start \in 0 .. Len(source) + 1 /\ token.end \in 0 .. Len(source) + 2
  /\ status = "run" /\ token.kind = "INT" /\ token.mod # "CHAR" =>
       token.val \in 0 .. UINT64_MAX
  /\ status \in {"run", "abort", "overrun"}

-----------------------------------------------------------------------------
(* Slips: a character too many consumed; the modifier of an earlier        *)
(* literal kept; a token with an error not stepped over;                   *)
Emit_far(i, j, kind, mod, val, errs) ==
  /\ token' = [kind |-> kind, mod |-> mod, start |-> i, end |-> j, val |-> val]
  /\ stream' = j + 1
  /\ errors' = Skipped(i) \union errs
  /\ UNCHANGED <<source, status>>

Emit_mod_kept(i, j, kind, mod, val, errs) ==
  /\ token' = [kind |-> kind, mod |-> IF mod = "NONE" THEN token.mod ELSE mod,
               start |-> i, end |-> j, val |-> val]
  /\ stream' = j
  /\ errors' = Skipped(i) \union errs
  /\ UNCHANGED <<source, status>>

Emit_error_stays(i, j, kind, mod, val, errs) ==
  /\ token' = [kind |-> kind, mod |-> mod, start |-> i, end |-> j, val |-> val]
  /\ stream' = IF errs = {} THEN j ELSE i
  /\ errors' = Skipped(i) \union errs
  /\ UNCHANGED <<source, status>>

(* The token from i to j - 1 is done; errs are the errors reported in it.  *)
Emit(i, j, kind, mod, val, errs) ==
  /\ token' = [kind |-> kind, mod |-> mod, start |-> i, end |-> j, val |-> val]
  /\ stream' = j
  /\ errors' = Skipped(i) \union errs
  /\ UNCHANGED <<source, status>>

(* The process stops, or goes astray, inside the token that starts at i.   *)
Fails(i, how, errs) ==
  /\ status' = how
  /\ token' = [token EXCEPT !.start = i, !.mod = "NONE"]
  /\ errors' = Skipped(i) \union errs
  /\ UNCHANGED <<source, stream>>

hex_char_to_digit(c) ==
  CASE c = "0" -> 0 [] c = "1" -> 1 [] c = "2" -> 2 [] c = "3" -> 3 [] c = "4" -> 4
    [] c = "5" -> 5 [] c = "6" -> 6 [] c = "7" -> 7 [] c = "8" -> 8 [] c = "9" -> 9
    [] c \in {"a", "A"} -> 10 [] c \in {"b", "B"} -> 11 [] c \in {"c", "C"} -> 12
    [] c \in {"d", "D"} -> 13 [] c \in {"e", "E"} -> 14 [] c \in {"f", "F"} -> 15
    [] OTHER -> 0

HexDigits == Digits \union {"a", "b", "c", "d", "e", "f", "A", "B", "C", "D", "E", "F"}

OVERFLOW == -1

(* the largest value refused;                                              *)
Accumulate_early(val, digit, base) ==
  IF val >= (UINT64_MAX - digit) \div base THEN OVERFLOW
  ELSE (val * base + digit) % (UINT64_MAX + 1)

(* One turn of scan_int's loop; u64 arithmetic is modulo UINT64_MAX + 1.   *)
Accumulate(val, digit, base) ==
  IF val > (UINT64_MAX - digit) \div base THEN OVERFLOW
  ELSE (val * base + digit) % (UINT64_MAX + 1)

(* The base, the modifier and the length of the prefix of the number at i. *)
IntPrefix(i) ==
  CASE At(i) = "0" /\ At(i + 1) \in {"x", "X"} -> [base |-> 16, mod |-> "HEX", len |-> 2]
    [] At(i) = "0" /\ At(i + 1) \in {"b", "B"} -> [base |-> 2, mod |-> "BIN", len |-> 2]
    [] At(i) = "0" /\ At(i + 1) \in Digits     -> [base |-> 8, mod |-> "OCT", len |-> 1]
    [] At(i) = "0" /\ At(i + 1) \notin Digits \union {"x", "X", "b", "B"} ->
         [base |-> 10, mod |-> "NONE", len |-> 1]
    [] OTHER -> [base |-> 10, mod |-> "NONE", len |-> 0]

(* A hexadecimal digit out of range of the base counts as 0. *)
IntDigit(k, base) ==
  IF hex_char_to_digit(At(k)) >= base THEN 0 ELSE hex_char_to_digit(At(k))

(* The value at each turn of scan_int's loop, over the characters from     *)
(* first to last - 1.                                                      *)
Accumulated(first, last, base) ==
  LET val[k \in first .. last] ==
        IF k = first THEN 0
        ELSE IF val[k - 1] = OVERFLOW THEN OVERFLOW
        ELSE Accumulate(val[k - 1], IntDigit(k - 1, base), base)
  IN  val

(* Hexadecimal digits are consumed in every base; an overflow makes the    *)
(* value 0 and steps over decimal digits only.                             *)
scan_int(i) ==
  LET prefix == IntPrefix(i)
      base   == prefix.base
      first  == i + prefix.len
      last   == SpanEnd(first, HexDigits)
      val    == Accumulated(first, last, base)
      over   == {k \in first .. last - 1 : val[k] # OVERFLOW /\ val[k + 1] = OVERFLOW}
      Bad(n) == {<<"digit out of range", k>> : k \in {k \in first .. n : hex_char_to_digit(At(k)) >= base}}
  IN  \/ /\ over = {}
         /\ Emit(i, last, "INT", prefix.mod, val[last], Bad(last - 1))
      \/ \E k \in over :
           Emit(i, SpanEnd(k, Digits), "INT", prefix.mod, 0,
                Bad(k) \union {<<"integer overflow", k>>})

(* strtod converts the text scanned; whether the value is too large for a  *)
(* double is left open.                                                    *)
scan_float(i) ==
  LET whole    == SpanEnd(i, Digits)
      point    == IF At(whole) = "." THEN whole + 1 ELSE whole
      fraction == SpanEnd(point, Digits)
      sign     == IF At(fraction + 1) \in {"-", "+"} THEN fraction + 2 ELSE fraction + 1
      hasExp   == At(fraction) \in {"e", "E"}
      stop     == IF hasExp THEN SpanEnd(sign, Digits) ELSE fraction
      noDigit  == IF hasExp /\ At(sign) \notin Digits THEN {<<"no exponent digit", sign>>} ELSE {}
  IN  \E overflow \in {{}, {<<"float overflow", i>>}} :
        Emit(i, stop, "FLOAT", "NONE", SubSeq(source, i, stop - 1), noDigit \union overflow)

(* an escaped character standing for itself;                               *)
char_to_escape_none(c) == IF c = "0" THEN NUL ELSE c

char_to_escape(c) ==
  CASE c = "n" -> "\n" [] c = "r" -> "\r" [] c = "t" -> "\t" [] c = "v" -> "VT"
    [] c = "b" -> "BS" [] c = "a" -> "BEL" [] OTHER -> NUL

BadEscape(k) ==
  IF char_to_escape(At(k)) = NUL /\ At(k) # "0" THEN {<<"invalid escape", k>>} ELSE {}

(* The character literal at i, whose contents val end before j: the        *)
(* closing quote is looked for at j, which may lie past the null byte.     *)
CharEnds(i, j, val, errs) ==
  \/ j > Len(source) + 1 /\ Fails(i, "overrun", errs)
  \/ j <= Len(source) + 1 /\ At(j) = "'" /\ Emit(i, j + 1, "INT", "CHAR", val, errs)
  \/ /\ j <= Len(source) + 1 /\ At(j) # "'"
     /\ Emit(i, j, "INT", "CHAR", val, errs \union {<<"no closing quote", j>>})

(* an empty literal taken for one of one character;                        *)
scan_char_empty(i) ==
  LET c == At(i + 1)
  IN  \/ c \in {"'", "\n"} /\ CharEnds(i, i + 3, NUL, {<<"bad character", i + 1>>})
      \/ c = "\\" /\ CharEnds(i, i + 3, char_to_escape(At(i + 2)), BadEscape(i + 2))
      \/ c \notin {"'", "\n", "\\"} /\ CharEnds(i, i + 2, c, {})

scan_char(i) ==
  LET c == At(i + 1)
  IN  \/ c = "'"  /\ CharEnds(i, i + 2, NUL, {<<"empty character", i + 1>>})
      \/ c = "\n" /\ CharEnds(i, i + 1, NUL, {<<"newline in character", i + 1>>})
      \/ c = "\\" /\ CharEnds(i, i + 3, char_to_escape(At(i + 2)), BadEscape(i + 2))
      \/ c \notin {"'", "\n", "\\"} /\ CharEnds(i, i + 2, c, {})

(* The loop of scan_str from j on, in the string at i: where it stops, the *)
(* characters it has collected and the errors reported.  strncpy keeps the *)
(* characters before the first null only.                                  *)
StringBody(i) ==
  LET limit == Len(source) + 1
      body[j \in i + 1 .. limit + 1] ==
        IF j > limit \/ At(j) \in {NUL, DQUOTE, "\n"} THEN [stop |-> j, chars |-> << >>, errs |-> {}]
        ELSE LET escaped == At(j) = "\\"
                 rest == body[IF escaped THEN j + 2 ELSE j + 1]
                 c    == IF escaped THEN char_to_escape(At(j + 1)) ELSE At(j)
             IN  [stop  |-> rest.stop,
                  chars |-> IF c = NUL THEN << >> ELSE << c >> \o rest.chars,
                  errs  |-> (IF escaped THEN BadEscape(j + 1) ELSE {}) \union rest.errs]
  IN  body

scan_str(i) ==
  LET limit == Len(source) + 1
      str   == StringBody(i)[i + 1]
      c     == At(str.stop)
  IN  \/ str.stop > limit /\ Fails(i, "overrun", str.errs)
      \/ /\ str.stop <= limit /\ c = "\n"
         /\ Fails(i, "abort", str.errs \union {<<"newline in string", str.stop>>})
      \/ /\ str.stop <= limit /\ c = DQUOTE
         /\ Emit(i, str.stop + 1, "STR", "NONE", str.chars, str.errs)
      \/ /\ str.stop <= limit /\ c = NUL
         /\ Emit(i, str.stop, "STR", "NONE", str.chars,
                 str.errs \union {<<"end of file in string", str.stop>>})

scan_name(i) ==
  LET stop == SpanEnd(i, Letters \union Digits)
      name == SubSeq(source, i, stop - 1)
  IN  Emit(i, stop, IF name \in KEYWORDS THEN "KEYWORD" ELSE "NAME", "NONE", name, {})

(* every operator taken for one of one character.                          *)
scan_op_short(i) ==
  \E row \in Operators : row[1] = At(i) /\ Emit(i, i + 1, row[2], "NONE", token.val, {})

(* An operator leaves the union of the token as the token before it did.   *)
scan_op(i) ==
  \E row \in Operators :
    /\ row[1] = At(i)
    /\ \/ /\ row[3] = {} \/ \A more \in row[3] : more[1] # At(i + 1)
          /\ Emit(i, i + 1, row[2], "NONE", token.val, {})
       \/ \E more \in row[3] :
            /\ more[1] = At(i + 1)
            /\ \/ /\ more[2] \notin {"LSHIFT", "RSHIFT"} \/ At(i + 2) # "="
                  /\ Emit(i, i + 2, more[2], "NONE", token.val, {})
               \/ /\ more[2] \in {"LSHIFT", "RSHIFT"} /\ At(i + 2) = "="
                  /\ Emit(i, i + 3, [LSHIFT |-> "LSHIFT_ASSIGN", RSHIFT |-> "RSHIFT_ASSIGN"][more[2]],
                          "NONE", token.val, {})

-----------------------------------------------------------------------------
(* init_stream: the token is the zero-initialised global until the first   *)
(* next_token, which init_stream calls itself.                             *)
LexInit ==
  /\ source \in Sources
  /\ stream = 1
  /\ token = [kind |-> "END_OF_FILE", mod |-> "NONE", start |-> 0, end |-> 0, val |-> 0]
  /\ errors = {}
  /\ status = "run"

AtEnd == token.kind = "END_OF_FILE" /\ token.start # 0

(* The callers stop at the end of the file: the tests check for it and the *)
(* parser matches no END_OF_FILE.                                          *)
next_token ==
  /\ status = "run" /\ ~ AtEnd
  /\ LET i == TokenStart
         c == At(i)
     IN  \/ c = "'" /\ scan_char(i)
         \/ c = DQUOTE /\ scan_str(i)
         \/ c = "." /\ At(i + 1) \in Digits /\ scan_float(i)
         \/ c = "." /\ At(i + 1) \notin Digits /\ Emit(i, i + 1, "DOT", "NONE", token.val, {})
         \/ c \in Digits /\ At(SpanEnd(i, Digits)) \in {".", "e"} /\ scan_float(i)
         \/ c \in Digits /\ At(SpanEnd(i, Digits)) \notin {".", "e"} /\ scan_int(i)
         \/ c \in Letters /\ scan_name(i)
         \/ scan_op(i)

LexSpec == LexInit /\ [][next_token]_lexVars /\ WF_lexVars(next_token)

(* The names init_token_kind_names gives to the operators. *)
token_kind_names == {
  <<"COLON", <<":">>>>, <<"LPAREN", <<"(">>>>, <<"RPAREN", <<")">>>>, <<"LBRACE", <<LBRACE>>>>,
  <<"RBRACE", <<RBRACE>>>>, <<"LBRACKET", <<"[">>>>, <<"RBRACKET", <<"]">>>>, <<"COMMA", <<COMMA>>>>,
  <<"DOT", <<".">>>>, <<"QUESTION", <<"?">>>>, <<"SEMICOLON", <<SEMICOLON>>>>, <<"MUL", <<"*">>>>,
  <<"DIV", <<"/">>>>, <<"MOD", <<"%">>>>, <<"AND", <<"&">>>>, <<"LSHIFT", <<"<", "<">>>>,
  <<"RSHIFT", <<">", ">">>>>, <<"ADD", <<"+">>>>, <<"SUB", <<"-">>>>, <<"OR", <<"|">>>>,
  <<"XOR", <<"^">>>>, <<"EQ", <<"=", "=">>>>, <<"NOTEQ", <<"!", "=">>>>, <<"LT", <<"<">>>>,
  <<"GT", <<">">>>>, <<"LTEQ", <<"<", "=">>>>, <<"GTEQ", <<">", "=">>>>,
  <<"AND_AND", <<"&", "&">>>>, <<"OR_OR", <<"|", "|">>>>, <<"ASSIGN", <<"=">>>>,
  <<"ADD_ASSIGN", <<"+", "=">>>>, <<"SUB_ASSIGN", <<"-", "=">>>>, <<"OR_ASSIGN", <<"|", "=">>>>,
  <<"AND_ASSIGN", <<"&", "=">>>>, <<"XOR_ASSIGN", <<"^", "=">>>>,
  <<"LSHIFT_ASSIGN", <<"<", "<", "=">>>>, <<"RSHIFT_ASSIGN", <<">", ">", "=">>>>,
  <<"MUL_ASSIGN", <<"*", "=">>>>, <<"DIV_ASSIGN", <<"/", "=">>>>, <<"MOD_ASSIGN", <<"%", "=">>>>,
  <<"INC", <<"+", "+">>>>, <<"DEC", <<"-", "-">>>>, <<"COLON_ASSIGN", <<":", "=">>>> }

(* The number that the characters from first to last - 1 spell in a base:  *)
(* at each place its weight and the value of the places from there on, the *)
(* last place first.                                                       *)
Positional(first, last, base) ==
  LET place[k \in first .. last] ==
        IF k = last THEN [weight |-> 1, value |-> 0]
        ELSE [weight |-> place[k + 1].weight * base,
              value  |-> place[k + 1].value + place[k + 1].weight * IntDigit(k, base)]
  IN  place[first].value

Text == SubSeq(source, token.start, Min({token.end - 1, Len(source)}))
Rest == SubSeq(source, token.start, Len(source))
Scanned == status = "run" /\ token.start # 0

(* The value of a number is that of its digits in the base its prefix      *)
(* announces, by the weights of their places and not turn by turn; it is 0 *)
(* exactly when that value is 0 or was reported as too large.              *)
IntValueExact ==
  Scanned /\ token.kind = "INT" /\ token.mod # "CHAR" =>
    LET base  == [HEX |-> 16, BIN |-> 2, OCT |-> 8, NONE |-> 10][token.mod]
        first == token.start + [HEX |-> 2, BIN |-> 2, OCT |-> 1, NONE |-> 0][token.mod]
        last  == SpanEnd(first, HexDigits)
        value == Positional(first, last, base)
    IN  IF value <= UINT64_MAX
        THEN token.val = value /\ token.end = last /\ \A e \in errors : e[1] # "integer overflow"
        ELSE token.val = 0 /\ \E e \in errors : e[1] = "integer overflow"

(* The modifier is that of this token: none is left over from an earlier   *)
(* literal, and a prefix is announced by its modifier.                     *)
ModMatchesText ==
  Scanned =>
    /\ token.mod = "CHAR" <=> At(token.start) = "'"
    /\ token.mod = "HEX" <=> Len(Text) > 1 /\ Text[1] = "0" /\ Text[2] \in {"x", "X"}
    /\ token.mod = "BIN" <=> Len(Text) > 1 /\ Text[1] = "0" /\ Text[2] \in {"b", "B"}
    /\ token.mod = "OCT" <=>
         token.kind = "INT" /\ Len(Text) > 1 /\ Text[1] = "0" /\ Text[2] \in Digits
    /\ token.mod # "NONE" => token.kind = "INT"

(* An operator has the kind whose name it spells, and no longer name fits: *)
(* the scanner is greedy.  Left out are the names that it never produces,  *)
(* "||" and "!=" (see OperatorsNamed).                                     *)
OperatorsLongest ==
  \A row \in token_kind_names :
    Scanned /\ token.kind = row[1] /\ token.kind # "OR_OR" =>
      /\ Text = row[2]
      /\ \A other \in token_kind_names :
           IsPrefix(other[2], Rest) /\ other[1] \notin {"OR_OR", "NOTEQ"} =>
             Len(other[2]) <= Len(Text)

(* What init_token_kind_names says of every operator: its kind's name is   *)
(* its spelling.  The scanner gives the kind of "||" to "|&".              *)
OperatorsNamed ==
  \A row \in token_kind_names : Scanned /\ token.kind = row[1] => Text = row[2]

(* How a character may be written in a literal: as itself, unless it is a  *)
(* backslash or null, and escaped, if there is an escape for it.           *)
Spellings(c) ==
  ({<<c>>} \ {<<"\\">>, <<NUL>>}) \union
  CASE c = "\n" -> {<<"\\", "n">>} [] c = "\r"  -> {<<"\\", "r">>} [] c = "\t" -> {<<"\\", "t">>}
    [] c = "VT" -> {<<"\\", "v">>} [] c = "BEL" -> {<<"\\", "a">>} [] c = "BS" -> {<<"\\", "b">>}
    [] c = NUL  -> {<<"\\", "0">>} [] OTHER -> {}

Spells(text, chars) ==
  \E written \in [DOMAIN chars -> UNION {Spellings(chars[k]) : k \in DOMAIN chars}] :
    /\ \A k \in DOMAIN chars : written[k] \in Spellings(chars[k])
    /\ text = FlattenSeq(written)

(* A literal that is accepted without an error has between its quotes a    *)
(* spelling of its value, so no character of it is lost or read twice; a   *)
(* string with an embedded null is cut there by strncpy.                   *)
LiteralsRoundTrip ==
  Scanned /\ errors = {} =>
    /\ token.mod = "CHAR" =>
         Spells(SubSeq(source, token.start + 1, token.end - 2), << token.val >>)
    /\ token.kind = "STR" =>
         \E cut \in token.start + 1 .. token.end - 1 :
           /\ Spells(SubSeq(source, token.start + 1, cut - 1), token.val)
           /\ cut = token.end - 1 \/ (source[cut] = "\\" /\ source[cut + 1] = "0")

(* Only a quote that the text ends in makes the scanner read past the null *)
(* byte: a character literal with nothing, or a lone backslash, after its  *)
(* quote, or a string whose last character is a backslash.                 *)
OverrunsOnlyUnclosed ==
  status = "overrun" =>
    \/ Rest \in {<<"'">>, <<"'", "\\">>}
    \/ Rest[1] = DQUOTE /\ Rest[Len(Rest)] = "\\"

(* The assert in scan_str that a string which does not end the text ends   *)
(* at a quote.  The loop before it also stops at a newline.                *)
StringAssertHolds == status # "abort"

(* A caller that keeps asking for tokens gets to the end of the text,      *)
(* unless a literal stops the process first.                               *)
ReachesEnd == <>(AtEnd \/ status # "run")
=============================================================================
