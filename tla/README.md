# A TLA+ verification of the sorin-lang front end

sorin-lang is a small compiler front end in C++: a scanner that interns names,
a recursive-descent parser that builds a syntax tree in an arena, a printer for
the tree, and the beginnings of a resolver with hash-consed types. This
directory has TLA+ models of it, the TLC configurations that check them on
small instances, and proofs that TLAPS checks of what holds for every value of
the constants. Paths such as `Lex.cpp:355` are under `src/src/`.

## Inventory

| component | state | operations | modelled in |
|---|---|---|---|
| memory arena (`MemArena.cpp`) | `ptr`, `end`, `blocks` per arena; one heap | `alloc`, `grow`, `free_all` | `Arena` (abstract: `RegionPool`) |
| string interning (`StringIntern.cpp`) | `interns`, an arena | `add_range`, `add` | `StringIntern` (abstract: `InternTable`) |
| keyword table (`Lex.cpp:10-92`) | `keywords`, `first_keyword`, `last_keyword` | `init`, `is_keyword_name` | `Keywords` |
| scanner (`Lex.cpp`) | `stream`, `token` | `init_stream`, `next_token` | `Lex` |
| parser (`Parse.cpp`) | the call stack, its locals, `token` | one function per nonterminal | `Parse` (reference: `ParseRef`) |
| syntax tree (`Ast.cpp`) | nodes in `ast_arena` | constructors, `ast_dup` | `Parse` (as values), `Keywords`, `Symbols` (as memory) |
| types (`Resolve.cpp:60-136`) | three caches, the types | `type_ptr`, `type_array`, `type_func`, `type_struct`, `type_union` | `Types` (abstract: `InternTable`) |
| symbols (`Resolve.cpp:6-58`) | `syms` | `sym_get`, `sym_put`, `resolve_*` | `Symbols` (abstract: `SymbolTable`) |
| printer (`Print.cpp`) | `indent` | `print_*` | `Printer` |
| errors, allocation (`Globals.cpp`) | none | `fatal`, `syntax_error`, `xmalloc`, `xcalloc` | inside the others |
| driver and tests (`sorin.cpp`, `*_test`) | none | `main` | its order of calls in `Keywords` and `Names`, the texts of `parse_test` in `MCParse`, the steps of `resolve_test` in `Symbols` and `Types` |

How they interact. Everything runs in one thread; the parts share global
variables. The parser asks the scanner for one token at a time (`next_token`,
through `match_token` and `expect_token`); the scanner asks the intern table for
the pointer of every identifier and compares that pointer with those of the
keywords; the table takes memory from its arena, the parser's tree takes memory
from another, and both arenas take blocks from one heap, in turns. The
symbol table and the type caches compare pointers in place of contents, so they
rely on interning being right for the whole run. The printer walks the tree that
the parser returns, following its pointers and counting in one global how far to
indent.

What is hard here is not concurrency. It is:

- **memory layout as meaning**: a keyword is told from a name by the order of
  addresses, which holds only while one block of the arena has all the keywords
  and nothing else between them;
- **one global token, overwritten in part** by each call, with a union in it;
- **the edge of the text**: no length is kept, only a null byte, and some paths
  step over it;
- **error paths that go on**: `syntax_error` returns, so scanner and parser must
  make progress and stay consistent after it;
- **one token of lookahead, no way back** in the parser;
- **vectors on the stack, arrays in the tree**: lists are collected in vectors
  that die with the function, and have to be copied exactly once;
- **a tree with holes**: parts left out of the text are null, and each reader of
  the tree has to know which;
- **caches keyed by caller-owned memory** in the types;
- **size_t arithmetic** in the arena, u64 arithmetic in numbers.

What makes each component correct, in a line: regions in use never overlap
(arena); equal strings, equal pointers, for good (interning); the range test is
exact (keywords); a token is what its text says and every call advances
(scanner); exactly the language is accepted, the tree groups as precedence has it
and owns its lists (parser); one symbol for each spelling (symbols); a type for
each structure (types); every part of the tree printed once, whatever is missing
from it, and the indentation given back (printer).

## Modules

`Arena` — several arenas over one heap. Addresses and sizes are taken modulo
`AddrSpace`, as `size_t` is. `Alloc` is `alloc` with the `grow` it may call;
`AllocDies` is the exit in `xmalloc` or a failed assert; `FreeAll` is
`free_all`, after which the arena is out of use (`freed`), since `ptr` and `end`
are left dangling. malloc is any placement that overlaps no block in use. The
ghost `allocs` remembers the regions handed out. `RegionPool` says what a pool
of memory promises, with no word of blocks, and `ImplementsPool` is refinement.

`StringIntern` — `add_range` over `Arena`; `text` is the string that lies at an
address. Whatever is allocated, by the table or by the other arena, is written
to its last byte, and a string of which a character or the null is written over
is no string any more (`Written`). The other arena allocates between any two
calls (`OtherArena`). `InternTable` is the promise: a string gets one pointer,
no two share one.

`Keywords` — the life of the table in the process: some strings first (`BOOT`,
as `intern_test` adds; which ones is left open, so that the keywords may start
anywhere in a block), then the lines of `init`, its assert, then identifiers.

`Names` — the table as the whole front end shares it: `Keywords` and `Symbols`
over one `StringIntern`, with scanner, parser and resolver taking turns once
`init` has run, and declarations named by pointers that the scanner did not take
for keywords.

`Lex` — `next_token` on one text. A text is a sequence of one-character strings,
pointers are positions. One call is one step; the loops of the code are
functions over positions. Reading past the null byte is undefined, and ends the
behaviour with status "overrun". A name is its text here; that its pointer would
tell the same is what `Keywords` shows.

`Parse` — the parser with its call stack made explicit: `todo` holds what is
left to do, `vals` the values of calls that have returned. There is an action
for each function of `Parse.cpp`, and one for each idiom that the functions
share (`expect_token`, a list with commas, statements up to a brace, an optional
part, a constructor of `Ast.cpp`). What token comes next is chosen
nondeterministically, so that one run covers every text in its bounds. The
bounds belong to an alphabet, a record: its kinds of token, the tokens the text
starts with, its length and its open brackets. A list is a value tagged `list`
while it is a vector of the parser and `array` once `ast_dup` or a constructor
has copied it (`Dups` says which constructors do), so that a vector that reaches
the tree is seen. What is in a tree is found by a walk with a stack of its own
(`Visit`, `walk`): a visit takes a value off and puts its parts there. The walk makes
`MaxNodes` visits, four for each token of the text, and the properties ask that it
has come to its end.

`ParseRef` — what the parser is compared with: the grammar of `src/README.md` as
EBNF, run by derivatives, and the tree of an expression defined from precedence
without any parsing procedure. Where README is silent or the code knows more
(`sizeof`, compound literals, declarations as statements, the clauses of `for`)
the rule is that of the code, and the comment on `Grammar` says which. Two rules
of README that the code does not have, the comma that may end an enum and the
label that every case has, are there in both forms: `AsREADME` chooses. The casts
of README are left out, as the code leaves them out. It declares RECURSIVE operators, so it is for TLC only.

`Printer` — the functions of `Print.cpp` as operators from a tree of `Parse` to
the pieces printed: parentheses, spaces, words and what tokens carry, with the
changes of `indent` in between and `Crash` where a null pointer is followed. The
printer runs after the parser and has no state but `indent`, so it adds no
variable and no action: its properties are about `Printed`, what is printed when
`parse_decl` has returned.

`Symbols` — `syms` over `StringIntern`: names are interned, and nodes allocated,
between any two calls. A symbol has the pointer of its name; the ghost `answer`
is the last call by spelling. `SymbolTable` is the promise, in spellings alone: a
name is declared once, found from then on, and only a name declared twice or
never is refused. `resolve_decl` does nothing in this version of the code, and
no state but UNRESOLVED is ever set; both are modelled as they are.

`Types` — the three caches and the arrays callers pass. `CallersRewrite` says
whether a caller uses such an array again.

`MC*` modules give the constants values. `*Proofs` modules hold the proofs.
Next to some definitions are *slips*: the same operation with a plausible
mistake in it. PROJECT.json pairs each property with one that violates it.

## Runs

| run | what it shows | bounds |
|---|---|---|
| `arena` | `AllocsApart`, `TailFree`, `AllocsMapped`, `FreeAllLeaksNothing`, `AssertsOnlyOnWrap`, refinement of `RegionPool` | 2 arenas, 64 bytes, blocks of 12 rounded to 16, sizes 1, 10, 20, 60: regions that fit, that do not, that need a block of their own, that wrap |
| `names` | `KeywordsExact`, `InternsCanonical`, `SearchExact`, `InternsStable`, `SymbolsAreNames`, `KeywordsTypeOK`, `SymbolsTypeOK`, refinement of `InternTable` and of `SymbolTable` | 2 earlier strings, 2 keywords, a name of eight characters, whose null is the first byte of a word, with a keyword for a prefix and an earlier string for a suffix, 2 declarations, 80 bytes in blocks of 24: 3 short strings to a block, so that the keywords straddle two blocks when none or both earlier strings are there, and room for nodes between names |
| `lex` | `IntValueExact`, `ModMatchesText`, `OperatorsLongest`, `LiteralsRoundTrip`, `OverrunsOnlyUnclosed`, `ReachesEnd` | all texts of up to 3 to 7 characters over alphabets for numbers, quotes, operators and mixtures; 4 bits for u64, so that every base overflows |
| `types` | `TypesTypeOK`, `TypesCanonical`, `AnswerServes`, refinement of `InternTable` | 4 addresses, 2 arrays of up to 2 types, 2 array sizes |
| `parse` | `AcceptsOnlyDecls`, `RefusesNoDecl`, `LeavesInOrder`, `PrecedenceExact`, `TreeOwnsArrays`, `CrashesOnlyIncomplete`, `PrintsEveryLeaf`, `IndentGivenBack`, `NeverPastEnd`, `Finishes`, `ParseTypeOK` | 14 alphabets, each with all texts of its length: expressions with all eighteen binary operators, any two or one and a unary one; with one operator of each level, any three or two and a unary one; with a conditional in each part of another, with parentheses, calls, subscripts and fields; types, lists and literals of 8 to 10 tokens; 10 to 19 tokens in a function body (or in the parentheses of its `for`, the braces of its `switch`), 2 or 3 brackets open at once: long enough for each statement to be accepted. Besides, the 18 texts of `parse_test` (`Parse.cpp:641-660`) as they are |
| `lex_names`, `lex_string_assert`, `types_rewrite` | disagreements, below | those of the run they vary |
| `print_null`, `print_sexpr`, `readme_enum`, `readme_switch` | disagreements, below | one alphabet of `parse` each |

Each alphabet of `parse` holds the tokens of one part of the language; tokens
that the parser treats alike (`break` and `continue`, `struct` and `union`) are
represented by one of them in most alphabets, and so are the operators of one
level in all but the first, which has all eighteen. All runs say `CHECK_DEADLOCK
FALSE`: each of these processes really stops, at the end of the text, on an exit
or an assert, or when the bounded memory is full.

The constants are small, not the behaviours: a bound is on memory, on the text
or on the arrays of callers, never on how often an operation runs.

### Fairness

`ReachesEnd` assumes weak fairness of `next_token`: the caller asks for a token
again until it sees the end, which is what `lex_test` and every loop of the
parser do. `Finishes` assumes weak fairness of the parser's next step: a
sequential program that can go on does. Nothing else is assumed; the other
properties are safety.

### Disagreements found

- `Lex.cpp:580`: `|&` is scanned as OR_OR, `||` as two ORs; `Lex.cpp:136` and
  `README.md:79` say `||` (run `lex_names`).
- `Lex.cpp:355`: an assert that the newline error path two lines of the loop
  above falsifies (run `lex_string_assert`).
- `Resolve.cpp:116`: the cache of function types keeps the caller's array and
  not the copy (run `types_rewrite`); while callers keep their arrays, as the
  tests do, the caches are right (run `types`).
- `Print.cpp:370`: `var x : int`, which `README.md:153` has and the parser
  accepts, is printed by following the null pointer of its value (run
  `print_null`). Three more parts that may be left out are followed in the same
  way: the type a function type returns (27), the size of an array type (35), the
  first two clauses of `for` (253-254). `CrashesOnlyIncomplete` shows that there
  are no others.
- `Print.cpp:270` and `Print.cpp:170`: what is printed is not the S-expression of
  `README.md:112`. The outer of the two parentheses opened before a `case` is
  never closed (270-280), as in the switch that `parse_test` prints
  (`Parse.cpp:648`), and the first word of a block is written onto the word
  `block`. The text that the run `print_sexpr` ends at shows both: a switch with a
  case whose statement is a name.
- `Parse.cpp:301`: after each comma of an enum an item is required; by
  `README.md:146` a list may end in a comma (run `readme_enum`).
- `Parse.cpp:470`: a case of a switch may have no label; by `README.md:175` it has
  one (run `readme_switch`).

Met while modelling and taken as the code has it, without a run: the casts of
README, `(:int*)u` (`README.md:212`) and `CAST '(' type ',' expr ')'` (221), are
refused, since after `(:type)` the code takes a compound literal only and there
is no such keyword; the list of tokens at `README.md:81` puts the shifts among
the operators of `+` and `-`, where `mul_op` (`README.md:226`) and the code put
them among those of `*`, and so does `PrecedenceExact`; two labels before one
colon, `case 1 case 2:`, are accepted, README has one for each; `!`, `~` and
`!=` are in README and in `TokenKind` and are never scanned; a capital `E` does
not make a number a float (`Lex.cpp:441`); `0x` without digits is 0; the `next`
clause of `for` can not be left out (`Parse.cpp:454` looks for a semicolon;
`README.md:184` has a `stmt_list` there and no rule for it); `:=` takes only a
name before it; declarations among statements end without a semicolon, so `var x
= 1;` is refused in a body; what follows a declaration is not read;
`print_tests` gives blocks the address of initializer lists (`Print.cpp:411`),
which are gone when the blocks are printed.

## Proofs

TLAPS checks, for every value of the constants that the named assumptions allow:

- `ArenaProofs`: `ArenaTypeOK`, `AllocsApart`, `TailFree`, `AllocsMapped`,
  `FreeAllLeaksNothing`, `AssertsOnlyOnWrap`, and that `Arena` implements
  `RegionPool`. The properties are not inductive alone: that a new region is
  apart from the old ones needs to know that old ones lie below `ptr` in their
  block, that the tail from `ptr` to `end` is an aligned end of a block on the
  arena's own list, and that blocks in the heap are apart. `ArenaIInv` says so.
  The two lemmas that carry it are about `align_up`: it never goes down, moves
  by less than the alignment, and does not pass an aligned bound.
- `StringInternProofs`: `InternsCanonical`, `SearchExact`, `InternsStable`, and
  that the table implements `InternTable`. `InternIInv` adds to `ArenaIInv` that
  every entry points at a region in use of the string arena, one byte longer
  than its string; a new copy and a new node are apart from all of these, so they
  share no pointer with them and are written over none (`WrittenApart`).
- `KeywordsProofs`: `KeywordsExact` for every list of keywords and whatever was
  interned before. `KeywordsIInv` follows `init`: as long as `end` is what it was
  at the start, the keywords interned lie in order in the block, entries made
  before lie outside the stretch from the first to the last, and after `init`
  new entries lie above it in the block or in another block, apart from it.
- `TypesProofs`: `TypesTypeOK` whatever callers do with their arrays; `TypesCanonical`, `AnswerServes` and that the caches implement
  `InternTable` under the hypothesis `~CallersRewrite`, which `types_rewrite`
  shows to be needed. `TypesIInv` says that an entry of a cache stands for a type
  of its own structure (a type found is one asked for) and that every pointer,
  array and function type has an entry (a structure not found is new). The lemma
  that carries it, `FuncMatch`: the comparison in `type_func` of lengths, returned
  types and array elements is equality of signatures.
- `SymbolsProofs`: `SymbolsTypeOK` and that `Symbols` implements `SymbolTable`. The
  invariant adds to that of the intern table that a symbol's name is an entry of
  it, that no two symbols share one, and that no symbol is being resolved between
  two calls; interning moves no pointer and changes no spelling
  (`InternStepKeepsIInv`), so a search by pointer is one by spelling
  (`SearchBySpelling`).
- `ParseProofs`: `ParseTypeOK`, `LeavesInOrder`, `TreeOwnsArrays` and `NeverPastEnd`,
  for every alphabet, any length of text and any depth of nesting. The invariant
  `ParseIInv` relates what is left to do, the values at hand and the text:
  - every value on `vals` has a kind (a tree, a vector that is still a local, what
    a token carries, `is_default`), and a walk over it makes so many visits and sees
    these tokens (`Parsed`, `Stacked`). What a walk makes of some values does not
    depend on those below (`Clears`), so it follows for a value from its parts
    (`ClearsConcat`, `ClearsNode`) and for its parts from the value
    (`ClearsParts`), with no induction over trees;
  - the tokens seen are in the order of the text, and all that carry something are
    among them but for the one at hand (`Covers`);
  - each item of `todo` finds the kinds it takes on top and leaves others, and the
    last leaves one tree (`Ready`, `After`, `Runs`). A constructor is ready for a
    vector only where it copies it, and nothing goes on after a match of
    END_OF_FILE;
  - `Cost` says how many values an item may add, less four for each token it is
    sure to take; the sum over `todo` stays within what is allowed. Without it the
    walk, which makes four visits for each token, might not come to its end.

  An action replaces the head of `todo` by items written out in it, so it keeps
  the invariant if these items, one after the other, do what the head was to do
  (a lemma `...Keeps` for each action, from one `...Item` for each kind of item).
- `LexProofs`: `LexTypeOK`, `ModMatchesText`, `OverrunsOnlyUnclosed` and
  `IntValueExact`, for every text and every word that holds a digit, and that a
  call of `next_token` which returns has moved the stream on. `LexIInv` says that
  the token fits the text at its start (`Fits`: how far it may reach, which
  modifier, what value) and the stream is where it ends, and that a scanner past
  the null byte has met an unclosed literal. That a value is exact follows from
  `AccumulateExact`, that one turn of the loop of `scan_int` overflows exactly
  when the value does not fit, and from `AccumulatedExact`, which relates each
  turn to the weights of the places still to come.
- `LexSpellingProofs`: `LiteralsRoundTrip` and `OperatorsLongest`. The loop of
  `scan_str` is followed from the closing quote back to the opening one; at each
  turn what has been read is a spelling of the characters collected (`ReadFrom`),
  and a turn puts one piece before it (`ReadsPlain`, `ReadsEscape`) or, at an
  escaped null, starts over. For the operators the two tables are compared row by
  row: a kind has the characters the scanner took it for (`NamesAgree`), and an
  operator that a longer name begins with has a row for its second character
  (`OperatorsFollow`).

The recursive functions of these modules (the loops of the scanner, the place
weights, `FlattenSeq`, the walk over a tree) have no induction theorem here. Each fact about them is
proved from a least or a greatest counterexample: a set of numbers that is not
empty has a least one (`LeastNumber`), because finite sets are well-founded.

Assumptions: `ArenaAssumption` (sizes are positive and below the address space,
which the alignment divides), `InternAssumption`, `KeywordsAssumption` (the
keywords differ from each other and from the strings interned before them),
`LexAssumption` (no text contains the null byte, and u64 holds a digit
15), `TypesAssumption` (`int` and `float` are two types),
`SymbolsAssumption` (null is no declaration), `ParseRefAssumption` (`AsREADME` is a
truth value), `ParseAssumption` (an alphabet names kinds of token other than the
end, and a text has a token). malloc is assumed to return aligned blocks that are apart.

Only model-checked: the language and the trees of the parser and what is printed
(`AcceptsOnlyDecls`, `RefusesNoDecl`, `PrecedenceExact`, `PrintsEveryLeaf`,
`IndentGivenBack`, `CrashesOnlyIncomplete`: the grammar they compare with and the
functions of the printer are RECURSIVE operators over the text or the tree),
`SymbolsAreNames`, and all liveness, with the fairness it rests on.

## Not modelled, and plan

1. Proofs: what is printed, if the printer can be restated, as the leaves of a tree
   are, by a walk with a stack of its own; that the parser accepts only
   declarations, which needs the grammar as a table of items like those of `todo`.
2. `FrontEnd`: scanner and parser composed on characters. `NeverPastEnd` and
   `OverrunsOnlyUnclosed` are the two halves of what it would show.
3. A resolver, when the code has one: `resolve_decl` is a stub, no symbol leaves
   UNRESOLVED, and nothing keeps an address of `sym_get` across a `sym_put`, so a
   cycle of definitions or a stale `Sym*` can not yet come about.

Left out for good: the wording of messages, the layout of printed trees beyond
spaces and parentheses, how numbers are printed, the trees that `print_tests`
builds by hand, the byte layout of nodes, the value `strtod` computes, `xrealloc`, `memdup` and the
vendored headers (no caller or no state), the build scripts.
