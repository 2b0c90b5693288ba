# MattSQL in TLA+

MattSQL is a small SQL engine written as a library, with a command line shell on
top: everything happens inside a
call of the host program, on the caller's thread, over storage in memory. There
are no threads and nothing is persisted. What makes the code hard to get right
is therefore not scheduling but **long sequences of legal calls on shared
state**: heaps whose cursors, handles and record views outlive other calls; a
catalog that keeps the same facts in four maps; statements that span catalog and
storage and can fail in between; plans that are executed after the world they
were made for has changed; an I/O queue with limits and two kinds of request ids;
move-only handles that own memory; and text that three pieces of code scan, each
in its own way, while it arrives line by line.

This directory models that: modules translated from the source, TLC runs that
explore every order of calls on small instances and every short text, and TLAPS proofs, for
every value of the constants, of the safety properties of heap, engine, runtime, C ABI and
shell, of the abstract specifications they implement, and of what the tuple codec
promises for every row and every record. Paths below are relative to the repository (`src/src/...` is the repository's `src/`).

## 1. Inventory

| Component | State it keeps | Operations | Talks to |
|---|---|---|---|
| Slotted page (`src/src/storage/page`) | header (`kind`, `lower`, `upper`), slot directory, record bytes | Initialize, Insert, Read, Delete, FreeSpace, SlotCount | called by the heap |
| Page heap table (`src/src/storage/heap`) | vector of page frames, record counter, per-cursor position | Insert, Read, Delete, Scan, Next, OpenHandle | pages; shared by handles and cursors through `shared_ptr<Impl>` |
| Memory block device | bytes, block size | Read, Write, Flush | called by the runtime |
| Hosted runtime, I/O | attached device, next request id, completion queue | SubmitIoBatch, PollIoCompletions, SubmitIo, PollIoCompletion | device, callers' buffers |
| Hosted runtime, memory | none of its own; the host's allocator | AllocatePages, FreePages, AllocatePageSpan; the owning handle's constructors, move, Release, Reset, destructor | host allocator |
| Hosted runtime, rest | next task id | SpawnTask, Yield, clock, Log, Panic | - |
| C ABI adapter / provider | callback table; last status text, completion texts | every runtime call, translated in both directions | a runtime on each side |
| Catalog (`src/src/catalog`) | tables by name, names by id, indexes by table, index keys by id, two id counters | CreateTable, DropTable, GetTable, SetTableHeapRoot, CreateIndex, ListTables | called by binder, executor, host program |
| Table storage manager | heap per table id, next root page | CreateHeap, OpenHeap, RecordCount | heaps; executor |
| Lexer, parser | cursor in the text, cursor in the tokens | Tokenize; ParseStatement | engine |
| Binder, planners, optimizer | none between statements | statement -> bound statement -> logical -> physical plan | catalog (binder) |
| Executor, SQL engine | none of its own; owns or borrows catalog and storage | Execute(sql), Execute(plan) | catalog, storage, codec, evaluator |
| Tuple codec, expression evaluator, value operations | none | Encode, Decode; Evaluate | executor |
| Command line shell (`src/src/main.cpp`) | pending input, accumulated success | read files, arguments, standard input or lines; split statements, run, print, exit code | engine |
| B-tree, buffer pool, WAL, transaction manager | interfaces only, no implementation | - | - |

What makes each of them correct, and what a test hardly reaches, is listed with
its source line under `hazards` in `PROJECT.json`. In short: pages keep directory
and records apart up to the last byte and after slot reuse; a scan misses and
repeats nothing while others insert and delete; a lent `RecordView` never
changes; the counter is exact; a batch is all or nothing and each request
completes exactly once; a page allocation has one owner and is freed once; the
catalog's maps agree; a failed statement leaves no trace; a plan acts on the
table it was made for or not at all; expressions are computed exactly or fail,
and optimizing a statement changes nothing its caller can see; a stored record is
read back as the row it was made of and a damaged one is noticed; the shell cuts a
text where the lexer ends statements, runs every one of them and ends; the parser
keeps every token and groups operators by precedence.

## 2. Modules

| Module | Models | Built on |
|---|---|---|
| `SlottedPage` | `DefaultSlottedPage`: layout and operations as operators on a page | - |
| `HeapTable` | `PageHeapTable` and its `Cursor` | `SlottedPage`, implements `RecordStore` |
| `RecordStore` | abstract: a map from ids to bytes, with scans | - |
| `SlottedPageProofs`, `HeapTableProofs` | lemmas and theorems | `SlottedPage`, `HeapTable` |
| `MemoryBlockDevice` | the device as operators on its bytes | - |
| `HostedRuntime` | batches, ids, completion queue, single-request calls | `MemoryBlockDevice`, implements `IoContract` |
| `IoContract` | abstract: what `docs/reference/runtime_abi.md` promises about I/O | - |
| `RuntimePages` | page allocation, directly and across the C ABI, and `RuntimePageAllocationHandle` | - |
| `CAbiRuntime` | block I/O through `CAbiPlatformRuntime` and `CAbiRuntimeProvider` | `HostedRuntime`, implements `IoContract` up to caught exceptions |
| `Catalog` | `InMemoryCatalog` on `InMemoryHostedCatalogApi`, as operators on a catalog value | - |
| `TableStorage` | `InMemoryTableStorageManager` | `Catalog` |
| `SqlEngine` | bind, plan, execute, and the calls callers make beside SQL | `TableStorage`, implements `TableStore` |
| `TableStore` | abstract: names, incarnations of tables, bags of rows | - |
| `CheckedArithmetic` | the checked integer functions of `value_utils.hpp`, for any word size | - |
| `SqlValue` | SQL values | `CheckedArithmetic` |
| `Expressions` | typing, evaluation and folding of bound expressions | `SqlValue` |
| `TupleCodec` | `BinaryTupleCodec`: rows as bytes | `SqlValue` |
| `ValueProofs` | theorems about arithmetic and codec | `TupleCodec` |
| `SqlQuery` | one SELECT or INSERT at a time: bind, plan, optimize, execute | `Expressions`, `TupleCodec` |
| `SqlEngineProofs` | theorems about catalog, storage and engine | `SqlEngine` |
| `HostedRuntimeProofs`, `CAbiRuntimeProofs` | theorems about block I/O | `HostedRuntime`, `CAbiRuntime` |
| `RuntimePagesProofs`, `ShellProofs` | theorems | `RuntimePages`, `Shell` |
| `Lexer` | `Lexer::Tokenize` as operators on a text | - |
| `Parser` | `Parser::ParseStatement` and `parse_sql` | `Lexer` |
| `Shell` | `main`, `run_sql_text`, `run_repl` and the statement splitter | `Lexer` (for its properties) |
| `FrontEnd` | shell and parser together, with reference definitions | `Shell`, `Parser` |
| `MC*` | the instances for TLC | the module they are named after |

### Correspondence with the code

**SlottedPage.** A page is its header fields, the slot directory as a function
and the record bytes as a function of the offset. The directory is kept apart
from the bytes, which is sound only while `lower <= upper`; `LayoutOK` says so,
and `SpaceNeeded`/`InsertStatus` compute with the six bytes a directory entry
occupies. The width of 16-bit fields is kept: `Initialize` refuses a page larger
than `kMaxU16`, `Insert` a record larger than that.

**HeapTable.** One action per public call and per outcome of it. The first-fit
loop of `Insert` becomes the least page on which it stops (`StopPages`); the loop
of `Next` the least position at which it stops (`StopPositions`). A call that
appends a page and then fails pops it again in the same action. `scans` is
history: what each scan still owes and what it has returned. Handles opened with
`OpenHandle` share the same state, so they need no variable of their own.

**HostedRuntime.** A batch is one action: requests are executed in batch order on
`[data, memory]` (`Performed`), completions are appended, ids are assigned to the
requests that have none. `memory` is the callers' buffers. `accepted` and
`assigned` in `result` are history.

**RuntimePages.** The allocator is external: it hands out any address that is
not live, so freed addresses come back, for another runtime or alignment too.
`released` is history: whether every `operator delete` was legal. Callers free a
raw allocation with the runtime it came from and adopt it at most once; that is
the documented use, and the only assumption about them. Deleting the pages is
the last thing a handle's `Reset` can do, so a failing `FreePages` never leaves
the handle with an allocation.

A runtime in `AbiRuntimes` stands for the C++ adapter over the provider over a
hosted runtime: what it returns and what it frees crosses both translations, and
what fails their metadata checks after it was allocated is lost.

**CAbiRuntime.** One action per call of the adapter. A batch is checked by the
adapter, translated to ABI requests (codes, flag bits, pointer and length),
checked by the provider (`NullBuffers` are the empty buffers whose span has a null
pointer; other empty ones have an address), translated back, executed by the actions of
`HostedRuntime`; status, count and ids come up through both again. `result` is
what the hosted runtime did, `seen` what the caller gets. The texts of completions
live in a vector of the provider: the model keeps its capacity, and a pointer is
good as long as the vector has not grown since. With `Throws`, an exception
may end a callback at any point where the code can throw: before the hosted
runtime is called, at any request of the batch, before or after a poll has popped.
`fits_size_t` is always true (64-bit sizes). The callback table may be invalid.

**Catalog, TableStorage.** A call is an operator that returns its status and the
structure after it, so that the executor can make several of them in one action.
An identifier is the pair of its folded key and its spelling. `kMaxColumnId` is the largest
`ColumnId`; catalog and binder both refuse a table with more columns.

**SqlEngine.** A statement arrives parsed, or as unparsable. A row is known by its
width and by what binding, evaluation, encoding and the heap say about it, which
keeps the control of `execute_insert` (its four ways to fail and their order)
without values. A heap is its root page and a bag of tuples: this is what
`RecordStore` allows a heap to be, and `HeapTable` is proved to implement it; the
order of a scan is left open. A tuple remembers the schema it was encoded with.
`ExecutePlan` runs a plan made earlier, in any later state and any number of
times. SQL text yields one row per INSERT; `BuildInsert` is the caller that
builds a plan with several rows through the plan classes. Callers give
`SetTableHeapRoot` the root of that table's heap, as `TableInfo` demands, or the
invalid page id. `result.op` and `result.key` are recorded for successful calls
only, because they only tell `TableStore` what a success was. `TableStore` knows a plan by
the incarnation it is for and the rows it inserts (`prepared`, `pending`): a run of it
inserts all of them, none, or, when it fails, the ones before the failure. Its rows are the
values, without the schema they were encoded with.

**CheckedArithmetic, SqlValue, Expressions.** Operators named as in the code. Signed overflow is
undefined in C++, so `ArithmeticExact` has to show that no function computes a
result outside the word; `Quotient` is C++ division, which truncates. A value is a
type and a number: booleans are 0 and 1, as `IntegralValue` makes them, and a text
is its place in the order of texts, since texts are only compared. Evaluator and
optimizer have code of their own for the same operators, and so has the model
(`evaluate_binary`, `fold_arithmetic`, `fold_comparison`, `fold_boolean`). `std::optional`
results of the folding functions are sets of at most one value.

**SqlQuery.** The binder visits an expression operands first, so an expression is
built on a stack: `BindLiteral` and `BindColumn` push, `BindUnary` and `BindBinary`
replace operands by the operator applied to them or end the statement with a type
error. `FinishProjection`, `FinishStar` and `FinishValue` (which coerces) end one
projection or value; what is on the stack when a SELECT runs is its WHERE. `RunSelect`
and `RunInsert` are the rest of `DefaultSqlEngine::Execute`: plan, optimize, plan
physically, execute. What storage answers is an input: the status of `OpenHeap`, the
records a scan returns, and the status of the heap's own calls (the scan's end, or an
insertion), each looked at where the code does: an INSERT opens the heap before it encodes
and hands over a record after that. How tables come about is the business of `SqlEngine`. `plan` keeps the logical plan
before it was optimized, so that the properties can execute it too. `Scans` is
what `execute_seq_scan` returns for each answer of the storage; it is a function
only so that TLC decodes each answer once.

**TupleCodec.** Field after field, with the tags, the bytes of integers lowest
first, negative ones through the unsigned ones they are congruent to, and the
length before a text. `Base`, `kIntegerBytes` and `kLengthBytes` are 256, 8 and 4 in
the code. A text is a place in the order of texts; `Texts` gives its characters. As in
the code, decoding is a loop over the columns that moves an offset through the record. A
reader of a field returns at most one value and the offset after it, none for any damage,
since every such error is `Corruption`. A column of type `Null` is refused by `Encode`
and `Decode`, as in the code, though no `CREATE TABLE` can make one. `Weight` is what a 1 in each byte counts for: the
shifts of the code. `ReadsBack` and `Canonical` are what the codec promises of a row
and of a record. The executor decodes what the storage returns, and a
caller may put any bytes into a heap through `GetStorage()`.

**Lexer, Parser.** A text is a sequence of symbols: characters, and runs of letters or
digits the code never looks into (a keyword in any spelling, a name, a number). Two
runs side by side are one longer run. The cursor of the lexer is an argument, its
loops are "the first position that ..." (`FirstFrom`) or recursive functions. A grammar
rule returns a set of at most one `[item, next]`; every exception is a `ParseError` to
the engine, so all failures are the empty set. Tokens
become operators of the AST as in `TokenToBinaryOperator` and `TokenToUnaryOperator`, and
`FrontEnd` has its own table to write them out again (`BinarySymbol`, `UnarySymbol`).
The symbol `2^63` is the number that fits a word only when negated. `parens`
in a tree is history: the AST drops parentheses, and the properties need them.

**Shell.** An invocation is the arguments (each a spelling, and for a `.sql` file its
content and whether it can be read), whether standard input is a terminal, and
what standard input holds. `unread` is what is still to be read; one round of the
loop `while (extract_statement(...)) run_statement(...)` is one action,
`RunStatement`, for scripts and terminal alike. `find_statement_terminator` is a
fold of `Scanned` (mode and "skip the next character") over the text. Whether the engine
succeeds is the constant `Engine`: in `FrontEnd`, either, except that a text without
one of the three leading keywords fails. `scripts` and `ran` are history.

**FrontEnd.** Reference definitions for the parser: writing an AST out again
(`SpellStatement`), grouping by precedence (`BoundHere`), and an acceptor for lists of
expressions (`Scan`) that counts parentheses instead of descending.

## 3. Runs

| Run | Checks | Instance | States |
|---|---|---|---|
| `heap` | `TypeOK`, `LayoutOK`, `RecordsDisjoint`, `RecordCountExact`, `ScanPositions`, `PageIdsConsecutive`, `StoreSpec`, `LentBytesFrozen` | pages of 20 bytes, 2 valid page ids, records of 4, 7 and 15 bytes, one cursor | 29,333 |
| `runtime_io` | `TypeOK`, `QueueBounded`, `ContractSpec`, `AssignedIdsGrow` | device of two 2-byte blocks, batches of 0 to 3 with limit 2, queue of 3 | 15,736 |
| `runtime_ids` | `AssignedIdsFresh` (violated) | the same | - |
| `pages` | `OneOwner`, `FreedOnce` | a hosted runtime and one behind the C ABI, 3 handles, 2 addresses | 15,616 |
| `abi_io` | `MessagesIntact`, `ContractAcrossAbi` | as `runtime_io` with 5 requests that reach the runtime and 4 that do not, exceptions anywhere | 32,936 |
| `abi_submission` | `AllOrError` (violated) | the same | - |
| `abi_poll` | `CompletionsReachCaller` (violated) | the same | - |
| `catalog` | `CatalogConsistent`, `FailureAtomic` | 2 table names in 3 spellings, 3 indexes, 4 table ids, 2 index ids; a request for every check | 76,537 |
| `sql` | `TypeOK`, `RootsResolve`, `TuplesDecode`, `FailureAtomic`, `StoreSpec` | a table name in 2 spellings and up to 3 incarnations, schemas of 1 and 2 columns, 2 root pages, 3 table ids, 2 stored tuples | 131,827 |
| `query` | `EvaluationExact`, `BoundTypesHold`, `OptimizerSound`, `BoundInsertFits`, `RecordsCanonical` | 4-bit integers of two 2-bit bytes, 8 literals, a table of 3 columns, 5 answers of the storage, 5 expression nodes per statement | 4,135,320 |
| `front_end` | `SplitAsLexed`, `ExitTellsFailure`, `AcceptsExpressions`, `StatementsSpelled`, `GroupedByPrecedence`, `InputIsRun`, `ProgramEnds` | texts of up to 6 symbols out of 3 to 6 at a time, as scripts, typed, in up to 3 files, and after the heads of the three statements | 131,756 |
| `parser_not` | `PrecedenceRespected` (violated) | expressions of `a`, AND, OR, NOT | - |

**Bounds.** *heap*: a 20-byte page holds two 4-byte records exactly to the last
byte, or one 7-byte record with too little room for a second slot, and the
15-byte record fits no page, so the path that appends a page and pops it again is
taken; after two pages the ids are exhausted. Deleted slots are reused on both
pages. One cursor suffices for TLC because cursors do not influence each other or
the pages; the proofs cover any number. *runtime_io*: a queue of 3 with batches of
2 reaches every fill level, including room for one of two requests; requests
cover every check, ids of the caller's and assigned ones, and reads and writes of
the same blocks and buffers in one batch. `MaxRequestId` only stops the counter.
*pages*: three handles are needed for a move whose target owns something while a
third owns the block that was allocated again. *abi_io*: polls of up to three failed
completions need three texts in the vector, more than its capacity may be from
earlier polls; batches of two have a first request an exception can leave behind. One
request has an empty span with a null pointer, which the provider refuses, another an empty
span without, which it lets through.
*catalog* and *sql* are one module
with two sets of inputs: indexes multiply the states and have nothing to do with
rows, so the catalog run has indexes and no rows, the other rows and no indexes.
Two root pages and three table ids let a CREATE TABLE fail for want of a root
page after earlier ones succeeded, and let a name be dropped and created again
with another schema while a plan for its first incarnation is still held. `kMaxColumnId`
is 1, so that the table of three columns in the catalog run has one too many.
`MaxTuples` (over all tables) is enough for a partial failure to leave two rows and for a
plan of two rows to store both.
*query*: five nodes are two binary operators with three operands, or a projection
and a predicate with an operator each; that is enough for an operator over a folded
one, for a short circuit around a failure, for the smallest integer divided by -1
and for an INSERT with an operator in a value. Four bits give products of every
combination of signs that fit and that do not. The tables returned hold NULL,
both extreme integers and -2; a third has a record that was cut short, a fourth cannot be
opened, and the heap of the fifth fails after a record, or when it is given one. Integers of
two bytes have a low and a high one; texts are empty, or of one or two characters, and one
literal has 16, the first length that two 2-bit bytes cannot count.
`RecordsCanonical` looks at every record an INSERT stores with any one byte changed,
any number of bytes cut off or one appended; for every record, of any bytes, it is proved
of the codec (section 4). `EvaluationExact` covers the arithmetic through the
expressions; for all operands and every word size it is proved (section 4).
*front_end*: a splitter or lexer bug shows where quotes, comment marks, terminators
and line ends meet, so all texts over a few of these at a time are tried, long
enough for a string or comment with one of the others inside and a statement after
it; typed texts put a line break at every place. Three files suffice for a failure
between two successes. Six symbols are a chain of three operands with NOTs, or an
expression in parentheses with signs.

**Deadlock and fairness.** Nothing in the library happens by itself: every step
is a call, and callers may stop. So no fairness is assumed for it, no liveness is
claimed, and `CHECK_DEADLOCK FALSE` is set (not for `query`, where a
statement can always be ended): where the bounds refuse every call the
model simply ends. "Every accepted request completes" is a safety statement
here, because completions are queued before `SubmitIoBatch` returns and
`IoContract` demands that a poll delivers whatever is owed and fits.

The shell is different: it is a program, and between two inputs it goes on by
itself. `Shell` assumes weak fairness of `ProgramStep`, the steps of the program's
own sequential code, which the operating system keeps running and which wait for
nobody (a statement ends, since the engine has no loop that waits). `ReadLine` and
`EndOfInput` have no fairness: a user may leave the terminal alone forever.
`InputIsRun` says of each script by itself that its statements have been run, again and
again for a terminal, where more may be typed. Deadlock is checked in this run; a program that has exited stutters (`Exited`).

**What the runs show.** All properties hold except four. Three contradict
a sentence of `docs/reference/runtime_abi.md`, the fourth is a bug of the parser. `runtime_ids` shows that
the hosted runtime assigns ids from a counter without regard to ids callers
chose: a request submitted with id 1 and then one without an id, which is
assigned 1 too, leave two completions with id 1 in the queue. 
`docs/reference/runtime_abi.md` (lines 225-226) says assigned ids "must not be
reused while an earlier request with that ID can still complete". A caller that
uses both kinds of ids can only tell the completions apart by `user_data`.
`AssignedIdsGrow` is what does hold: the runtime never assigns one id twice.
`abi_submission` and `abi_poll` are about exceptions, which the provider's callbacks
turn into `INTERNAL`: one in the middle of a batch leaves the requests before it
executed and their completions queued, though "on failure, no request in the batch
may be accepted and no completion may be produced" (lines 233-234); one while
popped completions are translated loses them, though a request "must complete
exactly once" (line 267). `ContractAcrossAbi` says what does hold then: nothing is
delivered twice or invented, the queue an exception leaves behind keeps its order, and every
other call keeps the contract.

`parser_not` shows that `a OR NOT b AND c` is parsed as `(a OR NOT b) AND c`.
`ParseExpression` "parses an expression with precedence climbing from the minimum
precedence" (`parser.cpp:211`), but after NOT it returns without entering its operator
loop, so the AND is left to the loop that is handling the OR. With `a` true and `c`
false the WHERE is then FALSE instead of TRUE. For the same reason `NOT a AND b` is
refused. `GroupedByPrecedence` says that this is the only deviation; `AcceptsExpressions`
leaves NOT out and takes `*` for an operand as well as an operator, as the parser does.

Two behaviours that one might argue about are stated as they are, not as
findings, because no document says otherwise: an INSERT plan of several rows
that fails in the middle keeps the rows before the failure, and a plan for a
dropped table still works on that table's heap, which is never freed. Both are
explicit in `TableStore` and `FailureAtomic`.

`query` shows that the optimizer is invisible with one exception, which
`OptimizerSound` spells out: a WHERE that folds to FALSE removes the scan, so a table
that cannot be read yields no rows instead of an error. It also states how NULL is
treated: `=` and `<>` with NULL are FALSE (not unknown), every other operator fails.
`BoundInsertFits` shows that the codec's own type checks never fire for SQL, that it
refuses a row only for a text that is too long, and that what is stored is read back; `RecordsCanonical` that no record but its own is ever read
as a row, so damage that leaves a readable record has made exactly another row's.

`front_end` shows that the splitter and the lexer agree on every text tried: no
statement is cut in a string or comment, or run together with the next. A text of
white space the shell does not know as blank (a form feed) or of comments only is
passed to the engine, which refuses it; the exit code then tells of a failure.

**Mutants.** Definitions named `X_Something` with a comment "Mutant" are plausible
bugs of the definition `X` that follows them; each property is violated when its
mutant takes the place of the original. `PROJECT.json` pairs them.

## 4. Proofs

Each theorem holds for every value of the constants that satisfies the named
assumptions; TLC evaluates the assumptions on the instances of section 3.

| Module | Theorem | Says |
|---|---|---|
| `HeapTableProofs` | `HeapInvariant` | `Spec => []HeapInv` |
| | `TypeCorrect` | `Spec => []TypeOK` |
| | `PagesStayGood` | `Spec => [](LayoutOK /\ RecordsDisjoint /\ PageIdsConsecutive)` |
| | `RecordsStayDisjoint`, `PageIdsStayConsecutive` | its second and third part |
| | `CountIsExact` | `Spec => []RecordCountExact` |
| | `ScansArePlaced` | `Spec => []ScanPositions` |
| | `ViewsStayValid` | `Spec => LentBytesFrozen` |
| | `ImplementsStore` | `Spec => StoreSpec`: the heap implements `RecordStore` |
| `SqlEngineProofs` | `ImplementsStore` | `Spec => StoreSpec`: the engine implements `TableStore` |
| | `SqlInvariant` | `Spec => []SqlInv` |
| | `EngineTypeCorrect` | `Spec => []TypeOK` |
| | `CatalogStaysConsistent` | `Spec => []CatalogConsistent` |
| | `RootsAlwaysResolve` | `Spec => []RootsResolve` |
| | `TuplesAlwaysDecode` | `Spec => []TuplesDecode` |
| | `FailuresAreAtomic` | `Spec => FailureAtomic` |
| `RuntimePagesProofs` | `PagesInvariant` | `Spec => []PagesInv` |
| | `EveryBlockHasOneOwner`, `BlocksAreFreedOnce` | `Spec => []OneOwner`, `Spec => []FreedOnce` |
| `HostedRuntimeProofs` | `HostedInvariant` | `Spec => []HostedInv` |
| | `RuntimeTypeCorrect`, `QueueStaysBounded` | `Spec => []TypeOK`, `Spec => []QueueBounded` |
| | `AssignedIdsKeepGrowing` | `Spec => AssignedIdsGrow` |
| | `ImplementsContract` | `Spec => ContractSpec`: the hosted runtime implements `IoContract` |
| `CAbiRuntimeProofs` | `ContractSurvivesAbi` | `AbiSpec => ContractAcrossAbi`: so do adapter and provider on top of it, up to exceptions |
| | `AbiInvariant`, `NoMessageDangles` | `AbiSpec => []AbiInv`, `AbiSpec => []MessagesIntact` |
| `ShellProofs` | `ShellInvariant`, `ExitCodeTellsFailure` | `Spec => []ShellInv`, `Spec => []ExitTellsFailure` |
| `ValueProofs` | `ArithmeticIsExact` | `ArithmeticExact` for every `kMax` |
| | `RowsReadBack` | `ReadsBack`, for every schema and every row |
| | `RecordsAreCanonical` | `Canonical`, for every schema and every record |

**Heap.** Assumptions: `PageSizeAssumption` (`PageSize` is a natural number; zero and
sizes beyond 16 bits are included, the heap then refuses every insert),
`ByteAssumption` (0 is a byte, pages are zeroed), `HeapAssumption` (page ids are
natural numbers, the root lies at or below the invalid id, records are sequences
of bytes). `HeapInv == TypeOK /\ GoodPages(pages) /\ RecordCountExact /\
ScanPositions`. None of the parts is inductive alone. Disjointness of records
needs the layout (a new record goes below `upper`, all old ones lie above it); the
layout needs the types; the counter needs that page ids are distinct, or one
delete could take two ids out of `LiveIds`; `ScanPositions` needs that `FindPage`
finds the page a cursor index means, so that an id and a position are the same
thing; and refinement of `Next` needs `ScanPositions`: a cursor may say "end" only
when nothing is pending, which follows because all that is pending is live and
ahead of it. `GoodPages` also records that a heap with a page has a page size
between 1 and `kMaxU16`, from which `validate_header` succeeds and `Corruption`
never arises. `SlottedPageProofs` proves what each page operation does
(`InsertKeepsLayout`, `InsertKeepsRecords`, `InsertKeepsDisjoint`, `DeleteEffect`,
`AccessExact`, `InitializeEffect`); `HeapTableProofs` lifts that to the vector in
four summaries (an insert `Binds` a fresh id or `Refuses`; a delete `Unbinds` or
`Misses`; a cursor step `Yields` or ends) and derives both the invariant and the
refinement from the summaries alone.

**Catalog, storage, engine.** Assumptions: `PageIdAssumption` (`kInvalidPageId` is a
positive number), `ColumnIdAssumption` (the largest column id is a natural number) and
`InputsAssumption` (the
types of statements, requests, rows and bounds). The first part of `SqlEngineProofs`
is about catalog values without time: each call of the catalog is shown to return
either an error and the catalog it was given, or exactly the catalog with one table,
index or root more or less (`CreateTableExact`, `DropTableExact`,
`SetTableHeapRootExact`, `CreateIndexExact`), and each of these keeps `GoodCatalog`:
the maps agree in both directions, a table lists its indexes, ids in use are below the
counters. `CatalogConsistent` is weaker than that and not inductive: dropping a table
needs that its list of indexes is complete, which is what makes DropTable find all of
them in `index_keys_by_id`. The second part does the same for `CreateHeap` and the
inserted tuples (`GoodStorage`: root ids below the counter and different). What ties
the two together is `Known`: every table and the held plan, however old, is `Sound` (its
id was issued; a root it names is the root of its heap; the heap's tuples have its
columns), and two descriptions of one id have the same columns (`Compatible`). It needs that ids are never issued again, so that a
dropped table's heap is never found under a new one's id. `RootsResolve` and
`TuplesDecode` follow for catalog and plan. `RollbackExact` shows that dropping the
table whose heap could not be made leaves the catalog as it was but for the id, which
is `FailureAtomic`'s exception. `ExecuteSound` states for one plan both what holds
afterwards and what a failure leaves, and each action follows from it.

*`TableStore`.* `names` is the catalog's map from folded names to table ids, `contents` the
rows of each heap. That a heap's bag of tuples and its bag of rows are the same up to the
schema rests on `Sound`: all tuples of a heap were encoded with one schema, so a row comes
from one tuple only (`EncodeInjective`, `RowsExact`), and storing tuples adds the rows they
were made of, each as often (`RowsStored`). `ExecuteExact` then says of any plan, however
old, that its execution changes nothing, creates, inserts a prefix of its rows (all of
them exactly when it succeeds) or returns the rows of its heap; each action is one of the
abstract steps. `SqlInv` is needed for the plans: the incarnation a plan was prepared for is
the one its root page leads to, also after the name has been given to another table.

**Pages.** `PagesAssumption` (sizes are positive, `null` is neither a runtime nor a block)
and `AlignmentAssumption` (the default page size and the largest fundamental alignment are
powers of two). `PagesInv`: every live block belongs to a handle or a caller, all owners are
different, each knows runtime and alignment of its block. Absence of leaks alone is not
inductive, since a move onto a handle that owns something frees a block, and needs that
nobody else owns it.

**Block I/O.** `GeometryAssumption`, `LimitsAssumption`, `CallersAssumption` (requests
have unsigned ids, offsets and lengths, and point to a buffer), and for the C ABI
`AbiAssumption` (among others: a span with a null pointer is empty). That the status of a
request is known before the batch is executed rests on device and buffers keeping their
sizes through any number of requests. `Performed` is a recursive function; its existence
and what it preserves are proved by taking the least request for which they fail
(`PerformedLast`, `PerformedTyped`). Ids: the k-th unnumbered request gets the counter
plus the number of those before it, and cardinalities of growing sets grow
(`AssignedInRange`).

*`IoContract`.* `outstanding` is the bag of the queue. Appending the completions of a batch
and popping from the front add and remove exactly those (`BagConcat`, `BagSplit`), and the
size of the bag is the length of the queue (`BagSize`), from which follows that an
accepted batch stays within the limit and that a poll delivers all that is owed and fits. What a batch does to device and buffers is executed request by request in the model
and is one relation in the contract: bytes no successful write touches stay as they were
however many requests come before (`DataKept`, `MemoryKept`), a write no later one
overlaps is on the device afterwards, and a read returns what the last write left
(`BatchKeepsContract`).

*C ABI*: in addition a status survives both tables of codes, and
push_backs within the reserved capacity leave the vector where it is
(`CapacityEnough`), for any number of completions; the invariant speaks of the queue
because an exception may leave any first part of a batch in it. A request survives its
way down and a completion its way up with every field (`RequestSurvives`,
`CompletionSurvives`), so what the caller is told is what the hosted runtime did, and the
contract carries over (`SeenAccept`, `SeenDeliver`, `SeenRefuse`). An exception leaves a
first part of the batch executed, which is itself a batch the contract speaks about
(`ThrowsStep`), or drops what was popped (`PollThrowsStep`).

**Shell.** `InvocationsAssumption` (the types of arguments and input); nothing is assumed
of the engine's answers. `ShellInv`: the sources taken are the first n, each taken once, and
`success` says whether those could be read and all statements run so far succeeded.

**Arithmetic.** `kMaxAssumption` (positive), so also `std::int64_t`. The tests of
`CheckedIntegerMultiply` compare a factor with a truncated quotient; `QuotientBound`
shows this equivalent to comparing the product with the bound, and
`MultiplyOverflowsExact` applies it to the four combinations of signs.

**Codec.** `CodecAssumption`: at least four byte values (the tags), an integer's bytes
have exactly as many values as the word, lengths have at least one byte, texts are different
sequences of bytes. Base 256, 8 and 4 bytes are an instance. Both theorems take schemas
of any length, from columns of any type, nullable or not (those of type `Null` are refused). `RowsReadBack` takes any
row, valid or not, and says something about those `Encode` accepts: it refuses a text that is
too long for its length field. `RecordsAreCanonical` takes any bytes, of any length, with one
hypothesis (`Spelled`): any run of them is one of `Texts`, as any run of bytes is a
`std::string`. `Weights`, `DivideFurther` and `DivisionUnique` are the arithmetic: the bytes
written sum up to the number (`WrittenIsRead`) and different bytes to different numbers
(`SumsDiffer`, `ReadIsWritten`), and both survive the passage of negative integers through
unsigned ones. From that one field is read back wherever it stands in a record
(`FieldIsRead`), and a field that was read is the only one with those bytes (`FieldRead`):
this is where a boolean byte other than 0 and 1, or a NULL in a column without NULLs, would
break it. The row follows by concatenation (`Flattened`, `PartsHeld`). The
recursive functions are shown to exist by `Recursion`, and facts about all their
values by `UpTo`, both from the least number that would be a counterexample.

**Strengthened while proving.** `TypeOK` of `HostedRuntime` now fixes the sizes of device
and buffers. `StopsAt`, the position at which a loop over columns or rows stops, was
described by a predicate that left it open when something fails; TLC had always
chosen the right one, the proof could not, and the definition is now exact. Maps are
extended with `Put`, which says what `emplace` leaves of the other entries. Sizes of bags
(`Owed`, `RowsOf`) are counted with `Cardinality` of sets of numbered copies, since the
bag module known to the prover defines its own count through a local operator. `TypeOK`
of `HostedRuntime` says of the requests in `result` that they are a sequence of
requests, without which the contract could not be read off them. `TableStore` used to let a
plan insert any one or two rows; it now remembers the plan's own rows, and a failing
run may keep only a first part of them. `TupleCodec` reads with offsets and
recursive functions.

**Model-checked only.**

- `SplitAsLexed`: it compares two scanners, one of them a fold over the whole text, by
  what they do to every text; that is induction over texts.
- The properties of `SqlQuery` and `FrontEnd`: `Expressions` and `Parser` are recursive over
  trees and texts (`RECURSIVE`), which the prover cannot use. The arithmetic below
  `EvaluationExact` and the codec below `RecordsCanonical` and `BoundInsertFits` are proved,
  in a module that reaches no such operator. Where recursion runs over a number, as in
  `Performed`, the multi-row INSERT, `Capacity` and the codec's loops, the least-number
  argument takes the place of induction.
- Liveness (`InputIsRun`, `ProgramEnds`).

## 5. Not modelled

- Source locations of tokens, the wording of errors, prompts, display names of
  result columns and the formatting of values.
- `AddRule` (the engine makes an optimizer with the default rules for every
  statement).
- C ABI: runtimes other than the C++ provider behind the adapter. The adapter's
  checks against them are in the model (`SubmissionChecked`, `PollStatus`) but never
  fire for an honest provider.
- Tasks, clock, log, tracing, profiling: no state that matters to results.
- B-tree, buffer pool, WAL, transaction manager: interfaces without code.
- Pages corrupted from outside: pages are made by the heap and live in its memory
  only, so the `Corruption` paths of pages, which are in the model, are proved
  unreachable. Damaged records are another matter, see `RecordsCanonical`.

## 6. State of the project

Every component of section 1 that has code which matters to results is modelled and
checked. Proved are all safety invariants and action properties of the heap, the engine with
catalog and storage, page ownership, the hosted runtime, the C ABI and the exit code; that
heap, engine, hosted runtime and C ABI implement their abstract specifications; and
arithmetic and codec for all inputs. What TLC alone answers for is listed at the end of
section 4. The next thing worth proving would be that the splitter and the lexer agree on
every text, with both written as folds of a step over the symbols, so that a relation
between the two modes could be carried along by the least-number argument; expression
evaluation would need the same argument over the size of trees.
