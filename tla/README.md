# The Couchbase Analytics ODBC driver in TLA+

This directory models the driver under `src/driver/`: what an application can
rely on when it connects, asks for catalogs, prepares, executes, fetches, binds,
sets attributes, frees and asks for diagnostics, in any order and whatever
fails, and what the values it hands in and gets back mean. TLC checks the
modules on small instances; TLAPS proves the central invariants for every
instance.

The driver is a library without threads of its own. Every ODBC call runs to
completion on the caller's thread, and the answers of the server arrive through
a callback inside the call that waits for them (`lcb_wait`). Two things make it
hard. One is state that outlives a call: rows left in a stream, records left past
a count, a flag set ahead of time, a row taken back from a pool, a configuration
half reset. Those models take **one ODBC call as one action** and let the
application make any sequence of calls; only where calls nest (`Diagnostics`)
or go round in a loop (`UnicodeConversion`) is a call several steps. The other
is computation inside one call over inputs with many borders: queries put
together of conditions, escapes inside escapes, decimals, calendars, buffers.
Those models are operators on enumerated inputs, compared with definitions
written from the rules and not from the code (`OneCall`).

Paths below are relative to `src/driver/`.

## 1. Inventory

| Component | State | Operations | Where |
|---|---|---|---|
| Statement execution and cursor | prepared / executed / forward-executed flags, parameter-set cursor, parameter markers, the text stream of the server callback, the result reader | prepare, execute, execute directly, execute ahead (`SQLNumResultCols`), more results, close, catalog functions, type info | `source/statement.cpp`, `include/statement.h`, `api/odbc.cpp` |
| Result set and reader | read-ahead queue, current row set, row-set and row position, `finished`, affected rows, pool of rows, the order of columns | fetch, decode a row, retire a row set, get data | `source/result_set.cpp`, `format/source/CBAS.cpp`, `api/impl/impl.cpp` |
| Handles and object lifetime | the registry of handles, the maps of children of the driver, environments and connections; implicit and explicit descriptors | allocate, free, share, look up | `include/driver.h`, `include/object.h`, `source/{driver,environment,connection,statement}.cpp` |
| Diagnostics and dispatch | header and records of every handle | reset, store code or error, read; nested dispatch | `source/diagnostics.cpp`, `include/driver.h`, `api/impl/impl.cpp` |
| Descriptors and column bindings | count and records of an ARD | bind, unbind, reset, set and copy fields, read into bound buffers | `source/descriptor.cpp`, `api/impl/impl.cpp` |
| Parameters | count and records of APD and IPD; the arguments | bind, unbind, reset, describe, make arguments | `source/statement.cpp`, `api/impl/impl.cpp` |
| Connection and configuration | configuration values, libcouchbase instance, browse steps and pieces | connect in three ways, disconnect, reset and set configuration | `source/connection.cpp`, `config/config.cpp`, `api/odbc.cpp` |
| Driver log | file, stream, sessions | two attributes, configuration | `source/driver.cpp` |
| Attributes | values in environments, connections, statements and descriptors | set, get | `api/impl/impl.cpp`, `include/attributes.h` |
| Catalog functions and information | none beyond a call | build queries, describe types, answer `SQLGetInfo` and `SQLGetFunctions` | `api/odbc.cpp`, `api/impl/queries.{h,cpp}`, `utils/source/type_info.cpp` |
| Escape sequences | the lexer's look-ahead and its flag for spaces | translate a query | `escaping/` |
| Connection strings and DSNs | none beyond a call | read a string, read a DSN | `config/config.cpp` |
| Documents | none beyond a call | parse JSON, find a column, write a request | `source/cJSON.c`, `format/source/CBAS.cpp`, `source/statement.cpp` |
| Type conversion | none beyond a call | text to value and back, fill and read buffers | `utils/include/type_info.h`, `utils/include/date.h`, `utils/source/` |
| Unicode conversion | converter, its pending output, growing buffers | to pivot, from pivot, between encodings | `utils/include/unicode_converter.h` |
| Other result formats, setup dialog | not reached by an execution; windows | | `format/`, `utils/source/type_parser.cpp`, `platform/win/` |

How they interact:

* Every entry point goes through `Driver::call`, which looks the handle up in
  the registry, resets the diagnostics of the object, runs the operation and
  stores its code or its exception. A statement call may dispatch to a
  descriptor, a descriptor call to the descriptor it copies, and a connect to
  `SQLFetch` and `SQLGetData` on a statement of its own.
* A statement takes parameters from its effective APD and IPD, submits a query
  to libcouchbase and waits; the callback appends rows to a text stream that
  belongs to the statement and not to the run. The reader decodes rows from it
  on demand, and a fetch moves them to the buffers of the effective ARD.
* A statement owns its four implicit descriptors together with its connection
  (shared pointers) and refers to explicit ones weakly.
* A catalog function is a query, executed like any other, whose columns are put
  into the order ODBC prescribes by an array the function leaves behind.
* A connect reads its string, the DSN it names and the URL in either, sets the
  driver's log, makes an instance of libcouchbase and probes the service.

What is hard, and what makes each component correct:

* *Statement and result set*: no row lost, repeated or reordered between server
  and application whatever is read ahead and whatever fails to decode; counts
  and positions agree with what was delivered; a run executed ahead is reported
  once; each parameter set is served once and in order; a fetch loop ends; a cell
  comes from the document of its row and stands in its column.
* *Handles*: the registry is exactly the set of live objects; parents outlive
  children; a statement always has a live descriptor of its own connection;
  addresses may be reused.
* *Diagnostics*: what a handle shows is what its own last call did, whole and
  unmixed, although calls nest and old records stay in the vector.
* *Bindings*: a fetch writes to the buffers the application asked for and to
  no other; the count is the highest bound column; the arguments of a query are
  the values bound last, in place, with the type bound last.
* *Connection*: a connect starts from nothing a previous one left; an open
  connection has a live instance of its own; what a browse has collected agrees with
  its step; log sessions are paired.
* *Single calls*: what is written by the rules is read as what it means, what
  the driver announces it does, and what is put into a buffer stays inside it.

`PROJECT.json` lists the hazards line by line.

## 2. The modules

| Module | Models | Uses |
|---|---|---|
| `ResultSet` | the reader and its queues, as operators | |
| `Statement` | one statement and its server | `ResultSet` |
| `RowFetch` (`MCRowFetch`) | the fields of rows: documents, column order, row pool, fetches, `SQLGetData` | |
| `HandleRegistry` (`MCHandleRegistry`: symmetry) | every object of every class | |
| `CallReports` | abstract: what an application may rely on when it asks for diagnostics | |
| `Diagnostics` | the diagnostics of every handle under nested calls; implements `CallReports` | `CallReports` |
| `Descriptor` | count and records of a descriptor, as operators | |
| `ColumnBinding` (`MCColumnBinding`) | application row descriptors | `Descriptor` |
| `ParameterBinding` | the two parameter descriptors of a statement and the arguments of a query | `Descriptor` |
| `DriverLog` | the log's file and sessions, as operators | |
| `Configuration` | fields, keys and the three sources of a configuration, as operators | |
| `Connection` (`MCConnection`) | connections through connect, browse, disconnect, attributes | `Configuration`, `DriverLog` |
| `CatalogQuery`, `Types`, `Catalog` | the queries of the catalog functions; types under their many names; what is listed, described and announced | each other |
| `ConnectionString`, `Strings` | the reading of connection strings and lists; what is written by their rules | `ConnectionString` |
| `EscapeSequences`, `Translation`, `Announced` | the escape parser; queries with escapes and their meanings; the functions announced against those it knows | `EscapeSequences` |
| `Json`, `Documents` | cJSON's parser; documents, their meanings and the requests sent | |
| `Numbers` | numbers by their digits, and powers, as functions | |
| `Attributes` | integer attributes and the places they share | `Numbers` |
| `Promises` | what the driver says of itself: the answers and attributes of the two | `Catalog`, `Attributes` |
| `Calendar`, `Conversion` | what the driver uses of `date.h`; values in texts, structs and buffers | `Numbers`; `Calendar` |
| `UnicodeConversion` | conversions between encodings on one converter | |
| `Call`, `OneCall` (`MCOneCall`) | the one call a behaviour makes; all the modules above in one run | |
| `*_proofs` | theorems about the module of that name; `Statement_proofs` also has the lemmas about `ResultSet`, `Connection_proofs` also has those about `Strings` and `ConnectionString`, and `OneCall_proofs` is about the other modules of `OneCall` that read no text with a recursive parser: `Promises`, `Catalog`, `Attributes`, `Conversion`, `Calendar`, `Numbers` and `UnicodeConversion` | TLAPS |

Conventions. Variables and actions have the names of the code's fields and
functions. Ghost variables (marked so where they are declared) record what the
application asked for or has been given; no guard and no other variable depends
on them. An operator named `X_Fault` is the definition `X` with a plausible slip
and is not part of the model: putting it in the place of `X` must break the
property it is paired with in `PROJECT.json`.

### ResultSet and Statement

`stream` is `cbCookie.queryResultStrm`, as the rows not read yet; `rs` is
the result set of `result_reader`. A row is the run of the server that made it,
its position there and whether decoding it throws; the code stores none of the
three, so they are what the properties can see and the code cannot. One fetch is
`RetireRowSet`, then decoding (`Obtained`, `Decoded`, `FindsEnd`), then the new
row set, in the order of `ResultSet::fetchRowSet`; a row that throws stays in
the read-ahead queue, as `tryPrefetchRows` puts it there before it reads it.
The server answers a submission with rows, with rows but no signature (no
columns), with an error, or the submission fails in the driver. `Refused` keeps
the order of `requestNextPackOfResultSets`: reader made, error looked at,
cursor of parameter sets not moved. `ExecDirect` is also every catalog function
that sends a query; `GetTypeInfo` writes rows to the same stream without one.

### HandleRegistry

An address is an object's handle. The maps of children are those of the code;
an object is live when a shared pointer reaches it, which is computed from the
maps (`Live`) and compared with the registry, which the code maintains
separately in constructors and destructors. `Dying` follows the destructors in
the order of the members. Any address may be freed at any time by
`FreeHandle`, with the type ignored, as the code ignores it. `NativeSqlFails`
is `SQLNativeSql` on a query that does not parse: its statement stays.

Dispatch looks every handle up. The root `CMakeLists.txt:100` turns
`CH_ODBC_ALLOW_UNSAFE_DISPATCH` on, but the branches it enables
(`include/driver.h:263`) are discarded at compile time: they ask whether a lambda
taking `auto &` can be called with a temporary reference wrapper, which it cannot.

### CallReports and Diagnostics

A frame of `frames` is one `Driver::call` in progress: its handle, whether it
skips diagnostics, and the exception a nested call left with it. `Enter`,
`Return` and `Throw` are the two halves of `doCall` and the catch clauses.
`Visit...` actions are the three places where calls nest. The refinement maps
`report` to the code and the records up to `SQL_DIAG_NUMBER` and `active` to
the handles with a call of their own in progress.

### Descriptor, ColumnBinding and ParameterBinding

A descriptor is a count and a vector of records which may be longer: lowering
the count leaves the records, and `getRecord` clears those it passes when it
raises the count again. `SetType` is `onAttrChange`, which takes the data
pointer away from a record whose type changes. `BindFails` is the catch clause
of `SQLBindCol` and `SQLBindParameter`: only the counts go back. The ghosts are
the bindings as asked for, and the columns where the application has itself
given up the claim: exposed by raising the count, or whose last bind failed.

An execution changes nothing in `ParameterBinding`; `Arguments(junk)` is the
array `cbas_params_args` it would make, where `junk` stands for what is read past the
end of the vector of bindings, any type. `SQL_BIT` makes two arguments because
its case runs on, and an unsupported type makes none, as in the code.

### RowFetch

A row is its `fields` and a ghost, the document it was read from. `NextRow` is
`CBASResultSet::readNextRow`: a column absent from the document, or a document
that does not parse, leaves the field that was there, a number without its
prefix throws half-way. `Put` is the pool that rows go back to and come from.
`NewResultSet` makes the permutation from `order`, the pointer a catalog
function leaves in the statement: null, to the array of its frame, or dangling
once the function is over, from when any order may be read. `RowFetchAssumption`
says that an array names no column twice, which is so in `api/odbc.cpp`. `Fetch` is
`fetchBindings` with its row status array and counter; `bound` says whether a
column is bound, without which the statuses are not written. `GetData` reads the first row of the row set.

### Configuration, DriverLog and Connection

A configuration is a function from the fields of `Connection` to values.
`SetFields` is one of the two loops of `setConfiguration` over the keys of a DSN
or string, in the order of the map the code keeps them in: it says which keys
the loop gets to (`Accepted`: a value that does not fit throws) and what each field
is set to by the last of them (`SetBy`), and switches the log as those keys do.
`Completed` and `Deduce` are what comes after the loops, `Proceed` what comes after
the configuration. The driver manager is external: it
keeps the handle between calls (`manager`), does not connect an open connection
and takes a browse up again. `instances` are the libcouchbase instances, with what
became of them; `Outcome` is where a connect fails. They are kept by address:
libcouchbase may put a new instance where a destroyed one was, and `lcb` is
the pointer in a `Connection`, which nothing initialises or clears, so that it may show to
nothing or to what is there by now. `Disconnect` destroys what is at the
pointer. ODBC lets an application disconnect in the middle of a browse, when the
connection has no instance: what is destroyed then may be the instance of
another connection. The model goes on from there; `brokenOff` and `harmed` are the ghosts
that tell such behaviours apart. What `lcb_destroy` does with the address of
nothing, besides destroying nothing (it may crash), is not followed.

### OneCall and its parts

A behaviour is one call: arguments from small sets, and in `call` the
arguments with what came out. The properties compare with reference definitions
that do not use the code's operators: `Translation`, `Strings` and `Documents` build each
input together with what it means; `Conversion` computes the value of a text
place by place and a day by counting leap years; `Catalog` states which rows
fit ODBC's arguments. A few conversions do have a history, those that share a
converter; they are the actions of `UnicodeConversion`, where a turn of the loop
is a step and ICU, external, delivers what fits and keeps the rest. What a turn
takes is named on the way: `Delivered` by ICU, `Searched` for a signature, and
`Settled` whether the loop goes on.

Widths are scaled down. An `int8` has 3 bits and an `int64` 9, a `SQLUSMALLINT`
of an attribute 2, a Decimal 9, a byte 4; a day has 8 seconds of 10
milliseconds. The borders between widths, and carries between units, are where they are in
the code, and all inputs around them can be enumerated. A character
of a number, a connection string or a JSON document is a value of its own; an
escape is made of tokens, since its lexer neither splits nor joins them.

## 3. The runs

| Run | Question | Bounds |
|---|---|---|
| `statement` | rows, positions, counts, forward execution, parameter sets; a fetch loop ends | 3 runs, 2 rows each (good or bad), 2 parameter sets, read-ahead 2, row arrays of 1 and 3 |
| `row_fetch` | cells, columns, statuses | 4 documents of 3 kinds, 2 columns, 3 signatures, 2 catalog orders, pool of 2, read-ahead 2, row arrays of 1 and 2 |
| `registry` | registry, parents, effective descriptors, nothing lost or shared | 7 interchangeable addresses, one role |
| `diagnostics` | each handle shows its own last call; nested errors arrive | 1 connection, 1 statement, 2 descriptors, 2 errors, 3 codes |
| `column_binding` | where a fetch writes, the count, under copies | 2 descriptors, 2 columns, 2 types (one the default), 1 buffer; states where both descriptors have a history of their own are not continued |
| `parameter_binding` | description and arguments of the markers | 2 parameters, 6 kinds, 1 buffer |
| `connection` | instances, configuration, log, browse | 2 handles, 2 addresses for instances, 3 browse pieces, 5 connection strings, 1 DSN, 2 log files; an application (`Uses`) that browses and connects on one handle, one that browses on two, one that sets attributes and one that switches the log |
| `configuration_reset` | a comment `resetConfiguration` does not keep | 1 handle, as `connection` |
| `one_call` | what each call computes | about 400 000 calls and states of the converter; see `MCOneCall` |
| `close_ignores_remaining` | a comment the statement does not keep | a small instance of `Statement` |
| `registry_frees_implicit` | a comment `freeHandle` does not keep | 7 addresses |
| `parameter_binding_unbound` | a comment about unbound parameters the code does not keep | as `parameter_binding` |

Why the bounds suffice for what is asked. Read-ahead is 100 rows in the code; with 2 and
row arrays of 1 and 3 a fetch is smaller and larger than the read-ahead, rows stay
in the queue across fetches, and the stream ends before, at and after the row
set. Three runs let rows of a first run meet a second and the leftovers of both a
third. Four documents fill a row set and the read-ahead, go through the pool and
come back. Seven addresses hold an environment, two connections or two statements
with their descriptors, explicit descriptors, and one address to be used again.
Two columns are the least with a record between the one bound and the count;
two descriptors can be copied onto one another, and without a copy neither can affect the other. Two addresses are
a connect over or after another, and the second connection's instance at the address
the first one had. Each connection string of `connection` is
there for a path: to Capella by URL, with a catalog both given and in the URL, failing half-way, by file
DSN, with a two-part scope. The groups of calls in `Uses` touch separate state: the
log is not read by a browse, nor instances by an attribute; connecting, which
touches all of it, is in each.
The catalog objects differ from one another in one component each. Strings of
five characters hold a key, a value, a separator and a brace to either side; escapes are two
deep; texts of four characters hold a sign, a point and digits before and after
it. Days lie around the ends of February of leap years and others, and around the years 0 and
10000, where dates cease to be legible. The proofs remove these bounds for the theorems of section 5.

Deadlock is checked except in `one_call`, where a behaviour ends with its call.

*Fairness.* `FetchLoopEnds` assumes weak fairness of `FetchLoop`, a successful
call of `SQLFetch` or `SQLFetchScroll` with a row array of at least one row: a
client that keeps fetching. This is the usage the function exists for and not
a scheduler's promise; nothing is assumed of the server, of closing, or of
any other call. `ConversionEnds` assumes weak fairness of `Loop`, the next turn of
a loop inside one call, which nothing but its own end stops. Every other call
finishes because its action is the whole of it.

What the properties exempt. In the following the code does something else than the
rule a property states, and the model with it; the property says nothing of it, so
that it can be checked of the rest. Those that contradict a sentence of the repository are
in section 4 as well.

* `InstancesOwned`: connections whose instance a broken-off browse on another handle has
  destroyed (`harmed`); it says that nothing else leads to that.
* `ConfigAsAsked`: a field that is not reset and that the call gives no value (`LeftAsItWas`;
  `FieldsReset` is about these), and a catalog that a string gives beside the one in
  the URL (`CatalogReplaced`).
* `BrowseInStep`: step and attributes that stay after a string that cannot be parsed.
* `CellsOfOwnDocument`: columns the document has no item for. `ColumnsInOrder`: a result
  set made while the pointer to the expected order dangles.
* `ArgumentsPositional`: arguments from the first `SQL_BIT` or unbound parameter on.
* `OrdinaryQueriesParse`: the exact condition on `TABLE_CAT` (for ODBC 2 and
  `SQL_ATTR_METADATA_ID`), which has no opening quote. `ListsWhatIsAsked`: foreign
  keys whose columns are named otherwise than those they refer to, which the join on the
  names leaves out. `DescribedAlike`: what `SQLColumns` says of integers of 32 bits and less and of
  booleans.
* `UnderstoodByService`: of the functions announced those not translated, which it names
  (`Untranslated`, and `LOCATE` of two arguments); requests with texts that need an escape, with
  nulls or with types that run on.
* `PromisesKept`: attributes that run on into a timeout (`Runs`) or are forgotten
  (`NotKept`), the upper half of a variable a login timeout is read into.
* `NumbersExact`: decimals with more digits than the precision asked for, negative texts read as
  unsigned, and a text without a digit, which is the decimal zero.
* `TimesReadBack`: years other than 1 to 9999, whose texts are read as other years,
  timestamps beyond the ticks of the clock, timestamp parameters with a fraction
  (sent as -1), the zone `mktime` adds, and the time of a datetime read as `SQL_TIME_STRUCT`.
* `TextsInBuffers`: what a buffer of size zero holds; a parameter of length zero, read to its null.
* `StringsReadBack`: values with closing braces.

`Calendar` assumes that the ticks of the clock count no more than 300 years either
way (`TicksAssumption`; in the code they are nanoseconds in 64 bits, 292 years), so
that `%Y` always has four digits.

## 4. Findings

* Rows not fetched when a cursor is closed are delivered by the next execution
  (`source/statement.cpp:393`; `api/odbc.cpp:79` says they are ignored). `RowsConserved`
  shows how far this goes: leftovers come first, in order.
* A second connect on a handle starts from `connect_to_capella`, `collect_logs`,
  `huge_int_as_string`, `verify_connection_early` and `log_file` of the first
  (`source/connection.cpp:293`), where `include/connection.h:40` says that all fields are reset.
* `SQLFreeHandle` takes automatically allocated descriptors out of their
  connection: the test that should refuse compares the wrong types
  (`api/impl/impl.cpp:72`). The other properties of the registry hold all the same,
  since the statement keeps the object alive.
* An unbound parameter makes no argument, which shifts the ones after it, or one
  of a type read past the end of the bindings (`source/statement.cpp:135`), where a
  comment says it is sent as null.

The above are runs. These contradict a sentence of the repository as well; the
properties name them as exemptions and go on around them:

* After an error of the server `SQLMoreResults` sends the refused parameter set again
  (`source/statement.cpp:230`); `include/statement.h:41` says it makes the next result
  set current. `ParamSetsServedOnce` shows that no set is served twice for it.
* `include/connection.h:42` gives the order connection string, DSN, what is deduced "if
  unintialized"; the catalog in a URL replaces the one given
  (`source/connection.cpp:636`).
* `utils/include/type_info.h:1711` says that the requested precision is enforced; the
  digits are not counted, and a decimal is refused only when it has two bytes more than
  the precision has digits (line 1747): `99` asked for with precision 1 is 99.
* `utils/include/type_info.h:151` says that with a size of zero the buffer is taken to
  hold the whole value; nothing is written into it (line 170).
* `SQLGetInfo` announces 21 scalar functions that the escape parser has no translation of
  (`api/odbc.cpp:269`, `escaping/include/function_declare.h`): they, and `LOCATE` with two
  arguments, reach the service as the application wrote them, braces and all.

Seen while modelling, without a sentence of the repository against it:

* `SQLDisconnect` in the middle of a browse destroys what the pointer happens to show to:
  nothing, or another connection's instance (`api/odbc.cpp:804`). The driver
  neither initialises nor clears the pointer.
* `is_set_login_timeout` is not initialised (`include/connection.h:59`): a login timeout
  that nobody set may be whatever was in memory.
* Inside functions that are copied, `day` and `quarter` are taken for units wherever they stand: a
  column of that name is replaced by a unit's literal (`escaping/source/lexer.cpp:31`,
  `escaping/source/escape_sequences.cpp:319`).
* After an error of the server the statement still reports a result set
  (`source/statement.cpp:228`); the missing `break` after `SQL_BIT`
  (`source/statement.cpp:170`); the shadowed `code` of `fetchBindings`
  (`api/impl/impl.cpp:1406`); the time of a timestamp text that `SQL_C_TYPE_TIME` drops
  (`utils/include/type_info.h:966`); `SQLGetData` always at the first row of the row set
  and the beginning of a value (`api/impl/impl.cpp:1479`); the signature of GB-18030
  written `33` for `0x33` (`utils/source/unicode_converter.cpp:91`); the other exemptions
  of section 3.

## 5. What is proved

Every safety property of the modules with a history that is longer than a call is proved, and
of the single calls all but the one about recursive parsers: the catalog's queries and types,
what the driver says of itself, connection strings and lists, numbers, dates and times, texts in buffers
and encodings. They hold for every value of the constants under the assumptions named in the modules:
`PrefetchAssumption` and `StatementAssumption` (positive sizes),
`CatalogAssumption` (the names of the service match themselves, what matches
anything does so in lower case too, null is neither an argument nor a catalog in
use, limits are integers), `SchemaAssumption` (the service has an object in a dataverse of
two parts), `AttributesAssumption` (values and widths are numbers), `ConversionAssumption`
(widths, days and lengths are numbers, no integer is wider than the 64 bits it is
read with, a byte holds a decimal digit and a numeric's bytes hold a decimal),
`StringsAssumption` (what connection strings and lists tell apart is in no case but its own,
a key written has no spaces around it, is not empty and has no semicolon, which no rule lets it have),
`ErrorAssumption` (an exception is not a value), `CalendarAssumption` (no unit of a
day has more parts than the real one, ticks are finer than milliseconds),
`RegistryAssumption`, `DiagnosticsAssumption` (kinds of handles do not mix),
`ColumnBindingAssumption`, `ParameterBindingAssumption` (kinds of types exclude
each other), `LogAssumption`, `ConnAssumption`, `FieldsAssumption` (a log file
named by a string is one of the log files), `TicksAssumption`, `RowFetchAssumption`, `TextAssumption`
and `SizeAssumption` (a signature is not empty, and the space reserved for
one holds ICU's own beside it).

* **`Statement_proofs`**: every safety property of `statement`, after lemmas
  about what the reader does to its queues. The properties are not inductive: that the cursor's rows are the last in flight
  says nothing about a state without a cursor, whose stream the next run will
  append to. `StatementInv` adds it: `FlightInv` says of `Flying` (the rows in
  flight, or the bare stream) that runs and positions ascend and none is later
  than `run`; `ReaderInv` says the position is at the start, inside or past the
  end and relates it to `delivered`; `ForwardInv` ties `credit` to the flags.
  `RowsConserved` and `CountsRight` are put together of the theorems about
  their conjuncts. `ParamSetsServedOnce` counts the sets served
  in a history that no variable bounds; its step adds one attempt to the
  history and shows what that does to the number served before each.
* **`HandleRegistry_proofs`**: every property of `registry`. `RegistryInv`
  says what owns each registered object (`Owned`), where implicit descriptors
  live and that they are distinct (`ImplicitSound`), and what weak pointers
  may refer to (`ExplicitSound`); `HandedOutInv` is added for the two about
  handles the application knows.
* **`Diagnostics_proofs`**: types, `ErrorForwarded` and the refinement of
  `CallReports`. `Inv` says which frames can be inside which (`Nested`, so that no
  handle is active twice), that a handle in a call of its own has no record
  yet (`Quiet`), and that an error owed is held by the innermost frame
  (`OwedAtTop`). Each step is mapped to a step of `CallReports` or a stutter.
* **`ColumnBinding_proofs`**: types, `WritesWhereAsked` and `CountIsHighestBound`. `WritesWhereAsked`
  alone is not inductive, because a new count brings back columns it says nothing
  of; `Inv` adds that nothing is asked for, exposed or broken past the count
  (`Past`). `TopBound`, for the other, says that at the count a
  column is broken or bound, unless the application has set the count itself.
  Lemmas about `GetRecord`, `SetRecord` and `SetCount` say what each
  does to the records in effect, whatever the stale ones past the count are.
* **`ParameterBinding_proofs`**: every property of `parameter_binding`. `Inv` ties
  the two descriptors together parameter by parameter (`Holds`): nothing is
  bound or loose past the APD's count, and what is neither has its pointer in one
  record and its type in the other, which the IPD's count covers. That a prepare
  trims the IPD to the APD's count is safe for the first half only. The array of arguments is
  `FlattenSeq`, a recursive function of the community modules: that the function
  exists (`FlattenUnfolds`) and how long what it returns is are shown on
  the least number for which it would be otherwise, which stands in
  for the induction the prover has not got.
* **`Connection_proofs`**: every property of `connection`. `IInv` is the types, who
  owns an instance, the pieces of a browse, the log (`GoodLog`) and the
  configuration (`AsAsked`). Ownership is a matter of addresses: as long as no browse has been broken
  off, what `Disconnect` finds at its pointer is the handle's own, and one that is broken off takes
  from another connection only what `harmed` then records; a new instance goes where there is none, and so never
  under a pointer of an open connection. That the fields are those asked for is a matter of the
  last key that sets each (`SetBy`), which a key of the string must win against
  the same key of the DSN but not against another key for the same field
  (`DsnOverridden`).
* **`RowFetch_proofs`**: every property of `row_fetch`. `IInv`
  says of an open result set that its columns are what the constructor makes of
  signature and order (`Made`) and that every row in the row set or read ahead
  shows its document (`RowsShow`). The rows in the pool may hold anything: the
  proof is that `NextRow` writes over every field its document has an item for.
* **`OneCall_proofs`**, encodings: `ConvertedWhole`, for texts of any length in any
  encoding, signatures of any size, and any number of conversions on one
  converter. `UnicodeInv` says that while a conversion runs, what is written, what
  ICU holds and what it has not consumed make up the text, signatures apart
  (`Underway`), and that between conversions ICU holds nothing, without which the
  remains of one text would come before the next. What takes the signatures
  off is a recursive function, and so is the encoding of a text: the lemmas
  about them (`FlattenAppend`, `SignatureTakenOff`, `TakenOffEarly`, `Stays`) argue from the
  shortest text they could fail for. A signature may be taken off the beginning
  while the rest of the text is still to come, because at most the first
  signatures are there (`TakenOffEarly`).

* **`OneCall_proofs`**, the catalog: `OrdinaryQueriesParse`, `ListsWhatIsAsked` and
  `DescribedAlike`, for any objects, arguments, connections and limits. The
  conditions of a query are each built of parts that open a clause or continue
  one (`Leads`, `Follows`), which is why the whole parses; a clause is met
  by a row if and only if its parts are (`Meets`, `Choice`), which makes the rows
  listed those that ODBC's arguments describe. `DescribedAlike` goes through the
  types of the service one by one, with the limit on text left open.
* **`OneCall_proofs`**, texts in buffers: `TextsInBuffers`, for texts and buffers
  of any size. The kinds of conversion are told apart first, since a case of
  the property names one of them.
* **`OneCall_proofs`**, dates and times: `TimesReadBack`, for every day and every
  count, widths of ticks and units of a day at will. Lemmas about division come
  first; `NumberIn` is recursive and is unfolded for the least number of digits
  it could fail for. The days of an era are counted within the year from March and
  the years within the era, which shows that `FromDays` and `ToDays` undo each
  other; that a year begins where counting leap years says
  it does, and that a day follows the last, ties both to the calendar, which the
  property computes without them.
* **`OneCall_proofs`**, what the driver says of itself: `PromisesKept`, for values and
  variables of any size and objects of any kind. Which places two attributes share is
  decided place by place (`DescriptorsApart`, `OneDescriptorPlace`); a set
  writes the place of its attribute (`SetStores`) and leaves the places of the others
  (`SetKeeps`, `SetElsewhere`), so what is read is what was set as long
  as the width it is kept in holds it (`GetReads`, `WidthsAre`), and a variable wider
  than what is written into it holds the value if its upper half was empty (`VariableFilled`).
* **`OneCall_proofs`**, numbers: `NumbersExact`, for texts of any length, integers of
  any widths, decimals of any width, precision and scale, and bytes of any size.
  `PlacesSum` says that what the code's loops multiply and add up is the
  number the property computes place by place, `BytesAre` the same of the bytes
  of an `SQL_NUMERIC_STRUCT`; `ValueMore` adds a digit to a number, `ValueWithin` bounds it by a power of
  ten, and `DigitsBack` says that the digits written of a number are read as the number. Reading a decimal goes through a text character by character: what
  has been read of a text of the right shape (`Pointed`) is the number of its
  digits so far (`DigitRead`, `PointRead`, `SignRead`), any other text with a digit
  in it is refused (`OthersRefused`), and together they are `DecimalRead`. A decimal that is
  written is a text of that shape (`PointedRead`), which is read back as the
  decimal it came from (`DecimalWritten`). These go on from one length to the
  next, and `Onward` is the step they share: a set that has zero, and with a
  length the next one, has all of them up to the last.

* **`Connection_proofs`**, connection strings and lists: `StringsReadBack`, for texts, keys and
  values of any length and any number of fields, over any characters. The loops of
  `readConnectionString` and `parseCatalogFnVLArgs` are functions of the number of turns
  taken; `KeyReadUnfolds`, `ReadUnfolds` and `ListedUnfolds` give a turn of each, and `Iterates`
  is how such a function goes on. For what is written by the rules: a key with its doubled
  signs is read as the key (`KeyFound`), a value with or without braces as the value
  (`PlainRead`, `BracedRead`), and so a field, whatever follows it (`FieldFound`); `FieldsRead` goes
  from field to field, and `KeptGoesOn` says of the property's own `Kept`, which looks at all the pairs
  at once, what one pair more does to it. For any text at all: what has been read so far is
  always good (`GoodFields`: the keys are trimmed and in one case, DSN and what it shuts out are not together,
  no value is one that cannot be written), which `FieldGives` shows of a turn; and
  good fields, written in any order, are read as themselves (`KeptOfPairs`, `TextReadBack`).
  Lists follow the same plan (`ListGives`, `ValueReadBack`, `AllListed`).

Model-checked only, and why:
`FetchLoopEnds` and `ConversionEnds` are liveness under fairness.
`UnderstoodByService` is about two parsers (`EscapeSequences`, `Json`) that
call themselves, as those of the code do, escapes within escapes and documents within documents. They are
recursive operators: a theorem in a module that reaches one has no SMT prover,
and what a parser makes of every input takes an induction over its structure, which none of
the provers does.

## 6. Not modelled

* The other result formats, `type_parser` and `amortized_istream_reader`: no
  execution reaches them, since `make_result_reader` is asked only for CBAS.
* The setup dialog and the writing of `odbc.ini` (`platform/win/setup.cpp`,
  `writeDSNinfo`): windows and I/O. Errors of reading a DSN, and texts cut at
  the 16-bit lengths of the installer's functions.
* The constants among the answers of `SQLGetInfo`; the answers that say what
  else is there are in `Catalog` and `Announced`.
* The markers in a query: `ParameterBinding` has their number, not the scan.
* The characters of tokens in an escape; the digits of floating-point numbers
  (`Json` takes the exact value, `Conversion` the bits).
* cJSON's memory pool and printing, the parts of `date.h` that are not called, ICU and
  libcouchbase, which are external as the driver uses them.
* The effect of writing to freed memory (`SQL_DROP`, hazards). Counts wrap at
  16 bits in the code; the models bound them far below.
* Calls by several threads at once. The driver has no lock of its own, and the
  registry of handles, the log and the libcouchbase instances are shared: the
  models take the calls of all the handles one at a time, in any order. Nothing
  is claimed of an application whose calls overlap.

## 7. Plan

1. Core, connection, rows, single calls (done).
2. Proofs of every safety property of the modules with a history (done).
3. The proofs of the single calls without recursive parsers: encodings, catalog,
   what the driver says of itself, types, texts in buffers, numbers, dates and times (done).
4. What is left to TLC is listed at the end of section 5; the parsers would come
   first, if a prover for induction over data were at hand.
