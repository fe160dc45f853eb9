-------------------------------- MODULE ParseCsv --------------------------------
(***************************************************************************)
(* ParseCsv.cc: how the library reads the rows of one pool from the        *)
(* configuration file, up to the check of the list by its caller           *)
(* (MemoryAllocator::SetIntervalConfigList).  A step is one iteration of   *)
(* the loop over the file.                                                 *)
(*                                                                         *)
(* The file is a sequence of symbols.  A comma, a line end and a space     *)
(* are symbols; of the other characters of a field the first is a symbol   *)
(* and all the rest together are another one, since the parser loses the   *)
(* first character of a field now and then but never a later one.          *)
(***************************************************************************)
EXTENDS IntervalList

CONSTANTS
    Files,  \* what was written: see Text
    Letters, \* the symbols of which fields consist
    Type,   \* the pool's type, as the symbols of a field
    Digits, \* for each number that occurs, the symbols of its field
    SIZE_T  \* the number of values of size_t, as of long long and off_t

VARIABLES
    written,        \* the lines, separator and end that make the file
    file,           \* its symbols
    pos,            \* the parser's position i, from 1
    token,          \* its buffer, of which the part before NUL is the token
    data,           \* the PoolConfigurationData
    one_time_size,  \* was a row with the pool's size read?
    outcome         \* "reading", "configured", or "refused" by an exception

parseVars == <<written, file, pos, token, data, one_time_size, outcome>>

\* A field is at most two symbols and a NUL.  The code has 1024 characters and
\* says that it assumes lines of at most that length.
token_size == 3

Comma == "comma"
LineEnd == "newline"
Space == "space"
NUL == "NUL"
Separators == {Comma, LineEnd}
Symbols == Letters \cup {Comma, LineEnd, Space, NUL}
Fields == {f \in Seq(Letters) : Len(f) \in 1 .. 2}

\* w.lines are lines of fields below the header; w.comma is what separates
\* fields; w.ended says whether the last line has a line end.  The first symbol of
\* the pool's type is in no other field, but other types may begin with it.
ASSUME FilesAssumption ==
    /\ SIZE_T \in Nat \ {0} /\ SIZE_T % 2 = 0
    /\ {"h", "eader"} \subseteq Letters
    /\ Letters \cap {Comma, LineEnd, Space, NUL} = {}
    /\ Type \in Fields /\ Len(Type) = 2
    /\ \A n \in DOMAIN Digits : /\ n \in Int /\ -SIZE_T <= 2 * n /\ 2 * n < SIZE_T
                                /\ Digits[n] \in Fields
    /\ \A w \in Files :
          /\ w.lines \in Seq(Seq(Fields)) /\ w.ended \in BOOLEAN
          /\ w.comma \in {<<Comma>>, <<Comma, Space>>, <<Space, Comma>>}
          /\ \A l \in ToSet(w.lines) : \A k \in DOMAIN l : \A j \in DOMAIN l[k] :
                l[k][j] = Type[1] => k = 1 /\ j = 1 /\ Len(l[k]) = 2

Line(comma, l) == IF l = <<>> THEN <<>>
                  ELSE FoldLeft(LAMBDA t, field : t \o comma \o field, Head(l), Tail(l))
Text(w) == FoldLeft(LAMBDA t, l : t \o <<LineEnd>> \o Line(w.comma, l), <<"h", "eader">>, w.lines)
           \o (IF w.ended THEN <<LineEnd>> ELSE <<>>)

atoll(s) == LET of == {n \in DOMAIN Digits : Digits[n] = s}
            IN IF of = {} THEN 0 ELSE CHOOSE n \in of : TRUE

\* The position of the first symbol of S from p on, or the file's end.
FindFrom(p, S) == Min({k \in p .. Len(file) : file[k] \in S} \cup {Len(file) + 1})

\* MOVE_TO_NEXT_LINE.
NextLine(p) == Min({FindFrom(p, {LineEnd}), Len(file)}) + 1

WithoutSpaces(s) == FoldLeft(LAMBDA t, c : IF c = Space THEN t ELSE Append(t, c), <<>>, s)

\* NEXT_TOKEN: the field from at.i on without its spaces.  A comma is passed, a
\* line end is not; at the end of the file the buffer keeps its old tail.
NextToken(at) ==
    LET stop == FindFrom(at.pos, Separators)
        ends == stop <= Len(file)
        read == WithoutSpaces(SubSeq(file, at.pos, stop - 1))
    IN [pos |-> IF ends /\ file[stop] = Comma THEN stop + 1 ELSE stop,
        token |-> [k \in 1 .. token_size |->
                      IF k <= Len(read) THEN read[k]
                      ELSE IF ends /\ k = Len(read) + 1 THEN NUL ELSE at.token[k]]]

String(t) == SubSeq(t, 1, Min({k \in DOMAIN t : t[k] = NUL}) - 1)

First == NextToken([pos |-> pos, token |-> token])

\* The fields of the row after its type, and where the parser is behind them.
Row ==
    LET page == NextToken(First)
        start == NextToken(page)
        end == NextToken(start)
    IN [page |-> atoll(String(page.token)), start |-> atoll(String(start.token)),
        end |-> atoll(String(end.token)), pos |-> end.pos, token |-> end.token]

\* Mutant: the ends are compared with the size as it is, without the cast.
MutantUnsigned(size) == size

\* A size_t cast to off_t, of the same width: the upper half is negative.
off_t(size) == IF size < SIZE_T \div 2 THEN size ELSE size - SIZE_T

GetConfigFileMaxWindows == Cardinality({k \in DOMAIN file : file[k] = LineEnd})
Capacity == 2 * GetConfigFileMaxWindows + 1

-------------------------------------------------------------------------------

\* None of the exceptions on the way through a row is thrown.  The code reads the
\* byte behind the file too: zero, the rest of the mapping's last page.
Readable(r) ==
    /\ r.page \in {-1, HUGE_2MB, HUGE_1GB}
    /\ r.page = -1 => ~one_time_size
    /\ r.start >= 0 /\ r.end >= 0
    /\ r.pos <= Len(file) /\ file[r.pos] = LineEnd
    /\ r.page # -1 => Len(data.intervalList) < Capacity

ParseInit ==
    /\ written \in Files
    /\ file = Text(written)
    /\ pos = NextLine(1)
    /\ token = [k \in 1 .. token_size |-> NUL]
    /\ data = [intervalList |-> <<>>, size |-> 0]
    /\ one_time_size = FALSE
    /\ outcome = "reading"

AtToken == outcome = "reading" /\ pos <= Len(file)

\* Mutant: the parser moves to the next line and the loop then one further.
MutantSkip ==
    /\ AtToken /\ String(First.token) # Type
    /\ pos' = NextLine(First.pos) + 1
    /\ token' = First.token
    /\ UNCHANGED <<written, file, data, one_time_size, outcome>>

\* An empty token or one that is not the type: the loop goes one symbol on.
Skip ==
    /\ AtToken /\ String(First.token) # Type
    /\ pos' = First.pos + 1
    /\ token' = First.token
    /\ UNCHANGED <<written, file, data, one_time_size, outcome>>

AddInterval ==
    /\ AtToken /\ String(First.token) = Type
    /\ Row.page # -1 /\ Readable(Row)
    /\ data' = [data EXCEPT !.intervalList =
                   Append(@, MemoryInterval(Row.start, Row.end, Row.page))]
    /\ pos' = Row.pos + 1
    /\ token' = Row.token
    /\ UNCHANGED <<written, file, one_time_size, outcome>>

SetSize ==
    /\ AtToken /\ String(First.token) = Type
    /\ Row.page = -1 /\ Readable(Row)
    /\ data' = [data EXCEPT !.size = (Row.end - Row.start) % SIZE_T]
    /\ one_time_size' = TRUE
    /\ pos' = Row.pos + 1
    /\ token' = Row.token
    /\ UNCHANGED <<written, file, outcome>>

Refuse ==
    /\ AtToken /\ String(First.token) = Type
    /\ ~Readable(Row)
    /\ outcome' = "refused"
    /\ UNCHANGED <<written, file, pos, token, data, one_time_size>>

\* The end of the file: the list is sorted, and the caller checks it; a size
\* row that ends below its start makes the size negative there.
Finish ==
    /\ outcome = "reading" /\ pos > Len(file)
    /\ data' = [data EXCEPT !.intervalList = Sort(@)]
    /\ outcome' = IF Accepted(data'.intervalList, off_t(data.size))
                  THEN "configured" ELSE "refused"
    /\ UNCHANGED <<written, file, pos, token, one_time_size>>

ParseNext == Skip \/ AddInterval \/ SetSize \/ Refuse \/ Finish

ParseSpec == ParseInit /\ [][ParseNext]_parseVars

-------------------------------------------------------------------------------
(* What the lines say, read line by line and not symbol by symbol.         *)

IsRow(l) == l # <<>> /\ l[1] = Type
OfPool == {n \in DOMAIN written.lines : IsRow(written.lines[n])}

\* A field that is not there counts as zero.
Field(l, k) == IF k <= Len(l) THEN atoll(l[k]) ELSE 0

IsInterval(l) == IsRow(l) /\ Field(l, 2) # -1
IntervalOf(l) == MemoryInterval(Field(l, 3), Field(l, 4), Field(l, 2))
IntervalsOfPool ==
    FoldLeft(LAMBDA list, l : IF IsInterval(l) THEN Append(list, IntervalOf(l)) ELSE list,
             <<>>, written.lines)

SizesOfPool == {n \in OfPool : Field(written.lines[n], 2) = -1}

SizeOfPool == IF SizesOfPool = {} THEN 0
              ELSE LET l == written.lines[Max(SizesOfPool)]
                   IN Field(l, 4) - Field(l, 3)

GoodRow(l) ==
    /\ Len(l) <= 4
    /\ Field(l, 2) \in {-1, HUGE_2MB, HUGE_1GB}
    /\ Field(l, 3) >= 0 /\ Field(l, 4) >= 0

\* The last line, if it is of this pool, has to have its line end.
GoodEnd ==
    LET n == Len(written.lines)
    IN written.ended \/ n \notin OfPool

Good ==
    /\ \A n \in OfPool : GoodRow(written.lines[n])
    /\ Cardinality(SizesOfPool) <= 1
    /\ GoodEnd
    /\ Accepted(IntervalsOfPool, SizeOfPool)

-------------------------------------------------------------------------------
(* Properties.                                                             *)

\* Type correctness: offsets and sizes are never negative, and the buffer
\* always holds a terminated token.
ParseTypeOK ==
    /\ pos \in 1 .. Len(file) + 2
    /\ DOMAIN token = 1 .. token_size /\ NUL \in Range(token)
    /\ data.size \in Nat /\ one_time_size \in BOOLEAN
    /\ \A v \in ToSet(data.intervalList) :
          /\ v.start_offset \in Nat /\ v.end_offset \in Nat
          /\ v.page_size \in {HUGE_2MB, HUGE_1GB}
    /\ outcome \in {"reading", "configured", "refused"}

\* A pool is configured with the intervals and the size that its rows say,
\* each row once and the intervals in ascending order, wherever rows of other
\* pools, unknown rows, blank lines and spaces stand between them.
ReadAsWritten ==
    outcome = "configured" =>
        LET list == data.intervalList
            times(v, s) == Cardinality({k \in DOMAIN s : s[k] = v})
        IN /\ \A v \in ToSet(list) \cup ToSet(IntervalsOfPool) :
                 times(v, list) = times(v, IntervalsOfPool)
           /\ \A k \in 2 .. Len(list) : ~LessThan(list[k], list[k - 1])
           /\ data.size = SizeOfPool

\* A file is refused exactly if a row of this pool is bad, its size is given
\* twice or, as the number that is written, less than zero or than the end of
\* an interval, or its intervals are not valid; rows of other pools have no
\* say, and the list of intervals is never full before the file ends.
RefusedIfBad == outcome # "reading" => (outcome = "refused" <=> ~Good)
===============================================================================
