------------------------------- MODULE MCParseCsv -------------------------------
(***************************************************************************)
(* ParseCsv and the scripts for the pool "mmap": files of up to three      *)
(* lines below the header, of rows of this pool, of another one and of     *)
(* none, good and bad, and all files that are written for a layout of up   *)
(* to three 2MB pages or of 1GB pages.  Pages are 2 and 4 units long.      *)
(***************************************************************************)
EXTENDS ConfigScripts

Mmap == <<"m", "map">>
Brk == <<"b", "rk">>
File == <<"f", "ile">>
Other == <<"f", "ff">>

\* Page sizes have several digits, as "2097152" has; offsets have one or more.
MCDigits == (-1 :> <<"-", "1">>) @@ (1 :> <<"4", "096">>) @@ (2 :> <<"2", "097152">>)
            @@ (4 :> <<"1", "073741824">>) @@ (0 :> <<"0">>) @@ (6 :> <<"6">>)
            @@ (8 :> <<"8", "000">>) @@ (-2 :> <<"-", "2">>) @@ (3 :> <<"3">>)
            @@ (5 :> <<"5">>) @@ (7 :> <<"7">>)

MCLetters == UNION {ToSet(f) : f \in {MCDigits[n] : n \in DOMAIN MCDigits}
                                         \cup {Mmap, Brk, File, Other, <<"h", "eader">>}}

Cells(type, numbers) == <<type>> \o [k \in DOMAIN numbers |-> MCDigits[numbers[k]]]

RowsOf(type) ==
    {Cells(type, <<-1, 0, n>>) : n \in {6, 8}} \cup {Cells(type, <<-1, 6, 2>>)}
        \cup {Cells(type, <<2, 0, n>>) : n \in {2, 6}}
        \cup {Cells(type, <<4, 4, 8>>), Cells(type, <<2, 0, -2>>), Cells(type, <<2, -2, 2>>),
              Cells(type, <<1, 0, 2>>), Cells(type, <<-1>>), Cells(type, <<-1, 0, 6, 0>>)}

Lines == RowsOf(Mmap)
         \cup {Cells(t, <<-1, 0, 8>>) : t \in {Brk, Other}}
         \cup {Cells(Brk, <<2, 0, -2>>), Cells(Brk, <<0>>), Cells(Other, <<2, 0, 0>>), <<>>}

RowFiles == [lines : UNION {[1 .. n -> Lines] : n \in 0 .. 3},
             comma : {<<Comma>>, <<Comma, Space>>, <<Space, Comma>>},
             ended : BOOLEAN,
             layouts : {{}}]

Layouts == [size : {6, 8}, list_2mb : SUBSET {<<0, 0>>, <<0, 1>>, <<1, 2>>, <<2, 2>>},
            offset_2mb : {0, 1, 2}, list_1gb : {{}, {<<0, 0>>}, {<<0, 1>>}}, offset_1gb : {0, 1}]

MCFiles ==
    LET brk == [size |-> 8, list_2mb |-> {<<0, 1>>}, offset_2mb |-> 0,
                list_1gb |-> {}, offset_1gb |-> 0]
    IN RowFiles \cup UNION {Written(l, brk) : l \in Layouts}
===============================================================================
