--------------------------- MODULE MCStepExecutors ---------------------------
(* Values for TLC: every step type once, times in units of a minute.       *)
EXTENDS StepExecutors

MCKinds == {"set_proxy_and_wait", "download_url", "install_app_and_wait", "change_os_and_wait",
            "download_cloud", "start_bot", "run_script", "execute_repo_script", "set_variables",
            "shell", "get_root", "set_location", "http_request", "network_check",
            "condition_check"}

MCNumbers == {0, 1, 2, 9, 10, 12, 110, 1000000, 11000000}

MCNumeral == [n \in MCNumbers |-> ToString(n)]

MCPrinted == [n \in MCNumbers |-> IF n = 1000000 THEN "1e+06"
                                  ELSE IF n = 11000000 THEN "1.1e+07" ELSE ToString(n)]

MCSpellings == [n \in MCNumbers |-> {MCNumeral[n], MCPrinted[n]}
                                    \cup IF n = 11000000 THEN {"11e+06"} ELSE {}]

MCVars == {[x |-> v] : v \in {Num(2), Num(10), Num(1000000), Str("10"), Str("2"), Str("1000000"),
                              Str(""), Str("abc"), Bool(TRUE), EmptyList}}
          \cup {[y |-> Num(2)], [x |-> Num(2), o |-> Map([k |-> Num(2)])]}

Plain(s) == [type |-> "text", s |-> s]

MCValues == {Nil, Num(2), Num(9), Num(1000000), Str("9"), Str("1e+06"), RefTo("x"), RefTo("deviceId"),
             Template(<<Ref(<<"o", "k">>)>>), Template(<<Plain("1"), Ref(<<"x">>)>>)}

Words(set) == {Str(s) : s \in set}

MCConditions ==
  [vars : MCVars,
   step : [variable : {Str("x")}, operator : Words(Operators), value : MCValues,
           onTrue : {Str("continue")}, onFalse : {Str("stop_error")}]]
  \cup [vars : {[x |-> Num(2)], [x |-> Str("x")], [o |-> Map([k |-> Num(2)])]},
        step : [variable : {Nil, Str("x"), RefTo("x"), Str("o.k")}, operator : Words({"", "gt", "~"}),
                value : {Num(1), Num(2)}, onTrue : Words(Actions), onFalse : {Str("stop_error")}]
               \cup [variable : {Str("x")}, operator : Words({"eq", "gt"}), value : {Num(2), RefTo("x")},
                     onTrue : {Str("stop_error")}, onFalse : Words(Actions) \cup {Nil}]]

MCParams ==
  [k \in MCKinds |->
     IF k = "condition_check" THEN MCConditions
     ELSE [install : IF k = "install_app_and_wait" THEN BOOLEAN ELSE {FALSE}]]
=============================================================================
