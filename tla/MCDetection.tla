---------------------------- MODULE MCDetection ----------------------------
EXTENDS Detection

Words == {"", "generic", "unknown", "None", "success", "failure", "failed_login", "login",
          "denied", "critical", "medium", "low", "informational",
          "bob", "bob.smith", "bob.smith.admin", "administrator.of.accounts",
          "web1", "first-host-of-many and more", "10.0.0.1", "not-an-ip", "tcp", "psexec", "cmd",
          "high", "badhash", "bad.example.com", "t1", "t2", "x", "[",
          "0", "5", "8", "21", "22", "23", "65536"}
MCHits == {<<"contains", "psexec", "psexec">>, <<"contains", "22", "22">>, <<"startswith", "web1", "x">>,
           <<"endswith", "web1", "web1">>, <<"re", "bob", "bob">>}

\* Words and what cuts leave of them; a cut may fall behind a blank.
UpTo(w, n) == IF n > 0 /\ SubSeq(w, n, n) = " " THEN SubSeq(w, 1, n - 1) ELSE SubSeq(w, 1, n)
MCWord == UNION {{UpTo(w, n) : n \in 0..Len(w)} : w \in Words}
MCSize == [w \in MCWord |-> Len(w)]
MCOpening(t, n) ==
    [word |-> UpTo(t.word, n), padded |-> UpTo(t.word, n) # SubSeq(t.word, 1, n),
     upper |-> t.upper]
MCFailWord == {w \in MCWord : Len(w) > 3 /\ SubSeq(w, 1, 4) = "fail"}

\* The widths of the tables are scaled down.
MCWidth == [f \in Fitted \cup {"severity"} |->
               IF f \in {"protocol", "severity"} THEN 14 ELSE 19]

MCNumbers == {0, 5, 8, 21, 22, 23, 65536}
MCDigits == [n \in MCNumbers |-> ToString(n)]

Txt(w, p, u) == [word |-> w, padded |-> p, upper |-> u]
N(n) == [number |-> n]

Empty == [f \in Source |-> Absent]

\* What an upload can say of one login, with blanks, capitals and values no
\* column takes.
Logins ==
    { [Empty EXCEPT !["action"] = a, !["result"] = r, !["username"] = u, !["source_ip"] = ip,
                    !["hostname"] = h, !["severity"] = s, !["protocol"] = p] :
        a \in {Absent, T("failed_login"), Txt("login", TRUE, TRUE), T("failure"), T("x")},
        r \in {Absent, T("denied"), T("failure")},
        u \in {Absent, Txt("bob", FALSE, TRUE), N(0), N(5)},
        ip \in {Absent, T("10.0.0.1"), T("not-an-ip")},
        h \in {Absent, T("web1"), Txt("", TRUE, FALSE)},
        s \in {Absent, N(8), T("high")},
        p \in {Absent, T("tcp"), Txt("", TRUE, FALSE)} }

\* Times, ports, hashes, types and keys.
Details ==
    { [Empty EXCEPT !["timestamp"] = t, !["occurred_at"] = T("t2"), !["source_port"] = n,
                    !["sha256"] = m, !["event_type"] = e, !["correlation_key"] = k,
                    !["process_name"] = c, !["event_category"] = g] :
        t \in {Absent, T("t1"), T("x")}, n \in {Absent, N(22), N(65536), T("x"), Txt("22", TRUE, FALSE)},
        m \in {Absent, Txt("badhash", FALSE, TRUE), Txt("badhash", TRUE, FALSE)},
        e \in {Absent, T("generic"), T("login"), Txt("", TRUE, FALSE)},
        k \in {Absent, T("x"), Txt("", TRUE, FALSE)}, c \in {Absent, T("psexec")}, g \in {Absent, T("x")} }

\* Texts that are cut, fall off the key, or do not fit into their column.
Wide ==
    { [Empty EXCEPT !["username"] = u, !["hostname"] = h, !["source_ip"] = ip, !["severity"] = s,
                    !["protocol"] = p, !["correlation_key"] = k, !["event_category"] = s] :
        u \in {Absent, T("bob.smith"), Txt("bob.smith.admin", TRUE, FALSE),
               Txt("administrator.of.accounts", TRUE, TRUE), Txt("", TRUE, FALSE)},
        h \in {Absent, T("web1"), Txt("web1", TRUE, FALSE), T("first-host-of-many and more")},
        ip \in {Absent, T("10.0.0.1")}, s \in {Absent, T("administrator.of.accounts")},
        p \in {Absent, T("bob.smith.admin")}, k \in {Absent, T("administrator.of.accounts")} }

Login == [Empty EXCEPT !["action"] = T("failed_login"), !["username"] = T("bob"),
                       !["hostname"] = T("web1"), !["source_port"] = N(22)]

----------------------------------------------------------------------------
Rule(ss, c) == [id |-> "r", severity |-> "low", level |-> "known",
                tactics |-> <<"lateral_movement">>, selections |-> ss, condition |-> c]
Tokens(ts) == [form |-> "tokens", tokens |-> ts, names |-> {}]
Form(f, ns) == [form |-> f, tokens |-> <<>>, names |-> ns]
One(c) == <<Selection("a", <<c>>)>>
ByUser(w) == Clause("username", <<>>, <<T(w)>>)

\* Selections a and b of a rule hold or do not.
AB(a, b) == <<Selection("a", <<ByUser(a)>>), Selection("b", <<Clause("hostname", <<>>, <<T(b)>>)>>)>>

Sentences == SeqOf({"a", "b", "c", "and", "or", "not", "(", ")"}, 3)
             \cup { <<"(", "a", "or", "b", ")">>, <<"a", "and", "(", "b", "or", "a", ")">>,
                    <<"(", "a", ")", "or", "b">>, <<"a", "or", "b", "and", "a">>,
                    <<"not", "(", "a", "or", "b", ")">>, <<"(", "a", ")", ")", "b">>,
                    <<"(", "(", "a", ")", "and", "b", ")">> }

ConditionTables ==
    { <<Rule(AB(a, b), Tokens(ts))>> : a, b \in {"bob", "web1"}, ts \in Sentences }

\* Rules that are refused, that raise, and that hold, one by one.
Specimens ==
    { Rule(One(ByUser("bob")), c) :
        c \in {Form("missing", {}), Form("not a string", {}), Form("1 of", {"a", "z"}),
               Form("all of", {"a"}), Form("1 of", {"z"}), Tokens(<<"a">>)} }
    \cup { [Rule(One(ByUser("bob")), Tokens(<<"a">>)) EXCEPT !.level = l] :
        l \in {"unknown", "not a string"} }
    \cup { Rule(ss, Form("1 of", {"a"})) :
        ss \in {<<>>, <<Selection("a", <<>>)>>, <<[Selection("a", <<>>) EXCEPT !.mapping = FALSE]>>} }
    \cup { Rule(One(c), Form("1 of", {"a"})) :
        c \in {Clause("keywords", <<>>, <<T("psexec")>>), Clause("keywords", <<>>, <<N(5)>>),
               Clause("nosuch", <<>>, <<T("x")>>), Clause("username", <<"nosuch">>, <<T("x")>>),
               Clause("username", <<"re">>, <<T("bob")>>), Clause("username", <<"re">>, <<T("[")>>),
               Clause("username", <<"re">>, <<N(5)>>), Clause("username", <<>>, <<N(5)>>),
               Clause("hostname", <<"contains">>, <<N(22)>>),
               Clause("username", <<"all">>, <<T("bob"), T("bob")>>),
               Clause("username", <<"all">>, <<T("bob"), T("x")>>),
               Clause("username", <<"all">>, <<T("bob")>>),
               Clause("hostname", <<"endswith">>, <<T("web1")>>),
               Clause("hostname", <<"startswith", "re">>, <<T("x"), T("web1")>>),
               Clause("source_port", <<"lt">>, <<N(22)>>), Clause("source_port", <<"lte">>, <<N(22)>>),
               Clause("source_port", <<"gt">>, <<N(21)>>), Clause("source_port", <<"gte">>, <<N(23)>>),
               Clause("source_port", <<"gt">>, <<T("x")>>), Clause("source_port", <<"contains">>, <<T("5")>>),
               Clause("source_port", <<>>, <<T("x")>>), Clause("source_port", <<>>, <<N(22)>>)} }

Tables == { <<x, AuthBruteforce, y>> : x, y \in Specimens }

MCCases == ((Logins \cup Details \cup Wide) \X {SeedRules})
           \cup ({Login} \X (ConditionTables \cup Tables))
=============================================================================
