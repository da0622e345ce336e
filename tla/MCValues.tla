------------------------------- MODULE MCValues -------------------------------
(* The larger values the instances give to constants.                       *)
EXTENDS Integers, Sequences

\* TokenBucket: an hour and a day, and two campaigns of one account.
BucketPer  == [hour |-> 2, day |-> 5]
BucketRate == [a |-> [hour |-> 1, day |-> 2], b |-> [hour |-> 2, day |-> 3]]

\* MapsSearch: a firm type with phrasings of its own, and a bare search.
SomeFirmTypes == {{"a", "b"}, {}}

\* SignIn: two Google accounts, the first of which changes its address, the second
\* then signing in with the old one, and a Microsoft account, all of one domain.
SomeDomainOf == [e \in {"ann", "bob", "ann2"} |-> "corp"]
Id(p, s, e) == [provider |-> p, subject |-> s, email |-> e, hd |-> "no domain"]
SomeIdentities == {Id("google", "s1", "ann"), Id("google", "s1", "ann2"),
                   Id("google", "s2", "ann"),
                   Id("microsoft", "m1", "ann")}

\* Crawl: three pages, one of them on another host; sites that allow all, that
\* forbid the home page on one host, or a page elsewhere.
SomeHostOf   == <<"site", "blog", "site">>
SomeVariants == <<"bare", "bare", "www">>
SiteRules == {[h \in {"bare", "www", "blog"} |-> {}],
              [h \in {"bare", "www", "blog"} |-> IF h = "bare" THEN {0} ELSE {1}],
              [h \in {"bare", "www", "blog"} |-> IF h = "blog" THEN {2} ELSE {1}]}

\* No redirects, or the first page leads to the second and on to the third.
Hop(p, h) == [page |-> p, host |-> h]
SomeRedirections == {[p \in 0 .. 3 |-> <<>>],
                     [p \in 0 .. 3 |-> IF p = 1 THEN <<Hop(2, "bare"), Hop(3, "www")>> ELSE <<>>]}

\* Mailbox: two messages of one account to the same recipient, an account of
\* another tenant polled before it; a complete report, prose alone, and a
\* report whose part names nobody.
Part(names, status, words) == [names |-> names, status |-> status, words |-> words]
SomeShapes == {
  [report |-> <<Part(TRUE, "5", {})>>, prose |-> Part(TRUE, "none", {}), quotes |-> TRUE, marked |-> TRUE],
  [report |-> <<>>, prose |-> Part(TRUE, "5", {"blocked"}), quotes |-> FALSE, marked |-> FALSE],
  [report |-> <<Part(FALSE, "4", {"full"})>>, prose |-> Part(TRUE, "4", {"rate"}), quotes |-> TRUE, marked |-> FALSE]}
Reports      == {s \in SomeShapes : s.marked}
AccountOf    == [m1 |-> "a1", m2 |-> "a1", m3 |-> "a2"]
Recipient    == [m1 |-> "x", m2 |-> "x", m3 |-> "x"]
SomeAccounts == <<"a2", "a1">>

\* ValidationRules: handlings the pipeline knows and does not know, a domain put on
\* the screen's list, and an address for each gate.
SomePatches == {<<"llm_threshold", 80>>, <<"role_based_keywords", {}>>,
                <<"role_based_keywords", {"jobs"}>>, <<"disposable_domains", {"corp"}>>,
                <<"unknown_retry_policy", "reject">>}
               \cup {"catch_all_handling"} \X {"accept", "allow"}
               \cup {"risk_handling"} \X {"reject", "accept"}
Email(l, s, d, dead, m) ==
  [local |-> l, tokens |-> {l}, domain |-> "corp", syntax_ok |-> s, disposable_ok |-> d, dead |-> dead, takes_mail |-> m]
SomeEmails == {Email("ann", TRUE, TRUE, FALSE, TRUE), Email("info", TRUE, TRUE, FALSE, TRUE),
               Email("ann", FALSE, TRUE, FALSE, FALSE), Email("ann", TRUE, TRUE, FALSE, FALSE),
               Email("ann", TRUE, FALSE, TRUE, TRUE), Email("ann", TRUE, FALSE, FALSE, TRUE)}
SomeAnswers == {[llm |-> 40, mv |-> m] : m \in {"valid", "invalid", "catch_all", "risk", "unknown"}}
SomeSelections == {{}, {"llm"}}

\* Templates: known and unknown variables, braces the renderer does not match, a text
\* that holds the opt-out line; a fact unknown, and one with braces in it; no line, a
\* blank one, the user's own, and one with a placeholder.
Text(t) == << <<"text", "hi">>, t >>
SomeTexts == {Text(<<"var", "Company">>), Text(<<"var", "City">>), Text(<<"var", "Firm">>),
              Text(<<"odd", "First Name">>), Text(<<"text", "stop">>)}
StandardLine == << <<"text", "reply stop">> >>
SomeLines == {<<>>, << <<"space", " ">> >>, << <<"text", "stop">> >>,
              << <<"text", "unlike">>, <<"var", "Company">> >>}
Fact(company, city) == [v \in {"Company", "City"} |-> IF v = "Company" THEN company ELSE city]
SomeFacts == {Fact(<< <<"text", "Acme">> >>, <<>>),
              Fact(<< <<"var", "City">> >>, << <<"text", "Pune">> >>)}
=============================================================================
