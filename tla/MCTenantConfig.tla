---------------------------- MODULE MCTenantConfig ----------------------------
\* Model values for TenantConfig.  Skills and tools of the areas share names;
\* hook names are listed newest first.
EXTENDS TenantConfig

CONSTANTS h1, h2

R == INSTANCE DenyRules

MCHook == <<h1, h2>>

Bad  == R!Leaf({"x"})
Good == R!Leaf({"y"})

\* The list of names in which only the second is forbidden, a call without the
\* list, and a text that is no JSON.
Deep == R!Object([list |-> R!Array(<<R!Object([name |-> Good]), R!Object([name |-> Bad])>>)])
Flat == R!Object([name |-> Good])

MCArguments == {Deep, Flat, R!Unparsed}

\* A rule as it should be, and with a message that cannot be filled in.
OnlyY == [kind |-> "rule", path |-> <<"list", "*", "name">>, op |-> "not_in",
          target |-> {{"y"}}, faulty |-> FALSE]

MCHookConf == {OnlyY, [OnlyY EXCEPT !.faulty = TRUE],
               [kind |-> "bad"], [kind |-> "rewrite", to |-> Flat]}

\* Two names that differ in case, and another.
MCName  == {"a", "A", "b"}
MCLower == [n \in MCName |-> IF n = "A" THEN "a" ELSE n]
=============================================================================
