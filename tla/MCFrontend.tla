----------------------------- MODULE MCFrontend -----------------------------
\* Calls that differ in what decides them.
EXTENDS Frontend

C(cat, scope, within, suspicious, dangerous, rules) ==
  [cat |-> cat, scope |-> scope, within |-> within, suspicious |-> suspicious,
   dangerous |-> dangerous, rules |-> rules]

MCCalls == {C("read", "r", {"r"}, FALSE, FALSE, {}),            \* a plain read
            C("write", "w", {"w"}, FALSE, FALSE, {}),           \* a write in the working directory
            C("write", "o", {"o"}, TRUE, FALSE, {"allow"}),     \* one outside it, with an allow rule
            C("execute", "b", {"b"}, FALSE, TRUE, {"allow"}),   \* a dangerous command
            C("execute", "s", {}, FALSE, FALSE, {}),            \* a command its own grant does not cover
            C("execute", "f", {"f"}, FALSE, TRUE, {"flagAllow", "deny"}),
            C("mcp", "m", {"m"}, FALSE, FALSE, {"allow", "deny"})}
=============================================================================
