------------------------------ MODULE MCCmdSetup ------------------------------
EXTENDS CmdSetup

\* commands appended by Setup: two named by commandOrder, four not
MCRegistered == <<"runtime", "store", "api", "auth", "health", "proxy">>

MCCommandOrder == <<"server", "new", "env", "login", "run", "logs", "call",
                    "update", "kill", "store", "config", "auth", "status",
                    "stream", "file">>

MCSystemRules == <<"rule_registry", "rule_auth", "rule_public">>

\* the auth implementation, the store flags and the first argument
MCFlags == [auth : {"jwt", "service"}, store_database : {"", "db"},
            store_table : {"", "t"}, arg : {"", "store", "api", "ls", "nosuch"}]
=============================================================================
