------------------------------ MODULE MCSession ------------------------------
(* One client and one test tool, both of them on Linux.                    *)
EXTENDS Session
CONSTANTS client, tester
MCClients == {client}
MCTesters == {tester}
MCRefusable == {client, tester}
MCMayMistype == {tester}
=============================================================================
