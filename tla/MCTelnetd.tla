----------------------------- MODULE MCTelnetd -----------------------------
(* A small instance of Telnetd for TLC: a telnet client that negotiates and
   then logs in and types commands, and a plain connection that does not. *)
EXTENDS Telnetd

CONSTANTS client, plain

Client == <<{"opt"}, {"lf"}, {"x", "lf"}, {"opt", "x", "lf"}, {"lf"}>>
Plain == <<{"x", "sub"}, {"x", "bs", "sub"}, {"crnul", "x"}>>
EachHost(a, b) == (client :> a) @@ (plain :> b)
Tokens == EachHost(Client, Plain)
=============================================================================
