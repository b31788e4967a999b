----------------------------- MODULE Destination -----------------------------
(***************************************************************************)
(* From the command line to the user, host and port that are used:         *)
(* parse_destination (src/src/host.rs), and what real_main makes of its    *)
(* result, of -p and of --jumphost (src/src/main.rs).                      *)
(*                                                                         *)
(* The code looks at an argument for the first `@', at how many colons it  *)
(* has, for a `::', and whether what follows the last colon is a port.  So *)
(* an argument is a record of                                              *)
(*   user   what is before the first `@': "absent" without one, "empty",   *)
(*          "plain" or "colon", a name with a colon in it                  *)
(*   form   the rest: a key of Colons                                      *)
(*   tail   what follows its last colon: a "number" or a "text"            *)
(***************************************************************************)
EXTENDS Integers

\* host, host:port, a:b:c, an IPv6 address in full, the same with a port, and
\* two abbreviated ones, 1::2 and 1:2:3:4:5:6:7::
Colons == [name |-> 0, name_port |-> 1, odd |-> 2, v6 |-> 7, v6_port |-> 8,
           short |-> 2, short_eight |-> 8]

Abbreviated == {"short", "short_eight"}

Arguments == [user: {"absent", "empty", "plain", "colon"}, form: DOMAIN Colons,
              tail: {"number", "text"}]

NoJumphost == [form |-> "none", tail |-> "text"]

\* [user@]host[:ssh_port], as the help text has it: behind one colon is a port.
Jumphosts ==
    {NoJumphost} \cup {jump \in [form: DOMAIN Colons, tail: {"number", "text"}] :
                         jump.form = "name_port" => jump.tail = "number"}

\* A host, as the text of a form with its tail cut off, or not.
Host(form, cut) == [form |-> form, cut |-> cut]

-----------------------------------------------------------------------------
HasTail(arg) ==
    \/ Colons[arg.form] = 1
    \/ Colons[arg.form] = 8 /\ arg.form \notin Abbreviated

\* The `invalid port' and `invalid host' errors are the arguments it rejects.
Parses(arg) ==
    IF HasTail(arg) THEN arg.tail = "number"
                    ELSE Colons[arg.form] \in {0, 7} \/ arg.form \in Abbreviated

\* user@ replaces -u, even by nothing; a user that is empty in the end is the
\* local one.
User(arg, option) ==
    LET given == IF arg.user = "absent" THEN option ELSE arg.user
    IN  IF given \in {"absent", "empty"} THEN "local" ELSE given

ParseDestination(arg, default_user, default_port) ==
    [user |-> User(arg, default_user),
     host |-> Host(arg.form, HasTail(arg)),
     port |-> IF HasTail(arg) THEN "own" ELSE default_port]

\* Mutant: forgets the port behind a full IPv6 address.
CliHostHasExplicitPort_OneColon(arg) ==
    Colons[arg.form] + (IF arg.user = "colon" THEN 1 ELSE 0) = 1

\* This counts over the whole argument, user name included.
CliHostHasExplicitPort(arg) ==
    Colons[arg.form] + (IF arg.user = "colon" THEN 1 ELSE 0) \in {1, 8}

JumpHostname(jump) == Host(jump.form, Colons[jump.form] = 1 /\ jump.tail = "number")

\* What is connected to: both branches of real_main's test come to this.
Target(cli) ==
    LET dest == ParseDestination(cli.host, cli.username, "option")
    IN  [user |-> dest.user,
         host |-> IF cli.jumphost = NoJumphost THEN dest.host ELSE JumpHostname(cli.jumphost),
         port |-> IF cli.jumphost # NoJumphost THEN "jport"
                  ELSE IF CliHostHasExplicitPort(cli.host) THEN dest.port ELSE "option"]

-----------------------------------------------------------------------------
(* What the comments of host.rs and the help texts of main.rs say, by the  *)
(* meaning of each form.                                                   *)

Asked(cli) ==
    [user |-> IF cli.username = "option" THEN "option"
              ELSE IF cli.host.user \in {"plain", "colon"} THEN cli.host.user ELSE "local",
     host |-> IF cli.jumphost = NoJumphost THEN Host(cli.host.form, cli.host.form \in {"name_port", "v6_port"})
                                       ELSE Host(cli.jumphost.form, cli.jumphost.form = "name_port"),
     port |-> IF cli.jumphost # NoJumphost THEN "jport"
              ELSE IF cli.host.form \in {"name_port", "v6_port"} THEN "own" ELSE "option"]

\* Where the code does something else.  The help of -u has it override the user@
\* of the destination, which it gives way to; and with a colon in the user name
\* the port of the destination may be lost.
Deviations(cli) ==
    {[Asked(cli) EXCEPT !.user = user, !.port = port] :
        user \in {Asked(cli).user}
                    \cup (IF cli.host.user = "absent" THEN {} ELSE {User(cli.host, "absent")}),
        port \in {Asked(cli).port}
                    \cup (IF cli.host.user = "colon" THEN {"option"} ELSE {})}
=============================================================================
