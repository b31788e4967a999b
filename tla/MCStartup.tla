------------------------------- MODULE MCStartup -------------------------------
(***************************************************************************)
(* A small Startup for TLC: every form of a host, with and without user    *)
(* and jumphost, and ids and passkeys that are a character short or long.  *)
(* And the codec, on messages of every type.                               *)
(***************************************************************************)
EXTENDS Startup

MCJumphosts == {NoJumphost, [form |-> "name", tail |-> "text"],
                [form |-> "name_port", tail |-> "number"]}

MCCommandLines ==
    [host: Arguments, username: {"absent", "option"}, jumphost: {NoJumphost}]
        \cup [host: {[user |-> "plain", form |-> "name_port", tail |-> "number"]},
              username: {"absent"}, jumphost: MCJumphosts]

MCOutputs ==
    {Line(id, key, after) : id \in 1 .. IdLength + 1, key \in 1 .. KeyLength,
                            after \in {<< >>, <<"end">>, <<"end", "text">>, <<"text">>}}

\* For the codec, values of fields of each type: of an optional field none or
\* one, and lengths and numbers on both sides of what fits a digit.
Strings == {<< >>, <<0>>, [i \in 1 .. Half - 1 |-> i], [i \in 1 .. Half |-> 0]}
MCValues(type) ==
    CASE type = "list" -> {<< >>} \cup {<<a, b>> : a, b \in Strings}
      [] type = "flag" -> {<< >>, <<TRUE>>}
      [] type = "status" -> {<< >>} \cup {<<Statuses[s]>> : s \in DOMAIN Statuses}
      [] type = "int32" -> {<< >>} \cup {<<v>> : v \in {-(Word \div 2), -1, 0, Half, (Word \div 2) - 1}}
      [] OTHER -> {<< >>} \cup {<<a>> : a \in Strings}

MCMessages(message) ==
    LET types == Fields[message]
        values[f \in 0 .. Len(types)] ==
            IF f = 0 THEN {<< >>}
            ELSE {Append(rest, v) : rest \in values[f - 1], v \in MCValues(types[f])}
    IN  values[Len(types)]

\* Every message is read as it was written.
ASSUME RoundTrips ==
    \A message \in DOMAIN Fields : \A values \in MCMessages(message) :
        Decode(message, Encode(message, values)) = values
=============================================================================
