-------------------------------- MODULE MCAmf --------------------------------
(* Instances of Amf for TLC: strings and keys of chosen lengths, values of   *)
(* every type with up to two parts, nesting of two levels.                   *)
EXTENDS Amf

CONSTANTS Lengths, KeyLengths

Strings == {Text(n) : n \in Lengths} \cup {<<97, 0, 97>>}
Leaves == {One, Bool(1), Null} \cup {Str(s) : s \in Strings} \cup {Long(s) : s \in Strings}
Few == {One, Null, Str(Text(1))}
Maps ==
  {<<>>} \cup {<< <<Text(n), v>> >> : n \in KeyLengths, v \in Few}
    \cup {<< <<Text(1), v>>, <<Text(n), w>> >> : n \in KeyLengths, v, w \in Few}
Lists == {<<>>} \cup {<<v>> : v \in Few} \cup {<<v, w>> : v, w \in Few}
Nested ==
  {Object(<< <<Text(1), v>>, <<Text(2), One>> >>) : v \in {Object(<<>>), Strict(<<One>>), Ecma(<<>>)}}
    \cup {Strict(<<v, One>>) : v \in {Strict(<<>>), Object(<<>>)}}
    \cup {Object(<< <<Text(1), Object(<< <<Text(1), v>> >>)>> >>) : v \in {One, Strict(<<>>)}}
Echoes ==
  Leaves \cup {Object(m) : m \in Maps} \cup {Ecma(m) : m \in Maps}
    \cup {Strict(l) : l \in Lists} \cup Nested

MCCommands ==
  {<<Str(ConnectName), e, Object(<< <<Text(3), Str(s)>> >>)>> : e \in Echoes, s \in Strings}
    \cup {<<Str(CreateName), e, Null>> : e \in Echoes}
    \cup {<<Str(PublishName), One, Null, Str(s)>> : s \in Strings}

MCValues ==
  Echoes \cup {Str(n) : n \in {ConnectName, CreateName, PublishName}}
    \cup {Object(<< <<Text(3), Str(s)>> >>) : s \in Strings}
    \cup {Object(<< <<Text(1), v>> >>) : v \in {One, Strict(<<>>)}}

=============================================================================
