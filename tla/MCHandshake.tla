---------------------------- MODULE MCHandshake ----------------------------
(***************************************************************************)
(* Handshake for URLs with and without port and path at every boundary of  *)
(* the parser, answers that upgrade, refuse, repeat a header or carry an   *)
(* odd value, and small requests of an application.                        *)
(***************************************************************************)
EXTENDS Handshake

UrlOf(s, h, p, q) == [scheme |-> s, host |-> h, port |-> p, path |-> q]

MCUrls ==
  { UrlOf(WS_PREFIX, <<"h">>, p, q) : p \in {NoPort, 3000}, q \in {NULL, <<"/">>} }
  \cup { UrlOf(s, <<"h", "o">>, NoPort, q) :
           s \in {WS_PREFIX, WSS_PREFIX}, q \in {NULL, <<"/">>} }
  \cup { UrlOf(WS_PREFIX, <<"h">>, p, <<"/", "a", ":", "b", "/">>) :
           p \in {0, 65535, 99999, 100000} }
  \cup { UrlOf(<<"h", "t", "t", "p", ":", "/", "/">>, <<"h">>, NoPort, NULL) }

Header(k, v) == [key |-> k, value |-> v]

Upgrades(accept, rest) ==
  [status |-> 101, rest |-> rest,
   lines |-> <<Header(<<"Upgrade">>, <<"a", ":", "b">>), Header(<<"Sec", "Accept">>, accept)>>]

Repeats ==
  [status |-> 101, rest |-> <<>>,
   lines |-> <<Header(<<"Sec", "Accept">>, <<"other">>), Header(<<"X">>, <<>>),
               Header(<<"sec", "accept">>, Expected)>>]

RepeatsBadly ==
  [status |-> 101, rest |-> <<>>,
   lines |-> <<Header(<<"Sec", "Accept">>, Expected), Header(<<"sec", "accept">>, <<"other">>)>>]

MCAnswers ==
  { Upgrades(a, <<>>) : a \in {<<"acc">>, <<"acc", "x">>, <<>>, Expected \o <<"x">>, <<"other", "value">>} }
  \cup { Upgrades(Expected, <<"x", ":", " ", "y", "z">>), Repeats, RepeatsBadly }
  \cup { [status |-> s, lines |-> <<Header(<<"Sec", "Accept">>, Expected)>>, rest |-> <<>>] :
           s \in {299, 300} }
  \cup { [status |-> 200, lines |-> <<>>, rest |-> <<"body">>] }

MCAppKeys == {<<"X">>, <<"x">>, <<"Sec", "Accept">>, <<"Host">>}
MCAppValues == {<<>>, <<"a", ":", "b">>}
MCAppBodies == {<<"b">>, <<CR, LF>>}
=============================================================================
