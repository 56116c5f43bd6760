------------------------------ MODULE MCEnrich ------------------------------
EXTENDS Enrich

K(name, class) == [text |-> <<name, class>>, name |-> name, class |-> class,
                   len |-> 1, head |-> name]

\* A name on the denylist, the same over MAX_KEY_BYTES, one that needs rewriting,
\* and two ordinary ones.
pw == K("password", "plain")
longPw == K("password", "huge")
odd == K("a", "unsafe")
n1 == K("n1", "plain")
n2 == K("n2", "plain")

secret == Str("secret")
plain == Str("plain")
other == Str("other")
bad == Str("surrogate")
E(k, v) == [key |-> k, val |-> v]

\* Names, values and depths: denied at the top, inside, in a list, under a
\* rewritten name; at the depth limit; more names than a structure may have.
Values ==
  { plain, bad, List(<<plain, Obj(<<E(pw, secret)>>)>>),
    Obj(<<E(n1, plain), E(pw, secret)>>),
    Obj(<<E(longPw, secret), E(odd, other)>>),
    Obj(<<E(odd, plain), E(K("b", "unsafe"), other)>>),
    Obj(<<E(n1, Obj(<<E(pw, Obj(<<E(n2, secret)>>))>>)), E(n2, bad)>>),
    Obj(<<E(n1, Obj(<<E(n1, Obj(<<E(n1, Obj(<<E(n1, plain)>>))>>))>>))>>),
    Obj(<<E(n1, plain), E(n2, plain), E(pw, secret), E(odd, other)>>) }

C(k, v) == [name |-> k, val |-> v, padded |-> FALSE, size |-> 4]
Padded(k, v) == [C(k, v) EXCEPT !.padded = TRUE]

\* The denied name behind so many separators that it is emitted cut, with a digest.
Long(v) == [C(longPw, v) EXCEPT !.size = 20]

Queries ==
  { <<>>, <<None, None>>, <<C(n1, plain), None, Padded(pw, secret)>>,
    <<C(n1, plain), C(pw, secret), C(n1, other), C(pw, secret)>>,
    <<C(odd, plain), C(n1, other), C(odd, other)>>,
    <<C(n1, plain), C(n2, plain), C(pw, secret), C(odd, plain)>>,
    <<C(n1, plain), C(n1, plain), C(n1, plain), C(n1, plain), C(n1, other)>>,
    <<[C(n1, plain) EXCEPT !.size = 90]>>,
    <<Long(secret)>>, <<C(n1, plain), Long(secret), C(pw, secret), Long(secret)>> }

Base ==
  [query |-> <<>>, type |-> "none", body |-> [size |-> 0], truncated |-> FALSE,
   skipped |-> "empty", params |-> <<>>, hostile |-> FALSE, user |-> None,
   route |-> <<>>, wrote |-> <<>>, real |-> None]

Json(v, extra, size, parses) ==
  [Base EXCEPT !.type = "json", !.skipped = None,
     !.body = [size |-> size, sites |-> Nodes(v) - 1 + extra, value |-> v, parses |-> parses]]

Bytes(comps) == QueryBytes(comps)
Form(q) == [Base EXCEPT !.type = "form", !.skipped = None,
              !.body = [size |-> Bytes(q), comps |-> q]]

T(k, v, shape) == [name |-> k, val |-> v, shape |-> shape]
Text(comps, size) ==
  [Base EXCEPT !.type = "text", !.skipped = None,
     !.body = [size |-> size, sites |-> Len(comps), comps |-> comps]]

P(k, headed) == [name |-> k, file |-> IF k = pw THEN secret ELSE plain, headed |-> headed]
Upload(parts, boundary, truncated) ==
  [Base EXCEPT !.type = "multipart", !.skipped = "content_type", !.truncated = truncated,
     !.body = [parts |-> parts, boundary |-> boundary]]

Users ==
  { [id |-> plain, roles |-> plain, password |-> secret], [id |-> Obj(<<>>), name |-> [kind |-> "num", v |-> "1"]],
    [roles |-> List(<<Obj(<<>>), plain, other, plain>>)], [roles |-> Obj(<<>>)] }

MCRequests ==
  {Base, [Base EXCEPT !.skipped = "unread", !.type = "json"]}
  \cup {[Base EXCEPT !.query = q] : q \in Queries}
  \cup {[Base EXCEPT !.params = <<E(n1, plain), E(pw, secret)>>, !.hostile = h, !.query = q,
                     !.type = "binary", !.skipped = "content_type"] :
          h \in BOOLEAN, q \in {<<>>, <<[C(n1, plain) EXCEPT !.size = 90]>>}}
  \cup {Json(v, 0, 9, "yes") : v \in Values}
  \cup {[Json(v, x, s, p) EXCEPT !.truncated = t] :
          v \in {plain}, x \in {0, 9}, s \in {9, 50}, p \in {"lenient", "never"}, t \in BOOLEAN}
  \cup {Form(q) : q \in Queries \ {<<>>}}
  \cup {Text(<<T(pw, secret, "pair"), T(n1, plain, "pair"), T(n2, other, "prose")>>, s) : s \in {9, 50}}
  \cup {Upload(ps, b, t) :
          ps \in {<<P(n1, TRUE), P(pw, TRUE)>>, <<P(n1, FALSE), P(pw, TRUE), P(n2, TRUE)>>,
                  <<P(n1, TRUE), P(n2, TRUE), P(pw, TRUE)>>},
          b \in BOOLEAN, t \in BOOLEAN}
  \cup {[Base EXCEPT !.user = u] : u \in Users}
  \cup {[Base EXCEPT !.route = r, !.wrote = w, !.real = x] :
          r \in {<<"client">>, <<"client", "proxy">>, <<"client", "proxy", "proxy2">>,
                 <<"proxy">>, <<"proxy2", "proxy">>},
          w \in {<<>>, <<"junk">>, <<"forged">>, <<"forged", "proxy">>, <<"forged", "junk">>},
          x \in {None, "forged", "junk"}}

Bag == [target |-> None, detail |-> None, before |-> None, after |-> None,
        query |-> <<>>, text |-> None]

MCBags ==
  {None, Bag, [Bag EXCEPT !.target = other]}
  \cup {[Bag EXCEPT !.detail = Obj(es)] :
          es \in {<<E(n1, plain), E(pw, secret)>>, <<E(n1, Obj(<<E(pw, secret)>>))>>,
                  <<E(n1, plain), E(n2, plain), E(pw, secret), E(odd, other)>>}}
  \cup {[Bag EXCEPT !.before = b, !.after = a] :
          a, b \in {None, Obj(<<E(pw, secret), E(n1, plain)>>), Obj(<<E(n1, other)>>),
                    Obj(<<E(n1, Obj(<<E(pw, secret)>>)), E(n2, plain)>>)}}
  \cup {[Bag EXCEPT !.query = <<[field |-> n1, val |-> plain], [field |-> longPw, val |-> secret]>>,
                    !.text = t] : t \in {"default", "own", None}}

MCTargets ==
  { [where |-> w, key |-> k] : w \in {"path", "query", "detail"}, k \in {pw, n1} }
  \cup {[where |-> "none", key |-> n1]}
=============================================================================
