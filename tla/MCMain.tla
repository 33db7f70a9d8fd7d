------------------------------- MODULE MCMain -------------------------------
(***************************************************************************)
(* The cases TLC drives the runner with, one family per question.  A byte  *)
(* has 2 values and a word 4 bytes, so a u64 is 0 .. 15.                   *)
(***************************************************************************)
EXTENDS Properties

MCNumeral == [t \in {"0", "1", "2", "3", "255", "256"} |->
                CASE t = "0" -> 0 [] t = "1" -> 1 [] t = "2" -> 2
                  [] t = "3" -> 3 [] t = "255" -> 255 [] t = "256" -> 256]

MCPath == {"pre", "post", "a", "b"}

MCInvocations ==
  {<<>>, <<"gloas">>, <<"gloas", "minimal">>, <<"gloas", "mainnet">>,
   <<"deneb", "minimal">>, <<"gloas", "minimal", "minimal">>}

-----------------------------------------------------------------------------
(* Building blocks. *)

Plain(kind) == [kind |-> kind]
State(slot, log) == [kind |-> "state", st |-> [slot |-> slot, log |-> log]]
Op(effect) == [kind |-> "op", effect |-> effect]
BlockAt(slot, effect) == [kind |-> "block", slot |-> slot, effect |-> effect]
Blob(bytes) == [kind |-> "blob", bytes |-> bytes]
Ssz(reencode, root) == [kind |-> "ssz", reencode |-> reencode, root |-> root]

Files(pre, post, a, b) ==
  [p \in MCPath |-> CASE p = "pre" -> pre [] p = "post" -> post
                      [] p = "a" -> a [] p = "b" -> b]

Case(line, files, run, ser) ==
  [line |-> line, files |-> files, run |-> run, ser |-> ser]

Line(runner, handler, pre, post, bls, count, inputs) ==
  <<runner, handler, pre, post, bls, count, "-", inputs, "-", "1">>

Unopened == {Plain("missing"), Plain("junk"), Plain("bomb")}

Genesis == State(0, <<>>)

Missing == Plain("missing")

-----------------------------------------------------------------------------
(* Routing: every handler of every runner, and every way a line is not     *)
(* served, in a world where nothing would fail.                            *)

Calm == Files(Genesis, State(0, <<"slashings">>), Op("accept"), Op("accept"))

OddHandlers == {"unknown", "attestation", "slashings", "blocks", "Fork", "withdrawals"}

OddLines ==
     {<<"operations">>, <<"ssz_static", "Fork", "a">>, <<"nonsense", "x">>,
      <<"fork", "fork">>, <<"genesis", "x">>, <<"transition">>,
      <<"fork_choice", "x">>, <<"rewards">>, <<"">>, <<>>}
  \cup {<<r, "blocks", "pre", "post", bls, count, epoch, <<"a">>, block, "0">> :
          r \in {"operations", "sanity", "nonsense"}, bls \in {"x", "1", "256"},
          count \in {"1", "256"}, epoch \in {"-", "x"}, block \in {"-", "256"}}

SszLine(handler) ==
  <<"ssz_static", handler, "a", [digits |-> 64, hex |-> TRUE, root |-> "r"]>>

RoutingCases ==
  {Case(line, Calm, "accept", "ok") : line \in
     OddLines
     \cup {Line("operations", h, "pre", "post", "1", "0", <<"a">>) :
             h \in InputHandlers \cup StateOnlyHandlers}
     \cup {Line("epoch_processing", h, "pre", "post", "2", "0", <<"">>) :
             h \in EpochHandlers}
     \cup {Line(r, h, "pre", "post", bls, "0", inputs) :
             r \in DOMAIN StateRunner, h \in OddHandlers,
             bls \in {"0", "2"}, inputs \in {<<"">>, <<"a">>}}
     \cup {Line(s[1], s[2], "pre", "post", bls, count, inputs) :
             s \in BlocksShape \cup SlotsShape, bls \in {"0", "2"},
             count \in {"0", "1"}, inputs \in {<<"">>, <<"a">>, <<"a", "b">>}}
     \cup {SszLine(h) : h \in Containers \cup OddHandlers}}

-----------------------------------------------------------------------------
(* One operation or epoch phase on a pre-state, with every way a file can  *)
(* be or not be what it should.                                            *)

PreWorlds ==
  {<<"-", Genesis>>, <<"pre", Genesis>>} \cup {<<"pre", f>> : f \in Unopened}

PostWorlds(logs) ==
     {<<"-", Missing>>, <<"post", Missing>>, <<"post", Plain("junk")>>}
  \cup {<<"post", State(0, log)>> : log \in logs}

OperationCases ==
     {Case(Line("operations", "attestation", pre[1], post[1], "0", "0", inputs),
           Files(pre[2], post[2], a, Op("accept")), "accept", ser) :
        pre \in PreWorlds, post \in PostWorlds({<<>>, <<"a">>}),
        inputs \in {<<"">>, <<"a">>, <<"a", "b">>, <<"-">>},
        a \in Unopened \cup {Op(e) : e \in Effects},
        ser \in {"ok", "err"}}
  \cup {Case(Line(h[1], h[2], pre[1], post[1], "1", "0", inputs),
             Files(pre[2], post[2], Op("accept"), Missing), run, ser) :
          h \in {<<"operations", "withdrawals">>, <<"epoch_processing", "slashings">>},
          pre \in PreWorlds, post \in PostWorlds({<<"withdrawals">>, <<"slashings">>}),
          inputs \in {<<"">>, <<"-">>, <<"a">>},
          run \in Effects, ser \in {"ok", "err", "panic"}}

-----------------------------------------------------------------------------
(* Block sequences of up to two blocks, in either order, and twice the     *)
(* same block.                                                             *)

BlockFiles == {BlockAt(s, "accept") : s \in 0 .. 2}
              \cup {BlockAt(2, "reject"), BlockAt(2, "panic")} \cup Unopened

BlockCases ==
     {Case(Line("sanity", "blocks", "pre", post, "0", count, inputs),
           Files(Genesis, expected, a, b), "accept", "ok") :
        post \in {"-", "post"}, count \in {"0", "1", "2"},
        inputs \in {<<"">>, <<"a">>, <<"a", "b">>, <<"b", "a">>, <<"a", "a">>},
        expected \in {State(2, <<"a", "b">>), State(1, <<"a">>)},
        a \in BlockFiles, b \in BlockFiles}
  \cup {Case(Line(r, r, pre[1], post[1], "1", "1", <<"a">>),
             Files(pre[2], post[2], BlockAt(1, "accept"), Missing), "accept", ser) :
          r \in {"finality", "random"}, pre \in PreWorlds,
          post \in PostWorlds({<<"a">>}), ser \in {"ok", "err", "panic"}}

-----------------------------------------------------------------------------
(* Slot advances: every blob of up to five bytes, from slots at both ends  *)
(* of the word.                                                            *)

Blobs == UNION {[1 .. n -> {0, 1}] : n \in 0 .. 5}

SlotCases ==
     {Case(Line("sanity", "slots", "pre", "post", "0", "0", <<"a">>),
           Files(State(slot, <<>>), State(expected, <<>>), Blob(bytes), Missing),
           run, "ok") :
        slot \in {0, 12, 15}, expected \in {3, 15}, bytes \in Blobs, run \in Effects}
  \cup {Case(Line("sanity", "slots", pre[1], "-", "0", "0", inputs),
             Files(pre[2], Missing, a, Blob(<<1>>)), "accept", "ok") :
          pre \in PreWorlds, a \in Unopened \cup {Blob(<<1>>)},
          inputs \in {<<"">>, <<"a">>, <<"a", "b">>}}

-----------------------------------------------------------------------------
(* Containers: every outcome of decode, encode and hash_tree_root against  *)
(* every kind of expected root.                                            *)

RootField(digits, hex, root) == [digits |-> digits, hex |-> hex, root |-> root]

SszCases ==
  {Case(<<"ssz_static", h, p, RootField(digits, hex, "r")>>,
        Files(Missing, Missing, a, Missing), "accept", "ok") :
     h \in {"Fork", "unknown"}, p \in {"a", "-"},
     digits \in {0, 63, 64, 65}, hex \in BOOLEAN,
     a \in Unopened \cup {Genesis}
             \cup {Ssz(re, root) : re \in {"same", "differs", "err", "panic"},
                                   root \in {"r", "other", "err", "panic"}}}

-----------------------------------------------------------------------------
SingleCases == OperationCases \cup SszCases

SequenceCases == BlockCases \cup SlotCases
=============================================================================
