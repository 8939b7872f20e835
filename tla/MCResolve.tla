----------------------------- MODULE MCResolve -----------------------------
(* Resolve for two processes of two releases, one of which moved a model to  *)
(* another revision, beside a model of another name.                        *)
EXTENDS Resolve, TLC

MCEntry(name, revision, onnx_path, graph, tokenizer) ==
  [name |-> name, revision |-> revision, onnx_path |-> onnx_path,
   graph |-> graph, tokenizer |-> tokenizer]

MCBge == <<"BAAI", "/", "bge">>

MCEntries ==
  {MCEntry(MCBge, "r1", <<"onnx", "/", "model.onnx">>, "g1", "t1"),
   MCEntry(MCBge, "r2", <<"onnx", "/", "model.onnx">>, "g2", "t1"),
   MCEntry(<<"gte">>, "r3", <<"model.onnx">>, "g3", "t3")}

MCGiven(dir, endpoint, offline) == [cache_dir |-> dir, endpoint |-> endpoint, offline |-> offline]

MCGivens ==
  {MCGiven(Unset, Unset, FALSE), MCGiven(<<"d">>, <<"mirror">>, FALSE), MCGiven(Unset, Unset, TRUE)}

MCEnvironment(dir, xdg, mirror, off, token) ==
  [CYBORGDB_EMBED_CACHE |-> dir, XDG_CACHE_HOME |-> xdg, HOME |-> <<"h">>,
   CYBORGDB_EMBED_ENDPOINT |-> mirror, CYBORGDB_EMBED_OFFLINE |-> off, HF_TOKEN |-> token]

MCEnvironments ==
  {MCEnvironment(Unset, Unset, Unset, FALSE, TRUE),
   MCEnvironment(<<"d">>, Unset, <<"mirror">>, FALSE, TRUE),
   MCEnvironment(Unset, <<"x">>, Unset, TRUE, FALSE)}

MCSymmetry == Permutations(Procs)
=============================================================================
