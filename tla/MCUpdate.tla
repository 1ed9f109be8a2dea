---- MODULE MCUpdate ----
EXTENDS Update, TLC

Cli(target, format, digest) ==
    [kind |-> "thorax-cli", target |-> target, format |-> format, size |-> 1, digest |-> digest]
Signed(version, hash, digest) ==
    [version |-> version, epoch |-> release_epoch(version), hash |-> hash, signed |-> TRUE,
     future |-> FALSE, wellformed |-> TRUE,
     artifacts |-> {Cli(Platform, "gz", digest), Cli("other", "gz", digest)}]

Old == Signed(<<0, 9, 999>>, "h1", "d1")
Mid == Signed(<<0, 10, 0>>, "h2", "d2")
New == Signed(<<1, 0, 0>>, "h3", "d3")

MCManifests ==
    {Old, Mid, New, [Mid EXCEPT !.hash = "h2x"],
     [New EXCEPT !.signed = FALSE, !.hash = "x1"],
     [New EXCEPT !.epoch = 1000001, !.hash = "x2"],
     [New EXCEPT !.future = TRUE, !.hash = "x3"],
     [New EXCEPT !.wellformed = FALSE, !.hash = "x4"],
     [New EXCEPT !.artifacts = {Cli("other", "gz", "d3")}, !.hash = "x5"],
     [New EXCEPT !.artifacts = {Cli(Platform, "zip", "d3")}, !.hash = "x6"],
     [New EXCEPT !.artifacts = @ \cup {Cli(Platform, "raw", "d1")}, !.hash = "x7"]}

MCBytes == [size : {1, 2}, digest : {"d1", "d2", "d3"}]
MCFirst == <<0, 9, 999>>
MCMarkers == {{}, {9998, 10000}}
Symmetry == Permutations(Procs)
====
