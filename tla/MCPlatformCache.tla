-------------------------- MODULE MCPlatformCache --------------------------
EXTENDS PlatformCache
CONSTANTS r1, r2, genrePage, pl1, art1, art2, art3
Mix(x, y) == [r \in {r1, r2} |-> IF r = r1 THEN x ELSE y]
MCMixes == {Mix("known", "known"), Mix("scan", "search"), Mix("known", "features"),
            Mix("genres", "genres")}
MCSaved == <<pl1>>
MCPages == <<genrePage>>
MCListed == [p \in {genrePage} |-> <<pl1>>]
MCArtists == <<art1, art2, art3>>
=============================================================================
