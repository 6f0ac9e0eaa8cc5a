------------------------- MODULE MCResolverRequests -------------------------
(* Small instances of ResolverRequests.                                    *)
EXTENDS ResolverRequests, TLC

CONSTANTS a, b, e, u, sdist

None == 1 :> {} @@ 2 :> {}

(* a has two versions, one of which may turn out to be unavailable; the    *)
(* other requires e, which its explicit index does not have.  sdist is a   *)
(* source distribution whose build requires u, a direct URL, and b, which  *)
(* has a URL in another fork of the environment; b is also required by a.  *)
(* The newest b has no usable file; the index lists the metadata of the    *)
(* oldest versions.  Either resolution may refuse b, the nested one also u; *)
(* a request for a ends the outermost, one for u the nested resolution.    *)
MCListed == a :> {1, 2} @@ b :> {1, 2} @@ e :> {} @@ u :> {} @@ sdist :> {1}
MCSource == a :> "registry" @@ b :> "registry" @@ e :> "explicit" @@ u :> "url" @@ sdist :> "registry"
MCDeps == a :> (1 :> {e} @@ 2 :> {b}) @@ b :> None @@ e :> None @@ u :> None @@ sdist :> None
MCBuilds == {<<sdist, 1>>}
MCBuildRequires == <<sdist, 1>> :> {b, u}
MCProvided == {<<a, 1>>, <<b, 1>>}
MCIncompatible == {<<b, 2>>}
MCUnhashed == {Root, <<sdist, 1>>} \X {<<b, 1>>} \cup {<<<<sdist, 1>>, <<u, 1>>>>}
MCUnreliable == {<<a, 1>>, <<a, 2>>, <<u, 1>>}
=============================================================================
