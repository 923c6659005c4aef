---------------------------- MODULE MCModelReader ----------------------------
(***************************************************************************)
(* Packages that use every node class once: one document per extension.    *)
(***************************************************************************)
EXTENDS ModelReader

V(id, ref, ref2, path, index) ==
  [id |-> id, ref |-> ref, ref2 |-> ref2, path |-> path, index |-> index]
E(depth, ns, name, val) == <<[depth |-> depth, tok |-> Token(<<ns, name>>, "ok", "ok", val)]>>
P(depth, ns, name) == E(depth, ns, name, NoVal)
ID(i) == V(i, 0, 0, "", 0)
To(i) == V(0, i, 0, "", 0)

Triangle(ns, val) ==
  P(3, "core", "mesh") \o P(4, "core", "vertices") \o P(5, ns, "vertex")
    \o P(4, "core", "triangles") \o E(5, ns, "triangle", val)
Begin == P(0, "core", "model") \o P(1, "core", "resources")
Build(i) == P(1, "core", "build") \o E(2, "core", "item", To(i))
RootPart(text) == [path |-> Root, text |-> text]
OtherPart(text) == [path |-> Other, text |-> text]

Assemblies ==
  <<OtherPart(Begin \o E(2, "core", "object", ID(1)) \o Triangle("core", NoVal)
                \o Build(1)),
    RootPart(P(0, "core", "model") \o E(1, "core", "metadata", ID(1)) \o P(1, "core", "resources")
               \o E(2, "core", "object", ID(2)) \o P(3, "core", "components")
               \o E(4, "core", "component", V(0, 1, 0, Other, 0))
               \o E(2, "core", "object", ID(3)) \o P(3, "core", "components")
               \o E(4, "core", "component", To(2))
               \o Build(3) \o P(3, "core", "metadatagroup") \o E(4, "core", "metadata", ID(1)))>>

Colored ==
  <<RootPart(Begin \o E(2, "core", "basematerials", ID(1)) \o P(3, "core", "base")
               \o E(2, "material", "colorgroup", ID(2)) \o P(3, "material", "color")
               \o E(2, "material", "multiproperties", V(3, 1, 2, "", 0)) \o P(3, "material", "multi")
               \o E(2, "core", "object", V(4, 1, 0, "", 0)) \o Triangle("core", To(3)) \o Build(4))>>

Textured ==
  <<RootPart(Begin \o E(2, "material", "texture2d", ID(1))
               \o E(2, "material", "texture2dgroup", V(2, 1, 0, "", 0))
               \o P(3, "material", "tex2coord")
               \o E(2, "core", "object", V(3, 2, 0, "", 0)) \o Triangle("core", NoVal) \o Build(3))>>

Composites ==
  <<RootPart(Begin \o E(2, "core", "basematerials", ID(1)) \o P(3, "core", "base")
               \o E(2, "material", "compositematerials", V(2, 1, 0, "", 1))
               \o P(3, "material", "composite")
               \o E(2, "core", "object", V(3, 2, 0, "", 0)) \o Triangle("core", To(2)) \o Build(3))>>

Lattices ==
  <<RootPart(Begin \o E(2, "core", "object", ID(1)) \o Triangle("core", NoVal)
               \o E(2, "core", "object", ID(2)) \o Triangle("core", NoVal)
               \o E(4, "beam", "beamlattice", V(0, 1, 1, "", 0)) \o P(5, "beam", "beams")
               \o P(6, "beam", "beam") \o P(5, "beam", "beamsets") \o P(6, "beam", "beamset")
               \o P(7, "beam", "ref") \o Build(2))>>

Stack(i) ==
  E(2, "slice", "slicestack", ID(i)) \o P(3, "slice", "slice") \o P(4, "slice", "vertices")
    \o P(5, "slice", "vertex") \o P(4, "slice", "polygon") \o P(5, "slice", "segment")
Sliced ==
  <<OtherPart(Begin \o Stack(1) \o P(1, "core", "build")),
    RootPart(Begin \o E(2, "slice", "slicestack", ID(1))
               \o E(3, "slice", "sliceref", V(0, 1, 0, Other, 0))
               \o E(2, "core", "object", V(2, 0, 1, "", 0)) \o Triangle("core", NoVal) \o Build(2))>>

Compressed ==
  <<RootPart(Begin \o E(2, "core", "object", ID(1)) \o Triangle("zip", NoVal) \o Build(1))>>

Toolpaths ==
  <<RootPart(Begin \o E(2, "toolpath", "toolpathresource", ID(1))
               \o P(3, "toolpath", "toolpathprofiles") \o P(4, "toolpath", "toolpathprofile")
               \o P(3, "toolpath", "toolpathlayers") \o P(4, "toolpath", "toolpathlayer")
               \o P(1, "core", "build"))>>

Old(depth, name, val) == E(depth, "v093", name, val)
Raw(i) == V(i, -1, -1, "", 0)
Prototypes ==
  <<OtherPart(P(0, "core", "model") \o Old(1, "resources", NoVal) \o Old(2, "object", Raw(0))
                \o Old(3, "mesh", NoVal) \o Old(4, "vertices", NoVal) \o Old(5, "vertex", NoVal)
                \o Old(1, "build", NoVal) \o Old(2, "item", V(0, 0, -1, "", 0))),
    RootPart(P(0, "core", "model") \o Old(1, "metadata", ID(1)) \o Old(1, "resources", NoVal)
               \o Old(2, "color", NoVal) \o Old(2, "texture", Raw(0)) \o Old(2, "material", Raw(1))
               \o Old(2, "object", V(2, 1, -1, "", 0)) \o Old(3, "mesh", NoVal)
               \o Old(4, "vertices", NoVal) \o Old(5, "vertex", NoVal)
               \o Old(4, "texturevertices", NoVal) \o Old(5, "texturevertex", NoVal)
               \o Old(4, "triangles", NoVal) \o Old(5, "triangle", V(0, -1, 0, "", 0))
               \o Old(5, "triangle", V(0, 1, -1, "", 0))
               \o Old(2, "object", Raw(3)) \o Old(3, "components", NoVal)
               \o Old(4, "component", V(0, 2, -1, "", 0))
               \o Old(1, "build", NoVal) \o Old(2, "item", V(0, 3, -1, "", 0)))>>

MCDocuments ==
  {[production |-> TRUE, parts |-> Assemblies]} \cup
  {[production |-> FALSE, parts |-> p] :
     p \in {Colored, Textured, Composites, Lattices, Sliced, Compressed, Toolpaths, Prototypes}}
=============================================================================
