-------------------------------- MODULE Rules --------------------------------
(***************************************************************************)
(* The production-readiness rules of `xtask validate`                      *)
(* (wrac_xtask/src/validation/): what the built CLAP bundle says of itself *)
(* and what the metadata says, for the formats to be validated.            *)
(*                                                                         *)
(* Before that, PluginMetadata::validate (metadata.rs) refuses the         *)
(* metadata of any command.                                                *)
(*                                                                         *)
(* A product is                                                            *)
(*   plugins      for each plug-in the bundle exports, its parameters      *)
(*   placeholders metadata that still holds the template's value           *)
(*   template     the checkout is the template's own repository            *)
(*   disabled     rules the metadata disables                              *)
(***************************************************************************)
EXTENDS Naturals, Sequences, FiniteSets

PluginFormats == {"Clap", "Vst3", "Au", "Aax"}

-----------------------------------------------------------------------------
(***************************************************************************)
(* package.metadata.wrac: what is missing or malformed, and the names that *)
(* must differ.                                                            *)
(***************************************************************************)

RequiredFields ==
  {"package.name", "package.version", "company_name", "auv2_manufacturer_code", "bundle_name",
   "bundle_identifier", "homepage_url", "manual_url", "support_url", "description", "copyright"}
RequiredOfPlugin ==
  {"plugin_id", "plugin_name", "clap_features", "vst3_subcategories", "vst3_component_id",
   "standalone_name", "auv2_type", "auv2_subtype"}
RequiredByAax ==
  {"aax_manufacturer_id", "aax_categories", "aax_product_id", "aax_stem_configs"}

(* A value is malformed when it is empty, not four ASCII bytes, not a UUID,*)
(* or none of the words the wrapper knows, whichever its field asks for.   *)
(* The manufacturer's id stands with the AAX fields of every plug-in.      *)
IsMetadata(md) ==
  /\ md.malformed \subseteq RequiredFields
  /\ \A i \in DOMAIN md.formats : md.formats[i] \in PluginFormats
  /\ \A i \in DOMAIN md.plugins :
       md.plugins[i].malformed \subseteq RequiredOfPlugin \cup RequiredByAax
  /\ {md.unexplained} \subseteq BOOLEAN   (* a rule disabled, or tests left out, with no reason *)

Differ(xs) == \A i, j \in DOMAIN xs : xs[i] = xs[j] => i = j

FormatsOf(md) == {md.formats[i] : i \in DOMAIN md.formats}

(* AAX stem configurations are compared within a plug-in only, and VST3    *)
(* component ids not at all.                                               *)
PluginAccepted(plugin, aax) ==
  /\ plugin.malformed \cap RequiredOfPlugin = {}
  /\ aax => plugin.malformed = {} /\ plugin.stems # << >> /\ Differ(plugin.stems)

MetadataAccepted(md) ==
  /\ md.malformed = {} /\ ~md.unexplained
  /\ md.formats # << >> /\ Differ(md.formats)
  /\ md.plugins # << >>
  /\ \A i \in DOMAIN md.plugins : PluginAccepted(md.plugins[i], "Aax" \in FormatsOf(md))
  /\ \A name \in {"id", "standalone", "au"} :
       Differ([i \in DOMAIN md.plugins |-> md.plugins[i][name]])

-----------------------------------------------------------------------------
KnownRules == {"single knob", "id is index", "bypass shape", "has bypass", "placeholders"}

(* The host-visible schema of one parameter, from params.get_info.         *)
Parameters ==
  [id : Nat, hidden : BOOLEAN, readonly : BOOLEAN, bypass : BOOLEAN,
   stepped : BOOLEAN, enum : BOOLEAN,
   unit : BOOLEAN,                  (* its range is 0..1                    *)
   boolean : BOOLEAN]               (* its default is 0 or 1                *)

VisibleKnobs(ps) ==
  {i \in DOMAIN ps : ~ps[i].hidden /\ ~ps[i].readonly /\ ~ps[i].bypass}
Bypasses(ps) == {i \in DOMAIN ps : ps[i].bypass}

Violates(rule, ps) ==
  CASE rule = "single knob"  -> Cardinality(VisibleKnobs(ps)) = 1
    [] rule = "id is index"  -> \E i \in DOMAIN ps : ps[i].id # i - 1
    [] rule = "bypass shape" ->
         \/ Cardinality(Bypasses(ps)) > 1
         \/ \E i \in Bypasses(ps) :
              ~(ps[i].stepped /\ ps[i].enum /\ ps[i].unit /\ ps[i].boolean)
    [] rule = "has bypass"   -> Bypasses(ps) = {}

(* Formats a rule is about; the others are reported as skipped.            *)
Applies(rule, ts) ==
  CASE rule = "single knob" -> ts \cap {"Clap", "Vst3"} # {}
    [] rule = "id is index" -> "Vst3" \in ts
    [] OTHER                -> TRUE

\* evaluate_checks: the rules about the schema of each plug-in.
SchemaStatus(rule, plugins, ts) ==
  IF ~Applies(rule, ts) THEN "skipped"
  ELSE IF \E p \in DOMAIN plugins : Violates(rule, plugins[p]) THEN "failed" ELSE "passed"

\* The metadata template_placeholder_violations looks at; <<i, field>> is of
\* the i-th plug-in.  The fields about AAX need not be there.
MetadataFields ==
  {"name", "repository", "company_name", "auv2_manufacturer_code", "aax_manufacturer_id",
   "bundle_identifier", "homepage_url", "manual_url", "support_url", "copyright", "bundle_name"}
PluginFields ==
  {"plugin_id", "plugin_name", "standalone_name", "auv2_subtype", "aax_product_id",
   "aax_stem_configs", "vst3_component_id"}
Leftovers(product) ==
  product.placeholders \cap (MetadataFields \cup ((DOMAIN product.plugins) \X PluginFields))

\* evaluate_source_checks
SourceStatus(product) ==
  IF product.template THEN "skipped"
  ELSE IF Leftovers(product) # {} THEN "failed" ELSE "passed"

\* push_check_result: a disabled rule is reported all the same.
Status(rule, product, ts) ==
  IF rule \in product.disabled THEN "disabled"
  ELSE IF rule = "placeholders" THEN SourceStatus(product)
  ELSE SchemaStatus(rule, product.plugins, ts)

(* validate_wrac_rules: disabling an unknown rule is an error of its own.  *)
RulesPass(product, ts) ==
  /\ product.disabled \subseteq KnownRules
  /\ product.plugins # << >>
  /\ \A rule \in KnownRules : Status(rule, product, ts) # "failed"
=============================================================================
