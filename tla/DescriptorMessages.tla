------------------------- MODULE DescriptorMessages -------------------------
(***************************************************************************)
(* The messages that describe protocol buffers (descriptor.ts), field by   *)
(* field as in QueryMessages, and their enumerations: the numbers that     *)
(* fromJSON and toJSON recognise.                                          *)
(***************************************************************************)
EXTENDS ProtoFields

Edition == {0, 900, 998, 999, 1000, 1001, 1, 2, 99997, 99998, 99999, 2147483647}
SymbolVisibility == {0, 1, 2}
ExtensionRangeOptions_VerificationState == {0, 1}
FieldDescriptorProto_Type ==
  {1, 2, 3, 4, 5, 6, 7, 8, 9, 10, 11, 12, 13, 14, 15, 16, 17, 18}

FieldDescriptorProto_Label == {1, 3, 2}
FileOptions_OptimizeMode == {1, 2, 3}
FieldOptions_CType == {0, 1, 2}
FieldOptions_JSType == {0, 1, 2}
FieldOptions_OptionRetention == {0, 1, 2}
FieldOptions_OptionTargetType == {0, 1, 2, 3, 4, 5, 6, 7, 8, 9}
MethodOptions_IdempotencyLevel == {0, 1, 2}
FeatureSet_FieldPresence == {0, 1, 2, 3}
FeatureSet_EnumType == {0, 1, 2}
FeatureSet_RepeatedFieldEncoding == {0, 1, 2}
FeatureSet_Utf8Validation == {0, 2, 3}
FeatureSet_MessageEncoding == {0, 1, 2}
FeatureSet_JsonFormat == {0, 1, 2}
FeatureSet_EnforceNamingStyle == {0, 1, 2}
FeatureSet_VisibilityFeature_DefaultSymbolVisibility == {0, 1, 2, 3, 4}
GeneratedCodeInfo_Annotation_Semantic == {0, 1, 2}

FileDescriptorSet ==
  <<Msgs("file", 1, "FileDescriptorProto")>>

FileDescriptorProto ==
  <<Str("name", 1), Str("package", 2), Strs("dependency", 3),
    Nums("publicDependency", 10), Nums("weakDependency", 11),
    Strs("optionDependency", 15), Msgs("messageType", 4, "DescriptorProto"),
    Msgs("enumType", 5, "EnumDescriptorProto"),
    Msgs("service", 6, "ServiceDescriptorProto"),
    Msgs("extension", 7, "FieldDescriptorProto"),
    Msg("options", 8, "FileOptions"),
    Msg("sourceCodeInfo", 9, "SourceCodeInfo"), Str("syntax", 12),
    Enum("edition", 14, Edition, 0)>>

DescriptorProto ==
  <<Str("name", 1), Msgs("field", 2, "FieldDescriptorProto"),
    Msgs("extension", 6, "FieldDescriptorProto"),
    Msgs("nestedType", 3, "DescriptorProto"),
    Msgs("enumType", 4, "EnumDescriptorProto"),
    Msgs("extensionRange", 5, "DescriptorProto_ExtensionRange"),
    Msgs("oneofDecl", 8, "OneofDescriptorProto"),
    Msg("options", 7, "MessageOptions"),
    Msgs("reservedRange", 9, "DescriptorProto_ReservedRange"),
    Strs("reservedName", 10), Enum("visibility", 11, SymbolVisibility, 0)>>

DescriptorProto_ExtensionRange ==
  <<Num("start", 1), Num("end", 2), Msg("options", 3, "ExtensionRangeOptions")>>

DescriptorProto_ReservedRange ==
  <<Num("start", 1), Num("end", 2)>>

ExtensionRangeOptions ==
  <<Msgs("uninterpretedOption", 999, "UninterpretedOption"),
    Msgs("declaration", 2, "ExtensionRangeOptions_Declaration"),
    Msg("features", 50, "FeatureSet"),
    Enum("verification", 3, ExtensionRangeOptions_VerificationState, 1)>>

ExtensionRangeOptions_Declaration ==
  <<Num("number", 1), Str("fullName", 2), Str("type", 3),
    Bool("reserved", 5, FALSE), Bool("repeated", 6, FALSE)>>

FieldDescriptorProto ==
  <<Str("name", 1), Num("number", 3),
    Enum("label", 4, FieldDescriptorProto_Label, 1),
    Enum("type", 5, FieldDescriptorProto_Type, 1), Str("typeName", 6),
    Str("extendee", 2), Str("defaultValue", 7), Num("oneofIndex", 9),
    Str("jsonName", 10), Msg("options", 8, "FieldOptions"),
    Bool("proto3Optional", 17, FALSE)>>

OneofDescriptorProto ==
  <<Str("name", 1), Msg("options", 2, "OneofOptions")>>

EnumDescriptorProto ==
  <<Str("name", 1), Msgs("value", 2, "EnumValueDescriptorProto"),
    Msg("options", 3, "EnumOptions"),
    Msgs("reservedRange", 4, "EnumDescriptorProto_EnumReservedRange"),
    Strs("reservedName", 5), Enum("visibility", 6, SymbolVisibility, 0)>>

EnumDescriptorProto_EnumReservedRange ==
  <<Num("start", 1), Num("end", 2)>>

EnumValueDescriptorProto ==
  <<Str("name", 1), Num("number", 2), Msg("options", 3, "EnumValueOptions")>>

ServiceDescriptorProto ==
  <<Str("name", 1), Msgs("method", 2, "MethodDescriptorProto"),
    Msg("options", 3, "ServiceOptions")>>

MethodDescriptorProto ==
  <<Str("name", 1), Str("inputType", 2), Str("outputType", 3),
    Msg("options", 4, "MethodOptions"), Bool("clientStreaming", 5, FALSE),
    Bool("serverStreaming", 6, FALSE)>>

FileOptions ==
  <<Str("javaPackage", 1), Str("javaOuterClassname", 8),
    Bool("javaMultipleFiles", 10, FALSE),
    Bool("javaGenerateEqualsAndHash", 20, FALSE),
    Bool("javaStringCheckUtf8", 27, FALSE),
    Enum("optimizeFor", 9, FileOptions_OptimizeMode, 1),
    Str("goPackage", 11), Bool("ccGenericServices", 16, FALSE),
    Bool("javaGenericServices", 17, FALSE),
    Bool("pyGenericServices", 18, FALSE), Bool("deprecated", 23, FALSE),
    Bool("ccEnableArenas", 31, TRUE), Str("objcClassPrefix", 36),
    Str("csharpNamespace", 37), Str("swiftPrefix", 39),
    Str("phpClassPrefix", 40), Str("phpNamespace", 41),
    Str("phpMetadataNamespace", 44), Str("rubyPackage", 45),
    Msg("features", 50, "FeatureSet"),
    Msgs("uninterpretedOption", 999, "UninterpretedOption")>>

MessageOptions ==
  <<Bool("messageSetWireFormat", 1, FALSE),
    Bool("noStandardDescriptorAccessor", 2, FALSE),
    Bool("deprecated", 3, FALSE), Bool("mapEntry", 7, FALSE),
    Bool("deprecatedLegacyJsonFieldConflicts", 11, FALSE),
    Msg("features", 12, "FeatureSet"),
    Msgs("uninterpretedOption", 999, "UninterpretedOption")>>

FieldOptions ==
  <<Enum("ctype", 1, FieldOptions_CType, 0), Bool("packed", 2, FALSE),
    Enum("jstype", 6, FieldOptions_JSType, 0), Bool("lazy", 5, FALSE),
    Bool("unverifiedLazy", 15, FALSE), Bool("deprecated", 3, FALSE),
    Bool("weak", 10, FALSE), Bool("debugRedact", 16, FALSE),
    Enum("retention", 17, FieldOptions_OptionRetention, 0),
    Enums("targets", 19, FieldOptions_OptionTargetType),
    Msgs("editionDefaults", 20, "FieldOptions_EditionDefault"),
    Msg("features", 21, "FeatureSet"),
    Msg("featureSupport", 22, "FieldOptions_FeatureSupport"),
    Msgs("uninterpretedOption", 999, "UninterpretedOption")>>

FieldOptions_EditionDefault ==
  <<Enum("edition", 3, Edition, 0), Str("value", 2)>>

FieldOptions_FeatureSupport ==
  <<Enum("editionIntroduced", 1, Edition, 0),
    Enum("editionDeprecated", 2, Edition, 0), Str("deprecationWarning", 3),
    Enum("editionRemoved", 4, Edition, 0)>>

OneofOptions ==
  <<Msg("features", 1, "FeatureSet"),
    Msgs("uninterpretedOption", 999, "UninterpretedOption")>>

EnumOptions ==
  <<Bool("allowAlias", 2, FALSE), Bool("deprecated", 3, FALSE),
    Bool("deprecatedLegacyJsonFieldConflicts", 6, FALSE),
    Msg("features", 7, "FeatureSet"),
    Msgs("uninterpretedOption", 999, "UninterpretedOption")>>

EnumValueOptions ==
  <<Bool("deprecated", 1, FALSE), Msg("features", 2, "FeatureSet"),
    Bool("debugRedact", 3, FALSE),
    Msg("featureSupport", 4, "FieldOptions_FeatureSupport"),
    Msgs("uninterpretedOption", 999, "UninterpretedOption")>>

ServiceOptions ==
  <<Msg("features", 34, "FeatureSet"), Bool("deprecated", 33, FALSE),
    Msgs("uninterpretedOption", 999, "UninterpretedOption")>>

MethodOptions ==
  <<Bool("deprecated", 33, FALSE),
    Enum("idempotencyLevel", 34, MethodOptions_IdempotencyLevel, 0),
    Msg("features", 35, "FeatureSet"),
    Msgs("uninterpretedOption", 999, "UninterpretedOption")>>

UninterpretedOption ==
  <<Msgs("name", 2, "UninterpretedOption_NamePart"),
    Str("identifierValue", 3), Long("positiveIntValue", 4),
    Long("negativeIntValue", 5), Double("doubleValue", 6),
    Bytes("stringValue", 7), Str("aggregateValue", 8)>>

UninterpretedOption_NamePart ==
  <<Str("namePart", 1), Bool("isExtension", 2, FALSE)>>

FeatureSet ==
  <<Enum("fieldPresence", 1, FeatureSet_FieldPresence, 0),
    Enum("enumType", 2, FeatureSet_EnumType, 0),
    Enum("repeatedFieldEncoding", 3, FeatureSet_RepeatedFieldEncoding, 0),
    Enum("utf8Validation", 4, FeatureSet_Utf8Validation, 0),
    Enum("messageEncoding", 5, FeatureSet_MessageEncoding, 0),
    Enum("jsonFormat", 6, FeatureSet_JsonFormat, 0),
    Enum("enforceNamingStyle", 7, FeatureSet_EnforceNamingStyle, 0),
    Enum("defaultSymbolVisibility", 8, FeatureSet_VisibilityFeature_DefaultSymbolVisibility, 0)>>

FeatureSet_VisibilityFeature ==
  <<>>

FeatureSetDefaults ==
  <<Msgs("defaults", 1, "FeatureSetDefaults_FeatureSetEditionDefault"),
    Enum("minimumEdition", 4, Edition, 0),
    Enum("maximumEdition", 5, Edition, 0)>>

FeatureSetDefaults_FeatureSetEditionDefault ==
  <<Enum("edition", 3, Edition, 0),
    Msg("overridableFeatures", 4, "FeatureSet"),
    Msg("fixedFeatures", 5, "FeatureSet")>>

SourceCodeInfo ==
  <<Msgs("location", 1, "SourceCodeInfo_Location")>>

SourceCodeInfo_Location ==
  <<Nums("path", 1), Nums("span", 2), Str("leadingComments", 3),
    Str("trailingComments", 4), Strs("leadingDetachedComments", 6)>>

GeneratedCodeInfo ==
  <<Msgs("annotation", 1, "GeneratedCodeInfo_Annotation")>>

GeneratedCodeInfo_Annotation ==
  <<Nums("path", 1), Str("sourceFile", 2), Num("begin", 3), Num("end", 4),
    Enum("semantic", 5, GeneratedCodeInfo_Annotation_Semantic, 0)>>

(* The messages by name. *)
DescriptorSchema ==
  [FileDescriptorSet |-> FileDescriptorSet,
   FileDescriptorProto |-> FileDescriptorProto,
   DescriptorProto |-> DescriptorProto,
   DescriptorProto_ExtensionRange |-> DescriptorProto_ExtensionRange,
   DescriptorProto_ReservedRange |-> DescriptorProto_ReservedRange,
   ExtensionRangeOptions |-> ExtensionRangeOptions,
   ExtensionRangeOptions_Declaration |-> ExtensionRangeOptions_Declaration,
   FieldDescriptorProto |-> FieldDescriptorProto,
   OneofDescriptorProto |-> OneofDescriptorProto,
   EnumDescriptorProto |-> EnumDescriptorProto,
   EnumDescriptorProto_EnumReservedRange |-> EnumDescriptorProto_EnumReservedRange,
   EnumValueDescriptorProto |-> EnumValueDescriptorProto,
   ServiceDescriptorProto |-> ServiceDescriptorProto,
   MethodDescriptorProto |-> MethodDescriptorProto,
   FileOptions |-> FileOptions, MessageOptions |-> MessageOptions,
   FieldOptions |-> FieldOptions,
   FieldOptions_EditionDefault |-> FieldOptions_EditionDefault,
   FieldOptions_FeatureSupport |-> FieldOptions_FeatureSupport,
   OneofOptions |-> OneofOptions, EnumOptions |-> EnumOptions,
   EnumValueOptions |-> EnumValueOptions, ServiceOptions |-> ServiceOptions,
   MethodOptions |-> MethodOptions,
   UninterpretedOption |-> UninterpretedOption,
   UninterpretedOption_NamePart |-> UninterpretedOption_NamePart,
   FeatureSet |-> FeatureSet,
   FeatureSet_VisibilityFeature |-> FeatureSet_VisibilityFeature,
   FeatureSetDefaults |-> FeatureSetDefaults,
   FeatureSetDefaults_FeatureSetEditionDefault |-> FeatureSetDefaults_FeatureSetEditionDefault,
   SourceCodeInfo |-> SourceCodeInfo,
   SourceCodeInfo_Location |-> SourceCodeInfo_Location,
   GeneratedCodeInfo |-> GeneratedCodeInfo,
   GeneratedCodeInfo_Annotation |-> GeneratedCodeInfo_Annotation]
=============================================================================
