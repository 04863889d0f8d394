--------------------------- MODULE SchemaV1alpha2 ---------------------------
(***************************************************************************)
(* The v1alpha2 API types and their conversion from and to the internal    *)
(* version (pkg/convert/internal/apis/{certmanager,acme}/v1alpha2).        *)
(* Paths name the Go fields. PKCS12Keystore.Password has no json tag here  *)
(* (types_certificate.go:410), so that its name in a document is Password, *)
(* and not password as in v1; this is not modelled.                        *)
(***************************************************************************)
EXTENDS Layouts

CertificateTypes ==
       "Certificate" :> <<F("ObjectMeta"), S("Spec", "CertificateSpec"),
            S("Status", "CertificateStatus")>>
    @@ "CertificateList" :> <<F("ListMeta"), S("Items", "Certificate")>>

CertificateSpecTypes ==
       "CertificateSpec" :> <<S("Subject", "X509Subject"), F("LiteralSubject"), F("CommonName"),
            F("Organization"), F("Duration"), F("RenewBefore"), F("RenewBeforePercentage"),
            S("Renewal", "CertificateRenewal"), F("DNSNames"), F("IPAddresses"), F("URISANs"),
            F("EmailSANs"), S("OtherNames", "OtherName"), F("SecretName"),
            S("SecretTemplate", "CertificateSecretTemplate"),
            S("Keystores", "CertificateKeystores"), S("IssuerRef", "IssuerReference"), F("IsCA"),
            F("Usages"), F("KeySize"), F("KeyAlgorithm"), F("KeyEncoding"),
            S("PrivateKey", "CertificatePrivateKey"), F("EncodeUsagesInRequest"),
            F("RevisionHistoryLimit"),
            S("AdditionalOutputFormats", "CertificateAdditionalOutputFormat"), E("NameConstraints"),
            F("SignatureAlgorithm")>>

OtherNameTypes ==
       "OtherName" :> <<F("OID"), F("UTF8Value")>>
    @@ "CertificatePrivateKey" :> <<F("RotationPolicy")>>

X509SubjectTypes ==
       "X509Subject" :> <<F("Countries"), F("OrganizationalUnits"), F("Localities"), F("Provinces"),
            F("StreetAddresses"), F("PostalCodes"), F("SerialNumber")>>
    @@ "CertificateKeystores" :> <<S("JKS", "JKSKeystore"), S("PKCS12", "PKCS12Keystore")>>
    @@ "JKSKeystore" :> <<F("Create"), S("PasswordSecretRef", "SecretKeySelector"), F("Password"),
            F("Alias")>>
    @@ "PKCS12Keystore" :> <<F("Create"), S("PasswordSecretRef", "SecretKeySelector"),
            F("Password"), F("Profile")>>

CertificateRenewalTypes ==
       "CertificateRenewal" :> <<F("Policy"), S("Windows", "CertificateRenewalWindows")>>
    @@ "CertificateRenewalWindows" :> <<F("Timezone"), F("WindowDuration"), F("Cron")>>
    @@ "CertificateStatus" :> <<S("Conditions", "CertificateCondition"), F("LastFailureTime"),
            F("NotBefore"), F("NotAfter"), F("RenewalTime"), F("Revision"),
            F("NextPrivateKeySecretName"), F("FailedIssuanceAttempts"),
            S("ACME", "CertificateACMEStatus")>>
    @@ "CertificateCondition" :> <<F("Type"), F("Status"), F("LastTransitionTime"), F("Reason"),
            F("Message"), F("ObservedGeneration")>>

\* Variant: two fields of a struct that is cast are declared in another order.
SecretTemplateReordered ==
       "CertificateSecretTemplate" :> <<F("Labels"), F("Annotations")>>

CertificateSecretTemplateTypes ==
       "CertificateSecretTemplate" :> <<F("Annotations"), F("Labels")>>

CertificateAdditionalOutputFormatTypes ==
       "CertificateAdditionalOutputFormat" :> <<F("Type")>>
    @@ "NameConstraints" :> <<F("Critical"), S("Permitted", "NameConstraintItem"),
            S("Excluded", "NameConstraintItem")>>
    @@ "NameConstraintItem" :> <<F("DNSDomains"), F("IPRanges"), F("EmailAddresses"),
            F("URIDomains")>>
    @@ "CertificateACMEStatus" :> <<S("ARI", "CertificateACMEARIStatus")>>
    @@ "CertificateACMEARIStatus" :> <<S("SuggestedWindow", "ACMERenewalWindow"),
            F("ExplanationURL"), F("LastChecked"), F("NextCheck"), F("LastError")>>
    @@ "ACMERenewalWindow" :> <<F("Start"), F("End")>>

CertificateRequestTypes ==
       "CertificateRequest" :> <<F("ObjectMeta"), S("Spec", "CertificateRequestSpec"),
            S("Status", "CertificateRequestStatus")>>
    @@ "CertificateRequestList" :> <<F("ListMeta"), S("Items", "CertificateRequest")>>
    @@ "CertificateRequestSpec" :> <<F("Duration"), S("IssuerRef", "IssuerReference"), F("CSRPEM"),
            F("IsCA"), F("Usages"), F("Username"), F("UID"), F("Groups"), F("Extra")>>
    @@ "CertificateRequestStatus" :> <<S("Conditions", "CertificateRequestCondition"),
            F("Certificate"), F("CA"), F("FailureTime")>>
    @@ "CertificateRequestCondition" :> <<F("Type"), F("Status"), F("LastTransitionTime"),
            F("Reason"), F("Message")>>

ClusterIssuerTypes ==
       "ClusterIssuer" :> <<F("ObjectMeta"), S("Spec", "IssuerSpec"), S("Status", "IssuerStatus")>>
    @@ "ClusterIssuerList" :> <<F("ListMeta"), S("Items", "ClusterIssuer")>>
    @@ "Issuer" :> <<F("ObjectMeta"), S("Spec", "IssuerSpec"), S("Status", "IssuerStatus")>>
    @@ "IssuerList" :> <<F("ListMeta"), S("Items", "Issuer")>>
    @@ "IssuerSpec" :> <<S("IssuerConfig", "IssuerConfig")>>
    @@ "IssuerConfig" :> <<S("ACME", "ACMEIssuer"), S("CA", "CAIssuer"), S("Vault", "VaultIssuer"),
            S("SelfSigned", "SelfSignedIssuer"), S("Venafi", "VenafiIssuer")>>
    @@ "VenafiIssuer" :> <<F("Zone"), S("TPP", "VenafiTPP"), S("Cloud", "VenafiCloud"),
            S("NGTS", "VenafiNGTS")>>
    @@ "VenafiNGTS" :> <<F("URL"), F("TokenEndpoint"), F("TSGID"),
            S("CredentialsRef", "LocalObjectReference")>>

VenafiTPPTypes ==
       "VenafiTPP" :> <<F("URL"), S("CredentialsRef", "LocalObjectReference"), F("CABundle"),
            S("CABundleSecretRef", "SecretKeySelector")>>
    @@ "VenafiCloud" :> <<F("URL"), S("APITokenSecretRef", "SecretKeySelector")>>
    @@ "SelfSignedIssuer" :> <<F("CRLDistributionPoints")>>
    @@ "VaultIssuer" :> <<S("Auth", "VaultAuth"), F("Server"), F("ServerName"), F("Path"),
            F("Namespace"), F("CABundle"), S("CABundleSecretRef", "SecretKeySelector"),
            S("ClientCertSecretRef", "SecretKeySelector"),
            S("ClientKeySecretRef", "SecretKeySelector")>>
    @@ "VaultAuth" :> <<S("TokenSecretRef", "SecretKeySelector"), S("AppRole", "VaultAppRole"),
            S("ClientCertificate", "VaultClientCertificateAuth"),
            S("Kubernetes", "VaultKubernetesAuth"), S("AWS", "VaultAWSAuth")>>
    @@ "VaultAppRole" :> <<F("Path"), F("RoleId"), S("SecretRef", "SecretKeySelector")>>

VaultClientCertificateAuthTypes ==
       "VaultClientCertificateAuth" :> <<F("Path"), F("SecretName"), F("Name")>>
    @@ "VaultKubernetesAuth" :> <<F("Path"), S("SecretRef", "SecretKeySelector"),
            E("ServiceAccountRef"), F("Role")>>
    @@ "ServiceAccountRef" :> <<F("Name"), F("TokenAudiences")>>
    @@ "VaultAWSAuth" :> <<F("MountPath"), F("Role"), F("Region"), E("ServiceAccountRef"),
            F("IAMRoleARN"), F("VaultHeaderValue")>>
    @@ "CAIssuer" :> <<F("SecretName"), F("CRLDistributionPoints"), F("OCSPServers"),
            F("IssuingCertificateURLs")>>
    @@ "IssuerStatus" :> <<S("Conditions", "IssuerCondition"), S("ACME", "ACMEIssuerStatus")>>

IssuerConditionTypes ==
       "IssuerCondition" :> <<F("Type"), F("Status"), F("LastTransitionTime"), F("Reason"),
            F("Message"), F("ObservedGeneration")>>

ChallengeTypes ==
       "Challenge" :> <<F("ObjectMeta"), S("Spec", "ChallengeSpec"),
            S("Status", "ChallengeStatus")>>
    @@ "ChallengeList" :> <<F("ListMeta"), S("Items", "Challenge")>>
    @@ "ChallengeSpec" :> <<F("URL"), F("AuthzURL"), F("DNSName"), F("Wildcard"), F("Type"),
            F("Token"), F("Key"), S("Solver", "ACMEChallengeSolver"),
            S("IssuerRef", "IssuerReference")>>

ChallengeStatusTypes ==
       "ChallengeStatus" :> <<F("Processing"), F("Presented"), F("PresentedAt"), F("Reason"),
            F("State")>>

ACMEIssuerTypes ==
       "ACMEIssuer" :> <<F("Email"), F("Server"), F("PreferredChain"), F("CABundle"),
            F("SkipTLSVerify"), S("ExternalAccountBinding", "ACMEExternalAccountBinding"),
            S("PrivateKey", "SecretKeySelector"), S("Solvers", "ACMEChallengeSolver"),
            F("DisableAccountKeyGeneration"), F("EnableDurationFeature"), F("Profile")>>
    @@ "ACMEExternalAccountBinding" :> <<F("KeyID"), S("Key", "SecretKeySelector"),
            F("KeyAlgorithm")>>

ACMEChallengeSolverTypes ==
       "ACMEChallengeSolver" :> <<S("Selector", "CertificateDNSNameSelector"),
            S("HTTP01", "ACMEChallengeSolverHTTP01"), S("DNS01", "ACMEChallengeSolverDNS01"),
            F("WaitInsteadOfSelfCheck")>>
    @@ "CertificateDNSNameSelector" :> <<F("MatchLabels"), F("DNSNames"), F("DNSZones")>>
    @@ "ACMEChallengeSolverHTTP01" :> <<S("Ingress", "ACMEChallengeSolverHTTP01Ingress"),
            S("GatewayHTTPRoute", "ACMEChallengeSolverHTTP01GatewayHTTPRoute")>>
    @@ "ACMEChallengeSolverHTTP01Ingress" :> <<F("ServiceType"), F("IngressClassName"), F("Class"),
            F("Name"), S("PodTemplate", "ACMEChallengeSolverHTTP01IngressPodTemplate"),
            S("IngressTemplate", "ACMEChallengeSolverHTTP01IngressTemplate")>>

ACMEChallengeSolverHTTP01GatewayHTTPRouteTypes ==
       "ACMEChallengeSolverHTTP01GatewayHTTPRoute" :> <<F("ServiceType"), F("Labels"),
            F("ParentRefs"), S("PodTemplate", "ACMEChallengeSolverHTTP01IngressPodTemplate")>>
    @@ "ACMEChallengeSolverHTTP01IngressPodTemplate" :>
            <<E("ACMEChallengeSolverHTTP01IngressPodObjectMeta"),
            S("Spec", "ACMEChallengeSolverHTTP01IngressPodSpec")>>
    @@ "ACMEChallengeSolverHTTP01IngressPodObjectMeta" :> <<F("Annotations"), F("Labels")>>
    @@ "ACMEChallengeSolverHTTP01IngressPodSpec" :> <<F("NodeSelector"), F("Affinity"),
            F("Tolerations"), F("PriorityClassName"), F("ServiceAccountName"),
            S("ImagePullSecrets", "LocalObjectReference"),
            S("SecurityContext", "ACMEChallengeSolverHTTP01IngressPodSecurityContext"),
            S("Resources", "ACMEChallengeSolverHTTP01IngressPodResources")>>
    @@ "ACMEChallengeSolverHTTP01IngressTemplate" :>
            <<E("ACMEChallengeSolverHTTP01IngressObjectMeta")>>
    @@ "ACMEChallengeSolverHTTP01IngressObjectMeta" :> <<F("Annotations"), F("Labels")>>

ACMEChallengeSolverDNS01Types ==
       "ACMEChallengeSolverDNS01" :> <<F("CNAMEStrategy"),
            S("Akamai", "ACMEIssuerDNS01ProviderAkamai"),
            S("CloudDNS", "ACMEIssuerDNS01ProviderCloudDNS"),
            S("Cloudflare", "ACMEIssuerDNS01ProviderCloudflare"),
            S("Route53", "ACMEIssuerDNS01ProviderRoute53"),
            S("AzureDNS", "ACMEIssuerDNS01ProviderAzureDNS"),
            S("DigitalOcean", "ACMEIssuerDNS01ProviderDigitalOcean"),
            S("AcmeDNS", "ACMEIssuerDNS01ProviderAcmeDNS"),
            S("RFC2136", "ACMEIssuerDNS01ProviderRFC2136"),
            S("Webhook", "ACMEIssuerDNS01ProviderWebhook")>>
    @@ "ACMEChallengeSolverHTTP01IngressPodSecurityContext" :> <<F("SELinuxOptions"),
            F("RunAsUser"), F("RunAsGroup"), F("RunAsNonRoot"), F("SupplementalGroups"),
            F("FSGroup"), F("Sysctls"), F("FSGroupChangePolicy"), F("SeccompProfile")>>
    @@ "ACMEChallengeSolverHTTP01IngressPodResources" :> <<F("Limits"), F("Requests")>>

ACMEIssuerDNS01ProviderAkamaiTypes ==
       "ACMEIssuerDNS01ProviderAkamai" :> <<F("ServiceConsumerDomain"),
            S("ClientToken", "SecretKeySelector"), S("ClientSecret", "SecretKeySelector"),
            S("AccessToken", "SecretKeySelector")>>
    @@ "ACMEIssuerDNS01ProviderCloudDNS" :> <<S("ServiceAccount", "SecretKeySelector"),
            F("Project"), F("HostedZoneName")>>
    @@ "ACMEIssuerDNS01ProviderCloudflare" :> <<F("Email"), S("APIKey", "SecretKeySelector"),
            S("APIToken", "SecretKeySelector")>>
    @@ "ACMEIssuerDNS01ProviderDigitalOcean" :> <<S("Token", "SecretKeySelector")>>
    @@ "ACMEIssuerDNS01ProviderRoute53" :> <<S("Auth", "Route53Auth"), F("AccessKeyID"),
            S("SecretAccessKeyID", "SecretKeySelector"), S("SecretAccessKey", "SecretKeySelector"),
            F("Role"), F("HostedZoneID"), F("Region")>>
    @@ "Route53Auth" :> <<S("Kubernetes", "Route53KubernetesAuth")>>
    @@ "Route53KubernetesAuth" :> <<E("ServiceAccountRef")>>
    @@ "ServiceAccountRef" :> <<F("Name"), F("TokenAudiences")>>

ACMEIssuerDNS01ProviderAzureDNSTypes ==
       "ACMEIssuerDNS01ProviderAzureDNS" :> <<F("ClientID"), S("ClientSecret", "SecretKeySelector"),
            F("SubscriptionID"), F("TenantID"), F("ResourceGroupName"), F("HostedZoneName"),
            F("Environment"), S("ManagedIdentity", "AzureManagedIdentity"), F("ZoneType")>>
    @@ "AzureManagedIdentity" :> <<F("ClientID"), F("ResourceID"), F("TenantID")>>
    @@ "ACMEIssuerDNS01ProviderAcmeDNS" :> <<F("Host"), S("AccountSecret", "SecretKeySelector")>>
    @@ "ACMEIssuerDNS01ProviderRFC2136" :> <<F("Nameserver"), S("TSIGSecret", "SecretKeySelector"),
            F("TSIGKeyName"), F("TSIGAlgorithm"), F("Protocol")>>
    @@ "ACMEIssuerDNS01ProviderWebhook" :> <<F("GroupName"), F("SolverName"), F("Config")>>

ACMEIssuerStatusTypes ==
       "ACMEIssuerStatus" :> <<F("URI"), F("LastRegisteredEmail"), F("LastPrivateKeyHash")>>

OrderTypes ==
       "Order" :> <<F("ObjectMeta"), S("Spec", "OrderSpec"), S("Status", "OrderStatus")>>
    @@ "OrderList" :> <<F("ListMeta"), S("Items", "Order")>>
    @@ "OrderSpec" :> <<F("CSR"), S("IssuerRef", "IssuerReference"), F("CommonName"), F("DNSNames"),
            F("IPAddresses"), F("Duration"), F("Profile"), F("Replaces")>>
    @@ "OrderStatus" :> <<F("URL"), F("FinalizeURL"), S("Authorizations", "ACMEAuthorization"),
            F("Certificate"), F("State"), F("Reason"), F("FailureTime")>>

ACMEAuthorizationTypes ==
       "ACMEAuthorization" :> <<F("URL"), F("Identifier"), F("Wildcard"), F("InitialState"),
            S("Challenges", "ACMEChallenge")>>
    @@ "ACMEChallenge" :> <<F("URL"), F("Token"), F("Type")>>

\* The layout of every struct.
Types ==
    CertificateTypes @@ CertificateSpecTypes @@ OtherNameTypes @@ X509SubjectTypes @@
    CertificateRenewalTypes @@ CertificateSecretTemplateTypes @@
    CertificateAdditionalOutputFormatTypes @@ CertificateRequestTypes @@ ClusterIssuerTypes @@
    VenafiTPPTypes @@ VaultClientCertificateAuthTypes @@ IssuerConditionTypes @@ ChallengeTypes
    @@ ChallengeStatusTypes @@ ACMEIssuerTypes @@ ACMEChallengeSolverTypes @@
    ACMEChallengeSolverHTTP01GatewayHTTPRouteTypes @@ ACMEChallengeSolverDNS01Types @@
    ACMEIssuerDNS01ProviderAkamaiTypes @@ ACMEIssuerDNS01ProviderAzureDNSTypes @@
    ACMEIssuerStatusTypes @@ OrderTypes @@ ACMEAuthorizationTypes

-----------------------------------------------------------------------------
ACMERenewalWindowMoves ==
       "ACMERenewalWindow" :> Moves({}, {"Start", "End"}, {})
    @@ "CAIssuer" :> Moves({"SecretName"}, {"CRLDistributionPoints", "OCSPServers",
            "IssuingCertificateURLs"}, {})
    @@ "Certificate" :> Moves({"ObjectMeta"}, {}, {"Spec", "Status"})
    @@ "CertificateACMEARIStatus" :> Moves({"ExplanationURL", "LastError"}, {"SuggestedWindow",
            "LastChecked", "NextCheck"}, {})
    @@ "CertificateACMEStatus" :> Moves({}, {"ARI"}, {})
    @@ "CertificateAdditionalOutputFormat" :> Moves({"Type"}, {}, {})

CertificateConditionMoves ==
       "CertificateCondition" :> Moves({"Type", "Status", "Reason", "Message",
            "ObservedGeneration"}, {"LastTransitionTime"}, {})
    @@ "CertificateKeystores" :> Moves({}, {}, {"JKS", "PKCS12"})
    @@ "CertificateList" :> Moves({"ListMeta"}, {}, {"Items"})
    @@ "CertificatePrivateKey" :> Moves({"RotationPolicy"}, {}, {})

CertificateRenewalMoves ==
       "CertificateRenewal" :> Moves({"Policy"}, {"Windows"}, {})
    @@ "CertificateRenewalWindows" :> Moves({"Timezone", "Cron"}, {"WindowDuration"}, {})
    @@ "CertificateRequest" :> Moves({"ObjectMeta"}, {}, {"Spec", "Status"})
    @@ "CertificateRequestCondition" :> Moves({"Type", "Status", "Reason", "Message"},
            {"LastTransitionTime"}, {})
    @@ "CertificateRequestList" :> Moves({"ListMeta"}, {}, {"Items"})

CertificateRequestSpecMoves ==
       "CertificateRequestSpec" :> Moves({"IsCA", "Username", "UID"}, {"Duration", "Usages",
            "Groups", "Extra"}, {"IssuerRef"})
    @@ "CertificateRequestStatus" :> Moves({}, {"Conditions", "Certificate", "CA", "FailureTime"},
            {})
    @@ "CertificateSecretTemplate" :> Moves({}, {"Annotations", "Labels"}, {})

CertificateSpecMoves ==
       "CertificateSpec" :> Moves({"LiteralSubject", "CommonName", "SecretName", "IsCA",
            "SignatureAlgorithm"}, {"Duration", "RenewBefore", "RenewBeforePercentage", "Renewal",
            "DNSNames", "IPAddresses", "OtherNames", "SecretTemplate", "Usages",
            "EncodeUsagesInRequest", "RevisionHistoryLimit", "AdditionalOutputFormats",
            "NameConstraints"}, {"Subject", "Keystores", "IssuerRef", "PrivateKey"})
    @@ "CertificateStatus" :> Moves({}, {"Conditions", "LastFailureTime", "NotBefore", "NotAfter",
            "RenewalTime", "Revision", "NextPrivateKeySecretName", "FailedIssuanceAttempts",
            "ACME"}, {})

ClusterIssuerMoves ==
       "ClusterIssuer" :> Moves({"ObjectMeta"}, {}, {"Spec", "Status"})
    @@ "ClusterIssuerList" :> Moves({"ListMeta"}, {}, {"Items"})
    @@ "Issuer" :> Moves({"ObjectMeta"}, {}, {"Spec", "Status"})
    @@ "IssuerCondition" :> Moves({"Type", "Status", "Reason", "Message", "ObservedGeneration"},
            {"LastTransitionTime"}, {})

IssuerConfigMoves ==
       "IssuerConfig" :> Moves({}, {"CA", "SelfSigned"}, {"ACME", "Vault", "Venafi"})
    @@ "IssuerList" :> Moves({"ListMeta"}, {}, {"Items"})
    @@ "IssuerSpec" :> Moves({}, {}, {"IssuerConfig"})

IssuerStatusMoves ==
       "IssuerStatus" :> Moves({}, {"Conditions", "ACME"}, {})
    @@ "JKSKeystore" :> Moves({"Create"}, {"Password", "Alias"}, {"PasswordSecretRef"})
    @@ "NameConstraintItem" :> Moves({}, {"DNSDomains", "IPRanges", "EmailAddresses", "URIDomains"},
            {})
    @@ "NameConstraints" :> Moves({"Critical"}, {"Permitted", "Excluded"}, {})
    @@ "OtherName" :> Moves({"OID", "UTF8Value"}, {}, {})

PKCS12KeystoreMoves ==
       "PKCS12Keystore" :> Moves({"Create", "Profile"}, {"Password"}, {"PasswordSecretRef"})
    @@ "SelfSignedIssuer" :> Moves({}, {"CRLDistributionPoints"}, {})
    @@ "ServiceAccountRef" :> Moves({"Name"}, {"TokenAudiences"}, {})
    @@ "VaultAWSAuth" :> Moves({"MountPath", "Role", "Region", "IAMRoleARN", "VaultHeaderValue"},
            {"ServiceAccountRef"}, {})
    @@ "VaultAppRole" :> Moves({"Path", "RoleId"}, {}, {"SecretRef"})

VaultAuthMoves ==
       "VaultAuth" :> Moves({}, {"ClientCertificate", "AWS"}, {"TokenSecretRef", "AppRole",
            "Kubernetes"})
    @@ "VaultClientCertificateAuth" :> Moves({"Path", "SecretName", "Name"}, {}, {})

VaultIssuerMoves ==
       "VaultIssuer" :> Moves({"Server", "ServerName", "Path", "Namespace"}, {"CABundle"}, {"Auth",
            "CABundleSecretRef", "ClientCertSecretRef", "ClientKeySecretRef"})
    @@ "VaultKubernetesAuth" :> Moves({"Path", "Role"}, {"ServiceAccountRef"}, {"SecretRef"})
    @@ "VenafiCloud" :> Moves({"URL"}, {}, {"APITokenSecretRef"})

VenafiIssuerMoves ==
       "VenafiIssuer" :> Moves({"Zone"}, {}, {"TPP", "Cloud", "NGTS"})
    @@ "VenafiNGTS" :> Moves({"URL", "TokenEndpoint", "TSGID"}, {}, {"CredentialsRef"})
    @@ "VenafiTPP" :> Moves({"URL"}, {"CABundle"}, {"CredentialsRef", "CABundleSecretRef"})

X509SubjectMoves ==
       "X509Subject" :> Moves({"SerialNumber"}, {"Countries", "OrganizationalUnits", "Localities",
            "Provinces", "StreetAddresses", "PostalCodes"}, {})

ACMEAuthorizationMoves ==
       "ACMEAuthorization" :> Moves({"URL", "Identifier", "InitialState"}, {"Wildcard",
            "Challenges"}, {})
    @@ "ACMEChallenge" :> Moves({"URL", "Token", "Type"}, {}, {})
    @@ "ACMEChallengeSolver" :> Moves({}, {"Selector", "HTTP01", "WaitInsteadOfSelfCheck"},
            {"DNS01"})

ACMEChallengeSolverDNS01Moves ==
       "ACMEChallengeSolverDNS01" :> Moves({"CNAMEStrategy"}, {"Webhook"}, {"Akamai", "CloudDNS",
            "Cloudflare", "Route53", "AzureDNS", "DigitalOcean", "AcmeDNS", "RFC2136"})

ACMEChallengeSolverHTTP01Moves ==
       "ACMEChallengeSolverHTTP01" :> Moves({}, {"Ingress", "GatewayHTTPRoute"}, {})
    @@ "ACMEChallengeSolverHTTP01GatewayHTTPRoute" :> Moves({"ServiceType"}, {"Labels",
            "ParentRefs", "PodTemplate"}, {})
    @@ "ACMEChallengeSolverHTTP01Ingress" :> Moves({"ServiceType", "Name"}, {"IngressClassName",
            "Class", "PodTemplate", "IngressTemplate"}, {})
    @@ "ACMEChallengeSolverHTTP01IngressObjectMeta" :> Moves({}, {"Annotations", "Labels"}, {})
    @@ "ACMEChallengeSolverHTTP01IngressPodObjectMeta" :> Moves({}, {"Annotations", "Labels"}, {})
    @@ "ACMEChallengeSolverHTTP01IngressPodResources" :> Moves({}, {"Limits", "Requests"}, {})

ACMEChallengeSolverHTTP01IngressPodSecurityContextMoves ==
       "ACMEChallengeSolverHTTP01IngressPodSecurityContext" :> Moves({}, {"SELinuxOptions",
            "RunAsUser", "RunAsGroup", "RunAsNonRoot", "SupplementalGroups", "FSGroup", "Sysctls",
            "FSGroupChangePolicy", "SeccompProfile"}, {})
    @@ "ACMEChallengeSolverHTTP01IngressPodSpec" :> Moves({"PriorityClassName",
            "ServiceAccountName"}, {"NodeSelector", "Affinity", "Tolerations", "ImagePullSecrets",
            "SecurityContext", "Resources"}, {})
    @@ "ACMEChallengeSolverHTTP01IngressPodTemplate" :> Moves({}, {},
            {"ACMEChallengeSolverHTTP01IngressPodObjectMeta", "Spec"})
    @@ "ACMEChallengeSolverHTTP01IngressTemplate" :> Moves({}, {},
            {"ACMEChallengeSolverHTTP01IngressObjectMeta"})

ACMEExternalAccountBindingMoves ==
       "ACMEExternalAccountBinding" :> Moves({"KeyID", "KeyAlgorithm"}, {}, {"Key"})
    @@ "ACMEIssuer" :> Moves({"Email", "Server", "PreferredChain", "SkipTLSVerify",
            "DisableAccountKeyGeneration", "EnableDurationFeature", "Profile"}, {"CABundle"},
            {"ExternalAccountBinding", "PrivateKey", "Solvers"})
    @@ "ACMEIssuerDNS01ProviderAcmeDNS" :> Moves({"Host"}, {}, {"AccountSecret"})

ACMEIssuerDNS01ProviderAkamaiMoves ==
       "ACMEIssuerDNS01ProviderAkamai" :> Moves({"ServiceConsumerDomain"}, {}, {"ClientToken",
            "ClientSecret", "AccessToken"})
    @@ "ACMEIssuerDNS01ProviderAzureDNS" :> Moves({"ClientID", "SubscriptionID", "TenantID",
            "ResourceGroupName", "HostedZoneName", "Environment", "ZoneType"}, {"ManagedIdentity"},
            {"ClientSecret"})
    @@ "ACMEIssuerDNS01ProviderCloudDNS" :> Moves({"Project", "HostedZoneName"}, {},
            {"ServiceAccount"})

ACMEIssuerDNS01ProviderCloudflareMoves ==
       "ACMEIssuerDNS01ProviderCloudflare" :> Moves({"Email"}, {}, {"APIKey", "APIToken"})
    @@ "ACMEIssuerDNS01ProviderDigitalOcean" :> Moves({}, {}, {"Token"})
    @@ "ACMEIssuerDNS01ProviderRFC2136" :> Moves({"Nameserver", "TSIGKeyName", "TSIGAlgorithm",
            "Protocol"}, {}, {"TSIGSecret"})

ACMEIssuerDNS01ProviderRoute53Moves ==
       "ACMEIssuerDNS01ProviderRoute53" :> Moves({"AccessKeyID", "Role", "HostedZoneID", "Region"},
            {"Auth"}, {"SecretAccessKeyID", "SecretAccessKey"})
    @@ "ACMEIssuerDNS01ProviderWebhook" :> Moves({"GroupName", "SolverName"}, {"Config"}, {})
    @@ "ACMEIssuerStatus" :> Moves({"URI", "LastRegisteredEmail", "LastPrivateKeyHash"}, {}, {})
    @@ "AzureManagedIdentity" :> Moves({"ClientID", "ResourceID", "TenantID"}, {}, {})
    @@ "CertificateDNSNameSelector" :> Moves({}, {"MatchLabels", "DNSNames", "DNSZones"}, {})

ChallengeMoves ==
       "Challenge" :> Moves({"ObjectMeta"}, {}, {"Spec", "Status"})
    @@ "ChallengeList" :> Moves({"ListMeta"}, {}, {"Items"})
    @@ "ChallengeSpec" :> Moves({"URL", "DNSName", "Wildcard", "Type", "Token", "Key"}, {},
            {"Solver", "IssuerRef"})
    @@ "ChallengeStatus" :> Moves({"Processing", "Presented", "Reason", "State"}, {"PresentedAt"},
            {})

OrderMoves ==
       "Order" :> Moves({"ObjectMeta"}, {}, {"Spec", "Status"})
    @@ "OrderList" :> Moves({"ListMeta"}, {}, {"Items"})
    @@ "OrderSpec" :> Moves({"CommonName", "Profile", "Replaces"}, {"DNSNames", "IPAddresses",
            "Duration"}, {"IssuerRef"})
    @@ "OrderStatus" :> Moves({"URL", "FinalizeURL", "State", "Reason"}, {"Authorizations",
            "Certificate", "FailureTime"}, {})

Route53AuthMoves ==
       "Route53Auth" :> Moves({}, {"Kubernetes"}, {})
    @@ "Route53KubernetesAuth" :> Moves({}, {"ServiceAccountRef"}, {})
    @@ "ServiceAccountRef" :> Moves({"Name"}, {"TokenAudiences"}, {})

\* The generated conversions that are registered, struct by struct.
CertManagerConversions ==
    ACMERenewalWindowMoves @@ CertificateConditionMoves @@ CertificateRenewalMoves @@
    CertificateRequestSpecMoves @@ CertificateSpecMoves @@ ClusterIssuerMoves @@
    IssuerConfigMoves @@ IssuerStatusMoves @@ PKCS12KeystoreMoves @@ VaultAuthMoves @@
    VaultIssuerMoves @@ VenafiIssuerMoves @@ X509SubjectMoves

\* Those of the acme group.
ACMEConversions ==
    ACMEAuthorizationMoves @@ ACMEChallengeSolverDNS01Moves @@ ACMEChallengeSolverHTTP01Moves @@
    ACMEChallengeSolverHTTP01IngressPodSecurityContextMoves @@ ACMEExternalAccountBindingMoves
    @@ ACMEIssuerDNS01ProviderAkamaiMoves @@ ACMEIssuerDNS01ProviderCloudflareMoves @@
    ACMEIssuerDNS01ProviderRoute53Moves @@ ChallengeMoves @@ OrderMoves @@ Route53AuthMoves

-----------------------------------------------------------------------------
\* The hand-written conversions of a Certificate.
CertificateSpecToInternal ==
       <<"EmailSANs">> :> Sets(<<"EmailAddresses">>, Same)
    @@ <<"URISANs">> :> Sets(<<"URIs">>, Same)
    @@ <<"Organization">> :> Sets(<<"Subject", "Organizations">>, Same)
    @@ <<"KeyAlgorithm">> :> Sets(<<"PrivateKey", "Algorithm">>, "ecdsa" :> "ECDSA" @@ "rsa" :> "RSA")
    @@ <<"KeyEncoding">> :> Sets(<<"PrivateKey", "Encoding">>, "pkcs1" :> "PKCS1" @@ "pkcs8" :> "PKCS8")
    @@ <<"KeySize">> :> Sets(<<"PrivateKey", "Size">>, Same)

CertificateSpecFromInternal ==
       <<"EmailAddresses">> :> Sets(<<"EmailSANs">>, Same)
    @@ <<"URIs">> :> Sets(<<"URISANs">>, Same)
    @@ <<"Subject", "Organizations">> :> Sets(<<"Organization">>, Same)
    @@ <<"PrivateKey", "Algorithm">> :> Sets(<<"KeyAlgorithm">>, "ECDSA" :> "ecdsa" @@ "RSA" :> "rsa")
    @@ <<"PrivateKey", "Encoding">> :> Sets(<<"KeyEncoding">>, "PKCS1" :> "pkcs1" @@ "PKCS8" :> "pkcs8")
    @@ <<"PrivateKey", "Size">> :> Sets(<<"KeySize">>, Same)

CertificateRequestSpecToInternal ==
    <<"CSRPEM">> :> Sets(<<"Request">>, Same)

CertificateRequestSpecFromInternal ==
    <<"Request">> :> Sets(<<"CSRPEM">>, Same)

\* The hand-written conversions of a Challenge and of an Order.
ChallengeSpecToInternal ==
       <<"AuthzURL">> :> Sets(<<"AuthorizationURL">>, Same)
    @@ <<"Type">> :> Sets(<<"Type">>, "http-01" :> "HTTP-01" @@ "dns-01" :> "DNS-01")

ChallengeSpecFromInternal ==
       <<"AuthorizationURL">> :> Sets(<<"AuthzURL">>, Same)
    @@ <<"Type">> :> Sets(<<"Type">>, "HTTP-01" :> "http-01" @@ "DNS-01" :> "dns-01")

OrderSpecToInternal ==
    <<"CSR">> :> Sets(<<"Request">>, Same)

OrderSpecFromInternal ==
    <<"Request">> :> Sets(<<"CSR">>, Same)

ToInternal ==
       "CertificateSpec" :> CertificateSpecToInternal
    @@ "CertificateRequestSpec" :> CertificateRequestSpecToInternal
    @@ "ChallengeSpec" :> ChallengeSpecToInternal
    @@ "OrderSpec" :> OrderSpecToInternal

FromInternal ==
       "CertificateSpec" :> CertificateSpecFromInternal
    @@ "CertificateRequestSpec" :> CertificateRequestSpecFromInternal
    @@ "ChallengeSpec" :> ChallengeSpecFromInternal
    @@ "OrderSpec" :> OrderSpecFromInternal

\* The values of the fields whose spelling differs between the versions.
KeyAlgorithmValues == {"rsa", "ecdsa"}
KeyEncodingValues == {"pkcs1", "pkcs8"}
ChallengeTypeValues == {"http-01", "dns-01"}
=============================================================================
