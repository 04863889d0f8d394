--------------------------- MODULE SchemaInternal ---------------------------
(***************************************************************************)
(* The internal version of the API types, through which every conversion   *)
(* goes (pkg/convert/internal/apis/{certmanager,acme,meta}).               *)
(***************************************************************************)
EXTENDS Layouts

CertificateTypes ==
       "Certificate" :> <<F("ObjectMeta"), S("Spec", "CertificateSpec"),
            S("Status", "CertificateStatus")>>
    @@ "CertificateList" :> <<F("ListMeta"), S("Items", "Certificate")>>

CertificateSpecTypes ==
       "CertificateSpec" :> <<S("Subject", "X509Subject"), F("LiteralSubject"), F("CommonName"),
            F("Duration"), F("RenewBefore"), F("RenewBeforePercentage"),
            S("Renewal", "CertificateRenewal"), F("DNSNames"), F("IPAddresses"), F("URIs"),
            S("OtherNames", "OtherName"), F("EmailAddresses"), F("SecretName"),
            S("SecretTemplate", "CertificateSecretTemplate"),
            S("Keystores", "CertificateKeystores"), S("IssuerRef", "IssuerReference"), F("IsCA"),
            F("Usages"), S("PrivateKey", "CertificatePrivateKey"), F("SignatureAlgorithm"),
            F("EncodeUsagesInRequest"), F("RevisionHistoryLimit"),
            S("AdditionalOutputFormats", "CertificateAdditionalOutputFormat"),
            E("NameConstraints")>>

OtherNameTypes ==
       "OtherName" :> <<F("OID"), F("UTF8Value")>>
    @@ "CertificatePrivateKey" :> <<F("RotationPolicy"), F("Encoding"), F("Algorithm"), F("Size")>>

CertificateAdditionalOutputFormatTypes ==
       "CertificateAdditionalOutputFormat" :> <<F("Type")>>
    @@ "X509Subject" :> <<F("Organizations"), F("Countries"), F("OrganizationalUnits"),
            F("Localities"), F("Provinces"), F("StreetAddresses"), F("PostalCodes"),
            F("SerialNumber")>>
    @@ "CertificateKeystores" :> <<S("JKS", "JKSKeystore"), S("PKCS12", "PKCS12Keystore")>>
    @@ "JKSKeystore" :> <<F("Create"), S("PasswordSecretRef", "SecretKeySelector"), F("Password"),
            F("Alias")>>
    @@ "PKCS12Keystore" :> <<F("Create"), S("PasswordSecretRef", "SecretKeySelector"),
            F("Password"), F("Profile")>>
    @@ "CertificateRenewal" :> <<F("Policy"), S("Windows", "CertificateRenewalWindows")>>

CertificateRenewalWindowsTypes ==
       "CertificateRenewalWindows" :> <<F("Timezone"), F("WindowDuration"), F("Cron")>>
    @@ "CertificateStatus" :> <<S("Conditions", "CertificateCondition"), F("LastFailureTime"),
            F("NotBefore"), F("NotAfter"), F("RenewalTime"), F("Revision"),
            F("NextPrivateKeySecretName"), F("FailedIssuanceAttempts"),
            S("ACME", "CertificateACMEStatus")>>
    @@ "CertificateCondition" :> <<F("Type"), F("Status"), F("LastTransitionTime"), F("Reason"),
            F("Message"), F("ObservedGeneration")>>

CertificateSecretTemplateTypes ==
       "CertificateSecretTemplate" :> <<F("Annotations"), F("Labels")>>
    @@ "NameConstraints" :> <<F("Critical"), S("Permitted", "NameConstraintItem"),
            S("Excluded", "NameConstraintItem")>>
    @@ "NameConstraintItem" :> <<F("DNSDomains"), F("IPRanges"), F("EmailAddresses"),
            F("URIDomains")>>
    @@ "CertificateACMEStatus" :> <<S("ARI", "CertificateACMEARIStatus")>>
    @@ "CertificateACMEARIStatus" :> <<S("SuggestedWindow", "ACMERenewalWindow"),
            F("ExplanationURL"), F("LastChecked"), F("NextCheck"), F("LastError")>>
    @@ "ACMERenewalWindow" :> <<F("Start"), F("End")>>

CertificateRequestTypes ==
       "CertificateRequest" :> <<F("ObjectMeta"), S("Spec", "CertificateRequestSpec"),
            S("Status", "CertificateRequestStatus")>>
    @@ "CertificateRequestList" :> <<F("ListMeta"), S("Items", "CertificateRequest")>>
    @@ "CertificateRequestSpec" :> <<F("Duration"), S("IssuerRef", "IssuerReference"), F("Request"),
            F("IsCA"), F("Usages"), F("Username"), F("UID"), F("Groups"), F("Extra")>>
    @@ "CertificateRequestStatus" :> <<S("Conditions", "CertificateRequestCondition"),
            F("Certificate"), F("CA"), F("FailureTime")>>

CertificateRequestConditionTypes ==
       "CertificateRequestCondition" :> <<F("Type"), F("Status"), F("LastTransitionTime"),
            F("Reason"), F("Message")>>

ClusterIssuerTypes ==
       "ClusterIssuer" :> <<F("ObjectMeta"), S("Spec", "IssuerSpec"), S("Status", "IssuerStatus")>>
    @@ "ClusterIssuerList" :> <<F("ListMeta"), S("Items", "ClusterIssuer")>>
    @@ "Issuer" :> <<F("ObjectMeta"), S("Spec", "IssuerSpec"), S("Status", "IssuerStatus")>>
    @@ "IssuerList" :> <<F("ListMeta"), S("Items", "Issuer")>>
    @@ "IssuerSpec" :> <<S("IssuerConfig", "IssuerConfig")>>
    @@ "IssuerConfig" :> <<S("ACME", "ACMEIssuer"), S("CA", "CAIssuer"), S("Vault", "VaultIssuer"),
            S("SelfSigned", "SelfSignedIssuer"), S("Venafi", "VenafiIssuer")>>
    @@ "VenafiIssuer" :> <<F("Zone"), S("TPP", "VenafiTPP"), S("Cloud", "VenafiCloud"),
            S("NGTS", "VenafiNGTS")>>
    @@ "VenafiNGTS" :> <<F("URL"), F("TokenEndpoint"), F("TSGID"),
            S("CredentialsRef", "LocalObjectReference")>>

VenafiTPPTypes ==
       "VenafiTPP" :> <<F("URL"), S("CredentialsRef", "LocalObjectReference"), F("CABundle"),
            S("CABundleSecretRef", "SecretKeySelector")>>
    @@ "VenafiCloud" :> <<F("URL"), S("APITokenSecretRef", "SecretKeySelector")>>
    @@ "SelfSignedIssuer" :> <<F("CRLDistributionPoints")>>
    @@ "VaultIssuer" :> <<S("Auth", "VaultAuth"), F("Server"), F("ServerName"), F("Path"),
            F("Namespace"), F("CABundle"), S("CABundleSecretRef", "SecretKeySelector"),
            S("ClientCertSecretRef", "SecretKeySelector"),
            S("ClientKeySecretRef", "SecretKeySelector")>>
    @@ "VaultAuth" :> <<S("TokenSecretRef", "SecretKeySelector"), S("AppRole", "VaultAppRole"),
            S("ClientCertificate", "VaultClientCertificateAuth"),
            S("Kubernetes", "VaultKubernetesAuth"), S("AWS", "VaultAWSAuth")>>
    @@ "VaultAppRole" :> <<F("Path"), F("RoleId"), S("SecretRef", "SecretKeySelector")>>

VaultClientCertificateAuthTypes ==
       "VaultClientCertificateAuth" :> <<F("Path"), F("SecretName"), F("Name")>>
    @@ "VaultKubernetesAuth" :> <<F("Path"), S("SecretRef", "SecretKeySelector"),
            E("ServiceAccountRef"), F("Role")>>
    @@ "ServiceAccountRef" :> <<F("Name"), F("TokenAudiences")>>
    @@ "VaultAWSAuth" :> <<F("MountPath"), F("Role"), F("Region"), E("ServiceAccountRef"),
            F("IAMRoleARN"), F("VaultHeaderValue")>>
    @@ "CAIssuer" :> <<F("SecretName"), F("CRLDistributionPoints"), F("OCSPServers"),
            F("IssuingCertificateURLs")>>
    @@ "IssuerStatus" :> <<S("Conditions", "IssuerCondition"), S("ACME", "ACMEIssuerStatus")>>

IssuerConditionTypes ==
       "IssuerCondition" :> <<F("Type"), F("Status"), F("LastTransitionTime"), F("Reason"),
            F("Message"), F("ObservedGeneration")>>

ChallengeTypes ==
       "Challenge" :> <<F("ObjectMeta"), S("Spec", "ChallengeSpec"),
            S("Status", "ChallengeStatus")>>
    @@ "ChallengeList" :> <<F("ListMeta"), S("Items", "Challenge")>>
    @@ "ChallengeSpec" :> <<F("URL"), F("AuthorizationURL"), F("DNSName"), F("Wildcard"), F("Type"),
            F("Token"), F("Key"), S("Solver", "ACMEChallengeSolver"),
            S("IssuerRef", "IssuerReference")>>
    @@ "ChallengeStatus" :> <<F("Processing"), F("Presented"), F("PresentedAt"), F("Reason"),
            F("State")>>

ACMEIssuerTypes ==
       "ACMEIssuer" :> <<F("Email"), F("Server"), F("PreferredChain"), F("CABundle"),
            F("SkipTLSVerify"), S("ExternalAccountBinding", "ACMEExternalAccountBinding"),
            S("PrivateKey", "SecretKeySelector"), S("Solvers", "ACMEChallengeSolver"),
            F("DisableAccountKeyGeneration"), F("EnableDurationFeature"), F("Profile")>>
    @@ "ACMEExternalAccountBinding" :> <<F("KeyID"), S("Key", "SecretKeySelector"),
            F("KeyAlgorithm")>>

ACMEChallengeSolverTypes ==
       "ACMEChallengeSolver" :> <<S("Selector", "CertificateDNSNameSelector"),
            S("HTTP01", "ACMEChallengeSolverHTTP01"), S("DNS01", "ACMEChallengeSolverDNS01"),
            F("WaitInsteadOfSelfCheck")>>
    @@ "CertificateDNSNameSelector" :> <<F("MatchLabels"), F("DNSNames"), F("DNSZones")>>
    @@ "ACMEChallengeSolverHTTP01" :> <<S("Ingress", "ACMEChallengeSolverHTTP01Ingress"),
            S("GatewayHTTPRoute", "ACMEChallengeSolverHTTP01GatewayHTTPRoute")>>
    @@ "ACMEChallengeSolverHTTP01Ingress" :> <<F("ServiceType"), F("IngressClassName"), F("Class"),
            F("Name"), S("PodTemplate", "ACMEChallengeSolverHTTP01IngressPodTemplate"),
            S("IngressTemplate", "ACMEChallengeSolverHTTP01IngressTemplate")>>
    @@ "ACMEChallengeSolverHTTP01GatewayHTTPRoute" :> <<F("ServiceType"), F("Labels"),
            F("ParentRefs"), S("PodTemplate", "ACMEChallengeSolverHTTP01IngressPodTemplate")>>

ACMEChallengeSolverHTTP01IngressPodTemplateTypes ==
       "ACMEChallengeSolverHTTP01IngressPodTemplate" :>
            <<E("ACMEChallengeSolverHTTP01IngressPodObjectMeta"),
            S("Spec", "ACMEChallengeSolverHTTP01IngressPodSpec")>>
    @@ "ACMEChallengeSolverHTTP01IngressPodObjectMeta" :> <<F("Annotations"), F("Labels")>>
    @@ "ACMEChallengeSolverHTTP01IngressPodSpec" :> <<F("NodeSelector"), F("Affinity"),
            F("Tolerations"), F("PriorityClassName"), F("ServiceAccountName"),
            S("ImagePullSecrets", "LocalObjectReference"),
            S("SecurityContext", "ACMEChallengeSolverHTTP01IngressPodSecurityContext"),
            S("Resources", "ACMEChallengeSolverHTTP01IngressPodResources")>>
    @@ "ACMEChallengeSolverHTTP01IngressTemplate" :>
            <<E("ACMEChallengeSolverHTTP01IngressObjectMeta")>>
    @@ "ACMEChallengeSolverHTTP01IngressObjectMeta" :> <<F("Annotations"), F("Labels")>>
    @@ "ACMEChallengeSolverDNS01" :> <<F("CNAMEStrategy"),
            S("Akamai", "ACMEIssuerDNS01ProviderAkamai"),
            S("CloudDNS", "ACMEIssuerDNS01ProviderCloudDNS"),
            S("Cloudflare", "ACMEIssuerDNS01ProviderCloudflare"),
            S("Route53", "ACMEIssuerDNS01ProviderRoute53"),
            S("AzureDNS", "ACMEIssuerDNS01ProviderAzureDNS"),
            S("DigitalOcean", "ACMEIssuerDNS01ProviderDigitalOcean"),
            S("AcmeDNS", "ACMEIssuerDNS01ProviderAcmeDNS"),
            S("RFC2136", "ACMEIssuerDNS01ProviderRFC2136"),
            S("Webhook", "ACMEIssuerDNS01ProviderWebhook")>>

ACMEChallengeSolverHTTP01IngressPodSecurityContextTypes ==
       "ACMEChallengeSolverHTTP01IngressPodSecurityContext" :> <<F("SELinuxOptions"),
            F("RunAsUser"), F("RunAsGroup"), F("RunAsNonRoot"), F("SupplementalGroups"),
            F("FSGroup"), F("Sysctls"), F("FSGroupChangePolicy"), F("SeccompProfile")>>
    @@ "ACMEChallengeSolverHTTP01IngressPodResources" :> <<F("Limits"), F("Requests")>>

ACMEIssuerDNS01ProviderAkamaiTypes ==
       "ACMEIssuerDNS01ProviderAkamai" :> <<F("ServiceConsumerDomain"),
            S("ClientToken", "SecretKeySelector"), S("ClientSecret", "SecretKeySelector"),
            S("AccessToken", "SecretKeySelector")>>
    @@ "ACMEIssuerDNS01ProviderCloudDNS" :> <<S("ServiceAccount", "SecretKeySelector"),
            F("Project"), F("HostedZoneName")>>
    @@ "ACMEIssuerDNS01ProviderCloudflare" :> <<F("Email"), S("APIKey", "SecretKeySelector"),
            S("APIToken", "SecretKeySelector")>>
    @@ "ACMEIssuerDNS01ProviderDigitalOcean" :> <<S("Token", "SecretKeySelector")>>
    @@ "ACMEIssuerDNS01ProviderRoute53" :> <<S("Auth", "Route53Auth"), F("AccessKeyID"),
            S("SecretAccessKeyID", "SecretKeySelector"), S("SecretAccessKey", "SecretKeySelector"),
            F("Role"), F("HostedZoneID"), F("Region")>>
    @@ "Route53Auth" :> <<S("Kubernetes", "Route53KubernetesAuth")>>
    @@ "Route53KubernetesAuth" :> <<E("ServiceAccountRef")>>
    @@ "ServiceAccountRef" :> <<F("Name"), F("TokenAudiences")>>
    @@ "ACMEIssuerDNS01ProviderAzureDNS" :> <<F("ClientID"), S("ClientSecret", "SecretKeySelector"),
            F("SubscriptionID"), F("TenantID"), F("ResourceGroupName"), F("HostedZoneName"),
            F("Environment"), S("ManagedIdentity", "AzureManagedIdentity"), F("ZoneType")>>
    @@ "AzureManagedIdentity" :> <<F("ClientID"), F("ResourceID"), F("TenantID")>>

ACMEIssuerDNS01ProviderAcmeDNSTypes ==
       "ACMEIssuerDNS01ProviderAcmeDNS" :> <<F("Host"), S("AccountSecret", "SecretKeySelector")>>
    @@ "ACMEIssuerDNS01ProviderRFC2136" :> <<F("Nameserver"), S("TSIGSecret", "SecretKeySelector"),
            F("TSIGKeyName"), F("TSIGAlgorithm"), F("Protocol")>>
    @@ "ACMEIssuerDNS01ProviderWebhook" :> <<F("GroupName"), F("SolverName"), F("Config")>>
    @@ "ACMEIssuerStatus" :> <<F("URI"), F("LastRegisteredEmail"), F("LastPrivateKeyHash")>>

OrderTypes ==
       "Order" :> <<F("ObjectMeta"), S("Spec", "OrderSpec"), S("Status", "OrderStatus")>>
    @@ "OrderList" :> <<F("ListMeta"), S("Items", "Order")>>
    @@ "OrderSpec" :> <<F("Request"), S("IssuerRef", "IssuerReference"), F("CommonName"),
            F("DNSNames"), F("IPAddresses"), F("Duration"), F("Profile"), F("Replaces")>>
    @@ "OrderStatus" :> <<F("URL"), F("FinalizeURL"), F("Certificate"), F("State"), F("Reason"),
            S("Authorizations", "ACMEAuthorization"), F("FailureTime")>>
    @@ "ACMEAuthorization" :> <<F("URL"), F("Identifier"), F("Wildcard"), F("InitialState"),
            S("Challenges", "ACMEChallenge")>>

ACMEChallengeTypes ==
       "ACMEChallenge" :> <<F("URL"), F("Token"), F("Type")>>

LocalObjectReferenceTypes ==
       "LocalObjectReference" :> <<F("Name")>>
    @@ "IssuerReference" :> <<F("Name"), F("Kind"), F("Group")>>
    @@ "SecretKeySelector" :> <<E("LocalObjectReference"), F("Key")>>

\* The layout of every struct.
Types ==
    CertificateTypes @@ CertificateSpecTypes @@ OtherNameTypes @@
    CertificateAdditionalOutputFormatTypes @@ CertificateRenewalWindowsTypes @@
    CertificateSecretTemplateTypes @@ CertificateRequestTypes @@
    CertificateRequestConditionTypes @@ ClusterIssuerTypes @@ VenafiTPPTypes @@
    VaultClientCertificateAuthTypes @@ IssuerConditionTypes @@ ChallengeTypes @@ ACMEIssuerTypes
    @@ ACMEChallengeSolverTypes @@ ACMEChallengeSolverHTTP01IngressPodTemplateTypes @@
    ACMEChallengeSolverHTTP01IngressPodSecurityContextTypes @@
    ACMEIssuerDNS01ProviderAkamaiTypes @@ ACMEIssuerDNS01ProviderAcmeDNSTypes @@ OrderTypes @@
    ACMEChallengeTypes @@ LocalObjectReferenceTypes

-----------------------------------------------------------------------------
\* meta/v1: the conversions of the types all the groups share.
LocalObjectReferenceMoves ==
       "IssuerReference" :> Moves({"Name", "Kind", "Group"}, {}, {})
    @@ "LocalObjectReference" :> Moves({"Name"}, {}, {})
    @@ "SecretKeySelector" :> Moves({"Key"}, {}, {"LocalObjectReference"})

\* The values of the fields whose spelling differs between the versions.
KeyAlgorithmValues == {"RSA", "ECDSA", "Ed25519"}
KeyEncodingValues == {"PKCS1", "PKCS8"}
ChallengeTypeValues == {"HTTP-01", "DNS-01"}
=============================================================================
